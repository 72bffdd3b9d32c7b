----------------------------- MODULE AgentTask -----------------------------
(***************************************************************************)
(* The life of one Agent Background Task                                   *)
(* (src/src/runtime/background-task-runtime.mjs): its record, kept in      *)
(* memory and in the metadata of its Session, the turns the host runs for  *)
(* it, and the asynchronous operations that meet on it: the dispatch, host *)
(* events (handled one after the other), the inspections of watch,         *)
(* cancellation, the resolution of a retry and recovery after a crash.     *)
(*                                                                         *)
(* A worker is one such operation; work[w].pc names what it awaits, and an *)
(* action is the code from one await to the next.  Transitions of the      *)
(* record are serialised (#transitions): `lane' is the promise chain, its  *)
(* head runs.  Revisions and observation epochs only ever grow and are     *)
(* only compared, so a worker keeps in `fresh' which parts of its claim    *)
(* still equal the current ones.                                           *)
(*                                                                         *)
(* Left out: permission and question waits, restart with a second Session, *)
(* nested Tasks, inputs, receipts, deleted Sessions, authorization         *)
(* quarantine, the suspension of dispatch, disposal.                       *)
(***************************************************************************)
EXTENDS Naturals, FiniteSets, Sequences

CONSTANTS
    Worker,      \* the operations that may run, see Operation
    MaxTurns,    \* bound on the turns of the Task, `continue' makes a new one
    MaxFaults,   \* bound on failed calls of the store and of the host
    MaxCrashes,  \* bound on the restarts of the process
    MaxPrompts,  \* bound on the times someone else prompts the Session
    NoRecord     \* no record to be written or restored

Operation == {"run", "event", "watch", "cancel", "resolve"}

ASSUME AgentTaskAssumption ==
    /\ Worker \subseteq Operation
    /\ "run" \in Worker
    /\ MaxTurns \in Nat \ {0}
    /\ MaxFaults \in Nat
    /\ MaxCrashes \in Nat
    /\ MaxPrompts \in Nat

VARIABLES
    store,        \* the Session metadata: the record and the delegation
    mem,          \* task.record
    behind,       \* the store holds a newer revision than task.record
    work,         \* the workers
    lane,         \* #transitions: workers in the order of their transitions
    slot,         \* the Task in the scheduler
    lock,         \* task.lockAcquired
    fence,        \* cancellationFences
    aborted,      \* task.scopeAbort
    unconfirmed,  \* task.dispatchUnconfirmed
    observed,     \* task.observedActive
    recovered,    \* task.recovered
    live,         \* the phase of the live attempt of the current turn
    wanted,       \* #dispatch has scheduled #run
    host,         \* the turns of the host, by dispatchMessageID
    events,       \* pendingRuntimeEvents
    process,      \* the process that holds the runtime
    faults, crashes, prompts    \* how often each has happened

volatile == <<slot, lock, fence, aborted, unconfirmed, observed, recovered, live>>
bounds == <<faults, crashes, prompts>>
vars == <<store, mem, behind, work, lane, volatile, wanted, host, events,
          process, bounds>>

Turn == 1 .. MaxTurns

\* status and phase together.  "running" stands for running and retrying,
\* "settling" for running/completion-settling, "interrupted" and "errored" for
\* waiting_retry_decision, "pending" for retry-continue-pending; "unknown" is
\* the status unknown in a phase a busy event can clear, "unproven" the others.
Terminal == {"completed", "failed", "cancelled"}
Waiting == {"interrupted", "errored"}
Unknown == {"unknown", "unproven"}

\* A record has a stage, turn (dispatchMessageID), attempt (attemptNumber),
\* handled (handledModelErrorAttempt has reached it) and cancelled
\* (cancellationRequestedAt); its delegation is "running", "completed", "failed",
\* "cancelled" or "unknown".

\* The status a request leads to.
Target == [start |-> "starting", run |-> "running", resume |-> "running",
           cancelled |-> "cancelled", errored |-> "errored",
           interrupted |-> "interrupted", unknown |-> "unknown",
           settle |-> "settling", complete |-> "completed",
           unsettled |-> "unproven", unconfirmed |-> "unknown",
           retryUnconfirmed |-> "unproven", cancelUnproven |-> "unproven",
           cancel |-> "cancelling", continue |-> "pending", stop |-> "failed"]

\* Requests made under the claim of an inspection, and those that name the
\* revision they expect.
Claimed == {"cancelled", "errored", "interrupted", "unknown", "settle", "complete"}
Expecting == {"continue", "stop", "unsettled"}

Claim == {"revision", "attempt", "observation"}

Idle == [pc |-> "idle", req |-> "start", then |-> "end", fresh |-> {},
         token |-> FALSE, seen |-> "none", next |-> NoRecord, prev |-> NoRecord]

InFlight == {"sent", "prompted", "busy"}
Running == {"busy", "again"}

-----------------------------------------------------------------------------
(* Conditions of the code *)

CancelForever(r) == r.cancelled \/ fence
CancelPending(r) == r.stage \notin Terminal /\ (r.cancelled \/ fence)

\* dispatchPending: some dispatchTurn has not ended.  task.dispatchPending is
\* part of it, a request under way is under a token.
DispatchPending == \E w \in Worker : work[w].token

Current(w) == work[w].fresh = Claim

\* recordOccupiesSlot for an unknown record; the other stages are told apart
\* where it is used.
OccupiesSlot(r) == CancelPending(r) \/ r.attempt > 0

SessionRunning == \E t \in Turn : host[t] \in Running

Faulty == faults < MaxFaults /\ faults' = faults + 1

-----------------------------------------------------------------------------
(* How a worker goes on *)

\* w goes on as r, the others lose part of their claims.
Goes(w, r, lost) ==
    work' = [v \in Worker |-> IF v = w THEN r ELSE [work[v] EXCEPT !.fresh = @ \ lost]]

\* The event handler takes its event from the queue when it returns.
Move(w, r, lost) ==
    /\ Goes(w, r, lost)
    /\ events' = IF w = "event" /\ r.pc = "idle" THEN Tail(events) ELSE events

\* When it throws, the event stays and is handled again.
Throw(w, lost) == Goes(w, Idle, lost) /\ UNCHANGED events

\* After an operation that may be part of a dispatch (finally), of a run that
\* failed or of recovery.
After(r) ==
    IF r.token THEN [Idle EXCEPT !.pc = "finally", !.token = TRUE]
    ELSE IF r.then # "end" THEN [Idle EXCEPT !.pc = r.then]
    ELSE Idle

\* Revisions are new with every accepted record, attempts only with some.
LostBy(r) == {"revision"} \cup
    (IF r.turn = mem.turn /\ r.attempt = mem.attempt THEN {} ELSE {"attempt"})

\* acceptTaskRecord; the live attempt of another turn no longer counts.
Take(r) ==
    /\ mem' = r
    /\ behind' = FALSE
    /\ live' = IF "attempt" \in LostBy(r) THEN "none" ELSE live

ReleaseTerminal(r) ==
    /\ slot' = IF CancelPending(r) THEN slot ELSE "none"
    /\ lock' = FALSE
    /\ fence' = (fence /\ r.stage \notin Terminal)

\* retainSlot and retainConservativeLock.
Retain(r) ==
    /\ slot' = IF r.stage \in Terminal THEN slot ELSE "active"
    /\ lock' = TRUE
    /\ UNCHANGED fence

Ask(w, r, req) == Move(w, [r EXCEPT !.pc = "lane", !.req = req], {}) /\ lane' = Append(lane, w)

-----------------------------------------------------------------------------
(* Host events.  The plugin drains its queue one event at a time; a handler *)
(* that finds a transition under way invalidates it first.                  *)

BeginEvent ==
    LET w == "event" IN
    /\ process = "up" /\ w \in Worker
    /\ work[w].pc = "idle" /\ events # <<>>
    /\ LET r == [Idle EXCEPT !.seen = Head(events)] IN
       IF lane = <<>> THEN Move(w, [r EXCEPT !.pc = "reload"], {})
       ELSE Move(w, [r EXCEPT !.pc = "wait"], {"observation"})
    /\ UNCHANGED <<store, mem, behind, lane, volatile, wanted, host, process, bounds>>

Waited(w) ==
    /\ work[w].pc = "wait" /\ lane = <<>>
    /\ Move(w, [work[w] EXCEPT !.pc = "reload"], {})
    /\ UNCHANGED <<store, mem, behind, lane, volatile, wanted, host, process, bounds>>

\* refreshTaskFromOwnerRef, then a new observation of a Task that goes on.
\* When cancellation is pending every event leads to an inspection.
Reload(w) ==
    LET r == IF behind THEN store.task ELSE mem
        lost == IF behind THEN LostBy(r) ELSE {}
        seen == IF CancelPending(r) THEN "idle" ELSE work[w].seen
    IN
    /\ work[w].pc = "reload"
    /\ Take(r)
    /\ IF r.stage \in Terminal THEN Move(w, Idle, lost)
       ELSE Move(w, [work[w] EXCEPT !.pc = "observe", !.fresh = {"observation"}, !.seen = seen],
                 lost \cup {"observation"})
    /\ UNCHANGED <<store, lane, slot, lock, fence, aborted, unconfirmed, observed,
                   recovered, wanted, host, process, bounds>>

\* The stages a busy host brings back to running.
Resumable == {"interrupted", "unknown", "running", "settling"}

\* beginObservation returns once the transitions under way are over (the ones that
\* queued up after the call are waited for here too).  A busy event is evidence at
\* once, anything else goes on to the inspection.
Observe(w) ==
    LET r == [work[w] EXCEPT !.fresh = (@ \cap {"observation"}) \cup {"revision", "attempt"}] IN
    /\ work[w].pc = "observe" /\ lane = <<>>
    /\ IF r.seen # "busy"
       THEN /\ Move(w, [r EXCEPT !.pc = "inspect"], {})
            /\ UNCHANGED <<lane, observed, live>>
       ELSE /\ observed' = TRUE
            /\ live' = "active"
            /\ IF mem.stage \in Resumable THEN Ask(w, r, "resume")
               ELSE Move(w, Idle, {}) /\ UNCHANGED lane
    /\ UNCHANGED <<store, mem, behind, slot, lock, fence, aborted, unconfirmed,
                   recovered, wanted, host, process, bounds>>

-----------------------------------------------------------------------------
(* inspect *)

\* inspect returns at once on a terminal record, otherwise it observes.
Inspecting(r) ==
    IF mem.stage \in Terminal THEN After(r)
    ELSE [Idle EXCEPT !.pc = "observe", !.fresh = {"observation"}, !.token = r.token,
                      !.then = r.then]

\* The heartbeat of watch inspects the Tasks that need no decision.
BeginWatch ==
    LET w == "watch" IN
    /\ process = "up" /\ w \in Worker
    /\ work[w].pc = "idle"
    /\ mem.stage \notin Terminal \cup Waiting \cup Unknown
    /\ Move(w, Inspecting(Idle), {"observation"})
    /\ UNCHANGED <<store, mem, behind, lane, volatile, wanted, host, process, bounds>>

\* The record is read again; a newer one ends the inspection.
InspectRecord(w) ==
    LET r == IF behind THEN store.task ELSE mem IN
    /\ work[w].pc = "inspect"
    /\ Take(r)
    /\ IF mem.stage \in Terminal \/ behind \/ ~Current(w)
       THEN /\ Move(w, After(work[w]), IF behind THEN LostBy(r) ELSE {})
            /\ IF Current(w) /\ ~behind /\ mem.stage \in Terminal THEN ReleaseTerminal(mem)
               ELSE UNCHANGED <<slot, lock, fence>>
       ELSE /\ Move(w, [work[w] EXCEPT !.pc = "read"], {})
            /\ UNCHANGED <<slot, lock, fence>>
    /\ UNCHANGED <<store, lane, aborted, unconfirmed, observed, recovered, wanted,
                   host, process, bounds>>

\* inspectTurn: a Session the host lists as active is running; otherwise its
\* messages are read and then, in a second call, the list once more.
ReadTurn(w) ==
    /\ work[w].pc = "read"
    /\ Move(w, IF SessionRunning THEN [work[w] EXCEPT !.pc = "judge", !.seen = "running"]
               ELSE [work[w] EXCEPT !.pc = "reread",
                     !.seen = IF "attempt" \in work[w].fresh /\ host[mem.turn] \in {"result", "error"}
                              THEN host[mem.turn] ELSE "stopped"], {})
    /\ UNCHANGED <<store, mem, behind, lane, volatile, wanted, host, process, bounds>>

RereadTurn(w) ==
    /\ work[w].pc = "reread"
    /\ Move(w, [work[w] EXCEPT !.pc = "judge", !.seen = IF SessionRunning THEN "running" ELSE @], {})
    /\ UNCHANGED <<store, mem, behind, lane, volatile, wanted, host, process, bounds>>

\* An absent Session is stopped for a cancellation only when no dispatch is
\* pending or unconfirmed and the live attempt has been seen active.
StoppedUnseen == ~unconfirmed /\ ~DispatchPending
StoppedIfActive == ~unconfirmed /\ live = "active" /\ ~DispatchPending
StoppedForCancel ==
    ~unconfirmed /\ live \in {"none", "active"} /\ ~DispatchPending

Interrupted ==
    /\ recovered \/ observed \/ live = "active"
    /\ ~DispatchPending
    /\ live \in {"none", "active"}
    /\ mem.stage \in {"running", "settling"}

\* What the inspection asks for, "none" when it leaves the Task alone.
Verdict(seen) ==
    CASE CancelPending(mem) ->
           IF seen # "running" /\ StoppedForCancel THEN "cancelled" ELSE "none"
      [] ~CancelPending(mem) /\ seen = "running" -> "none"
      [] OTHER ->
           IF mem.stage = "starting" /\ ~DispatchPending /\ unconfirmed THEN "unknown"
           ELSE IF seen = "error" THEN IF mem.handled THEN "none" ELSE "errored"
           ELSE IF seen = "result" THEN "settle"
           ELSE IF Interrupted THEN "interrupted" ELSE "none"

\* A running host is evidence, and a new observation unless a cancellation
\* is pending.
Judge(w) ==
    LET r == work[w]
        busy == Current(w) /\ r.seen = "running"
        request == Verdict(r.seen)
    IN
    /\ r.pc = "judge"
    /\ live' = IF busy THEN "active" ELSE live
    /\ observed' = (observed \/ (busy /\ ~CancelPending(mem)))
    /\ IF Current(w) /\ request # "none" THEN Ask(w, [r EXCEPT !.seen = "none"], request)
       ELSE /\ Move(w, After(r), IF busy /\ ~CancelPending(mem) THEN {"observation"} ELSE {})
            /\ UNCHANGED lane
    /\ UNCHANGED <<store, mem, behind, slot, lock, fence, aborted, unconfirmed,
                   recovered, wanted, host, process, bounds>>

\* A call of the inspection fails.  Under a current claim the Task becomes
\* unknown.
FailInspection(w) ==
    /\ work[w].pc \in {"inspect", "read", "reread"} /\ Faulty
    /\ IF Current(w) THEN Ask(w, work[w], "unknown")
       ELSE Move(w, After(work[w]), {}) /\ UNCHANGED lane
    /\ UNCHANGED <<store, mem, behind, volatile, wanted, host, process, crashes, prompts>>

-----------------------------------------------------------------------------
(* Transitions of the record *)

NextRecordSameTurn(req) ==
    [mem EXCEPT !.stage = Target[req], !.cancelled = @ \/ fence,
                !.attempt = IF req = "start" THEN @ + 1 ELSE @,
                !.handled = IF req = "errored" THEN TRUE
                            ELSE IF req = "start" THEN FALSE ELSE @]

\* The record a request writes.  A cancellation that is known goes with it.
NextRecord(req) ==
    [mem EXCEPT !.stage = Target[req],
                !.cancelled = @ \/ fence,
                !.attempt = IF req = "start" THEN @ + 1 ELSE @,
                !.turn = IF req = "continue" THEN @ + 1 ELSE @,
                !.handled = IF req = "errored" THEN TRUE
                            ELSE IF req = "start" THEN FALSE ELSE @]

\* The delegation a record of that stage is written with.
DelegationOf(stage, d) ==
    IF stage \in {"running", "settling"} THEN "running"
    ELSE IF stage \in Terminal THEN stage ELSE d

\* A terminal record stays, and a cancellation lets nothing else through.
TerminalNeverStays(req) == FALSE
TerminalStays(req) == mem.stage \in Terminal /\ mem.stage # Target[req]

CancelNeverWins(req) == FALSE
CancelWins(req) == CancelPending(mem) /\ Target[req] \notin Unknown \cup {"cancelled"}

\* The guards of a transition, in their order.
Admission(w) ==
    LET r == work[w]
        revised == "revision" \notin r.fresh
    IN
    IF r.req = "cancel" THEN "go"
    ELSE IF r.req \in Claimed /\ ~Current(w) THEN "null"
    ELSE IF r.req \in Expecting /\ revised THEN "throw"
    ELSE IF r.req = "start" /\ (revised \/ CancelPending(mem)) THEN "null"
    ELSE IF r.req = "errored" /\ (mem.handled \/ CancelPending(mem)) THEN "null"
    ELSE IF r.req = "resume" /\ ("attempt" \notin r.fresh \/ mem.stage = "running") THEN "record"
    ELSE IF TerminalStays(r.req) \/ CancelWins(r.req) THEN "record"
    ELSE "go"

\* What the caller does with the outcome: "done", refused with the "record" as
\* it is, or "null" for a stale claim.  `task' is task.record by then.
Returned(w, task, out, lost) ==
    LET r == work[w] IN
    CASE r.req \in {"cancelled", "stop"} ->
           /\ Move(w, After(r), lost)
           /\ IF out = "null" THEN UNCHANGED <<slot, lock, fence>> ELSE ReleaseTerminal(task)
      [] r.req = "settle" ->
           /\ Move(w, IF out # "null" /\ task.stage = "settling" /\ {"attempt", "observation"} \subseteq r.fresh
                      THEN [r EXCEPT !.pc = "report", !.fresh = Claim, !.next = NoRecord, !.prev = NoRecord]
                      ELSE After(r), lost)
           /\ UNCHANGED <<slot, lock, fence>>
      [] r.req = "complete" ->
           IF out = "done" THEN Move(w, After(r), lost) /\ ReleaseTerminal(task)
           ELSE /\ Move(w, [r EXCEPT !.pc = "revert", !.next = NoRecord, !.prev = NoRecord], lost)
                /\ UNCHANGED <<slot, lock, fence>>
      [] r.req = "resume" ->
           /\ Move(w, Idle, lost)
           /\ slot' = IF task.stage \in Terminal THEN slot ELSE "active"
           /\ UNCHANGED <<lock, fence>>
      [] r.req = "unsettled" -> Move(w, After(r), lost) /\ Retain(task)
      [] r.req = "continue" ->
           /\ Move(w, IF out = "done" THEN [Idle EXCEPT !.pc = "dispatch", !.fresh = Claim] ELSE Idle, lost)
           /\ UNCHANGED <<slot, lock, fence>>
      [] OTHER -> Move(w, After(r), lost) /\ UNCHANGED <<slot, lock, fence>>

\* What it does when the transition throws, its claim being `fresh' by then.
\* Inside #inspect the Task becomes unknown, inside #complete the delegation is
\* put back, inside a dispatch #run decides.
Thrown(w, task, fresh, lost) ==
    LET r == [work[w] EXCEPT !.next = NoRecord, !.prev = NoRecord, !.fresh = fresh]
        rest == Tail(lane)
    IN
    CASE r.req \in {"cancelled", "errored", "interrupted"} /\ fresh = Claim ->
           /\ Move(w, [r EXCEPT !.pc = "lane", !.req = "unknown"], lost)
           /\ lane' = Append(rest, w)
           /\ UNCHANGED <<slot, lock, fence>>
      [] r.req \in {"cancelled", "errored", "interrupted"} /\ fresh # Claim ->
           Move(w, After(r), lost) /\ lane' = rest /\ UNCHANGED <<slot, lock, fence>>
      [] r.req \in {"settle", "unsettled"} ->
           Move(w, After(r), lost) /\ lane' = rest /\ Retain(task)
      [] r.req = "complete" ->
           /\ Move(w, [r EXCEPT !.pc = "revert", !.seen = "failed"], lost)
           /\ lane' = rest
           /\ UNCHANGED <<slot, lock, fence>>
      [] OTHER ->
           /\ IF r.token THEN Move(w, [r EXCEPT !.pc = "failing"], lost)
              ELSE IF r.then # "end" THEN Move(w, After(r), lost) ELSE Throw(w, lost)
           /\ lane' = rest
           /\ UNCHANGED <<slot, lock, fence>>

\* A Task that cannot be recorded as unproven is so in memory, over whatever
\* record is there by then.
Remembered(req, task) ==
    IF req = "unsettled" THEN [task EXCEPT !.stage = Target[req]] ELSE task

Turns(w) == lane # <<>> /\ Head(lane) = w

\* The head of the lane checks its guards and starts to write.  Memory that
\* lags behind the store is found out by the store.
BeginTransition(w) ==
    LET r == work[w] IN
    /\ Turns(w) /\ r.pc = "lane" /\ Admission(w) = "go"
    /\ Move(w, IF behind /\ r.req # "cancel" THEN [r EXCEPT !.pc = "conflict"]
               ELSE [r EXCEPT !.pc = "write", !.next = NextRecord(r.req)], {})
    /\ UNCHANGED <<store, mem, behind, lane, volatile, wanted, host, process, bounds>>

\* A dispatch whose claim fails asks for another run if the Task waits for one.
Refuse(w) ==
    LET out == Admission(w) IN
    /\ Turns(w) /\ work[w].pc = "lane" /\ out \in {"null", "record"}
    /\ lane' = Tail(lane)
    /\ Returned(w, mem, out, {})
    /\ wanted' = (wanted \/ (/\ work[w].req = "start" /\ w # "run" /\ ~CancelPending(mem)
                             /\ work["run"].pc = "idle" /\ mem.stage = "pending"))
    /\ UNCHANGED <<store, mem, behind, aborted, unconfirmed, observed, recovered, live,
                   host, process, bounds>>

RefuseRevision(w) ==
    /\ Turns(w) /\ work[w].pc = "lane" /\ Admission(w) = "throw"
    /\ mem' = Remembered(work[w].req, mem)
    /\ Thrown(w, mem', work[w].fresh, {})
    /\ UNCHANGED <<store, behind, aborted, unconfirmed, observed, recovered, live,
                   wanted, host, process, bounds>>

\* The store refuses a revision that is not the next one; memory catches up.
Conflict(w) ==
    LET found == IF behind THEN store.task ELSE mem
        task == Remembered(work[w].req, found)
        lost == IF behind THEN LostBy(found) ELSE {}
    IN
    /\ work[w].pc = "conflict"
    /\ Take(task)
    /\ Thrown(w, task, work[w].fresh \ lost, lost)
    /\ UNCHANGED <<store, aborted, unconfirmed, observed, recovered, wanted, host,
                   process, bounds>>

\* What a request writes; setCancellationStatus starts from the stored record
\* and leaves a terminal one as it is.
Written(w) ==
    IF work[w].req # "cancel" THEN work[w].next
    ELSE IF store.task.stage \in Terminal THEN store.task
    ELSE [store.task EXCEPT !.stage = "cancelling", !.cancelled = TRUE]

Commit(w) ==
    store' = [task |-> Written(w), delegation |-> DelegationOf(Written(w).stage, store.delegation)]

Write(w) ==
    /\ work[w].pc = "write"
    /\ Commit(w)
    /\ behind' = TRUE
    /\ Move(w, [work[w] EXCEPT !.pc = "accept", !.next = Written(w), !.prev = store], {})
    /\ UNCHANGED <<mem, lane, volatile, wanted, host, process, bounds>>

\* A write that fails, or one that is done while its answer is lost.
FailWrite(w) ==
    LET task == Remembered(work[w].req, mem) IN
    /\ work[w].pc = "write" /\ Faulty
    /\ \/ UNCHANGED <<store, behind>>
       \/ Commit(w) /\ behind' = TRUE
    /\ mem' = task
    /\ Thrown(w, task, work[w].fresh, {})
    /\ UNCHANGED <<aborted, unconfirmed, observed, recovered, live, wanted, host, process,
                   crashes, prompts>>

\* A claim that became stale while the record was written has it restored.
NeverStale(w) == FALSE
Stale(w) == work[w].req \in Claimed /\ "observation" \notin work[w].fresh

\* acceptTaskRecord
Accept(w) ==
    LET r == work[w]
        lost == IF behind THEN LostBy(r.next) ELSE {}
    IN
    /\ r.pc = "accept" /\ r.req \notin {"start", "cancel"}
    /\ Take(r.next)
    /\ IF ~Stale(w) THEN lane' = Tail(lane) /\ Returned(w, r.next, "done", lost)
       ELSE IF CancelPending(r.next) /\ ~CancelPending(r.prev.task)
       THEN lane' = Tail(lane) /\ Returned(w, r.next, "null", lost)
       ELSE /\ Move(w, [r EXCEPT !.pc = "restore"], lost)
            /\ UNCHANGED <<lane, slot, lock, fence>>
    /\ UNCHANGED <<store, aborted, unconfirmed, observed, recovered, wanted, host,
                   process, bounds>>

\* restoreAfterStaleInspection
Restore(w) ==
    LET r == work[w]
        task == r.prev.task
        lost == LostBy(task)
    IN
    /\ r.pc = "restore"
    /\ store' = [task |-> task, delegation |-> IF r.next.stage = "cancelled" THEN r.prev.delegation
                                               ELSE DelegationOf(task.stage, store.delegation)]
    /\ Take(task)
    /\ lane' = Tail(lane)
    /\ Returned(w, task, "null", lost)
    /\ UNCHANGED <<aborted, unconfirmed, observed, recovered, wanted, host, process, bounds>>

FailRestore(w) ==
    /\ work[w].pc = "restore" /\ Faulty
    /\ Thrown(w, mem, work[w].fresh \ {"revision"}, {})
    /\ UNCHANGED <<store, mem, behind, aborted, unconfirmed, observed, recovered, live,
                   wanted, host, process, crashes, prompts>>

-----------------------------------------------------------------------------
(* complete: between settling and completed the delegation reports the      *)
(* result, in an update of its own                                          *)

\* The catch of #complete: if the Task is still the one it staged it becomes
\* unproven, and in any case it keeps its slot and its lock.
Unsettle(w, task, lost) ==
    LET r == [work[w] EXCEPT !.fresh = @ \ lost, !.seen = "none"] IN
    /\ IF "revision" \in r.fresh /\ task.stage = "settling"
       THEN Move(w, [r EXCEPT !.pc = "lane", !.req = "unsettled"], lost) /\ lane' = Append(lane, w)
       ELSE Move(w, After(r), lost) /\ UNCHANGED lane
    /\ Retain(task)

Report(w) ==
    LET r == work[w] IN
    /\ r.pc = "report"
    /\ store' = [store EXCEPT !.delegation = "completed"]
    /\ IF {"attempt", "observation"} \subseteq r.fresh THEN Ask(w, r, "complete")
       ELSE Move(w, [r EXCEPT !.pc = "revert", !.seen = "none"], {}) /\ UNCHANGED lane
    /\ UNCHANGED <<mem, behind, volatile, wanted, host, process, bounds>>

\* The worker does not know of a report that was written, so nothing is put back.
FailReport(w) ==
    /\ work[w].pc = "report" /\ Faulty
    /\ \/ UNCHANGED store
       \/ store' = [store EXCEPT !.delegation = "completed"]
    /\ Move(w, [work[w] EXCEPT !.pc = "revert", !.seen = "unreported"], {})
    /\ UNCHANGED <<mem, behind, lane, volatile, wanted, host, process, crashes, prompts>>

\* revertDelegation, which swallows its failures and reads the record again.
RevertedBlindly(task) ==
    IF store.delegation # "completed" THEN store.delegation
    ELSE IF task.cancelled THEN "unknown" ELSE "running"

Reverted(task) ==
    IF store.delegation # "completed" \/ task.stage = "completed" THEN store.delegation
    ELSE IF task.stage \in {"cancelled", "failed"} THEN task.stage
    ELSE IF task.cancelled THEN "unknown" ELSE "running"

Revert(w) ==
    LET r == work[w]
        task == IF behind THEN store.task ELSE mem
        lost == IF behind THEN LostBy(task) ELSE {}
    IN
    /\ r.pc = "revert"
    /\ Take(task)
    /\ \/ /\ store' = [store EXCEPT !.delegation = IF r.seen = "unreported" THEN @ ELSE Reverted(task)]
          /\ UNCHANGED faults
       \/ r.seen # "unreported" /\ UNCHANGED store /\ Faulty
    /\ IF r.seen \in {"failed", "unreported"} THEN Unsettle(w, task, lost)
       ELSE Move(w, After(r), lost) /\ UNCHANGED <<lane, slot, lock, fence>>
    /\ UNCHANGED <<aborted, unconfirmed, observed, recovered, wanted, host, process,
                   crashes, prompts>>

-----------------------------------------------------------------------------
(* run and dispatchTurn *)

Dispatch(w, r) == Ask(w, [r EXCEPT !.token = TRUE, !.fresh = Claim], "start")

\* #run, once the Task holds its lock.
Proceed(w) ==
    \/ /\ mem.stage \in Terminal
       /\ Move(w, Idle, {}) /\ UNCHANGED lane
       /\ slot' = "none" /\ lock' = FALSE /\ fence' = FALSE
    \/ /\ CancelPending(mem)
       /\ Move(w, [Idle EXCEPT !.pc = "abort"], {}) /\ UNCHANGED lane
       /\ lock' = TRUE /\ UNCHANGED <<slot, fence>>
    \/ /\ mem.stage \in {"queued", "pending"} /\ ~CancelPending(mem)
       /\ Dispatch(w, [Idle EXCEPT !.then = IF mem.stage = "queued" THEN "giveUp" ELSE "end"])
       /\ lock' = TRUE /\ UNCHANGED <<slot, fence>>
    \/ /\ mem.stage \notin {"queued", "pending"} \cup Terminal /\ ~CancelPending(mem)
       /\ Move(w, Idle, {}) /\ UNCHANGED lane
       /\ lock' = TRUE /\ UNCHANGED <<slot, fence>>

\* The scheduler admits the Task and dispatches it.
Admit ==
    /\ process # "down" /\ slot = "queued"
    /\ slot' = "active" /\ wanted' = TRUE
    /\ UNCHANGED <<store, mem, behind, work, lane, lock, fence, aborted, unconfirmed, observed,
                   recovered, live, host, events, process, bounds>>

BeginRun ==
    LET w == "run" IN
    /\ process = "up" /\ wanted /\ work[w].pc = "idle"
    /\ wanted' = FALSE
    /\ IF mem.stage \in Terminal THEN UNCHANGED <<work, events, lane, slot, lock, fence>>
       ELSE IF lock THEN Proceed(w)
       ELSE Move(w, [Idle EXCEPT !.pc = "lock"], {}) /\ UNCHANGED <<lane, slot, lock, fence>>
    /\ UNCHANGED <<store, mem, behind, aborted, unconfirmed, observed, recovered, live, host,
                   process, bounds>>

\* The scope lock is granted when no other Task holds a conflicting one.
Locked(w) ==
    /\ work[w].pc = "lock" /\ ~aborted
    /\ Proceed(w)
    /\ UNCHANGED <<store, mem, behind, aborted, unconfirmed, observed, recovered, live, wanted,
                   host, process, bounds>>

LockAborted(w) ==
    /\ work[w].pc = "lock" /\ aborted
    /\ Move(w, [Idle EXCEPT !.pc = "failing", !.then = "giveUp"], {})
    /\ UNCHANGED <<store, mem, behind, lane, volatile, wanted, host, process, bounds>>

\* resumeResolvedRetry, after the authority has been checked again.
DispatchRetry(w) ==
    LET r == work[w] IN
    /\ r.pc = "dispatch"
    /\ IF "revision" \in r.fresh /\ mem.stage = "pending" /\ ~CancelPending(mem)
       THEN Dispatch(w, r) ELSE Move(w, Idle, {}) /\ UNCHANGED lane
    /\ UNCHANGED <<store, mem, behind, volatile, wanted, host, process, bounds>>

\* The last look at the cancellation.
MayAlwaysStart(r) == TRUE
MayStart(r) == ~CancelPending(r)

\* The dispatch has its claim, now the request goes to the host.  A reference that
\* #dispatchTurn writes between the last check and the request, for an agent that
\* was renamed, is left out.
AcceptStart(w) ==
    LET r == work[w]
        lost == LostBy(r.next)
    IN
    /\ r.pc = "accept" /\ r.req = "start"
    /\ mem' = r.next /\ behind' = FALSE
    /\ lane' = Tail(lane)
    /\ IF ~MayStart(r.next)
       THEN /\ Move(w, After(r), lost)
            /\ live' = "none"
            /\ UNCHANGED <<unconfirmed, observed, recovered, host>>
       ELSE /\ Move(w, [r EXCEPT !.pc = "sent", !.fresh = {}, !.prev = NoRecord], lost \cup {"observation"})
            /\ unconfirmed' = TRUE /\ observed' = FALSE /\ recovered' = FALSE
            /\ live' = "awaiting"
            /\ host' = [host EXCEPT ![r.next.turn] = "sent"]
    /\ UNCHANGED <<store, slot, lock, fence, aborted, wanted, process, bounds>>

Answered(w) ==
    /\ work[w].pc = "sent" /\ host[work[w].next.turn] # "sent"
    /\ unconfirmed' = FALSE
    /\ Move(w, [work[w] EXCEPT !.pc = "started", !.next = NoRecord], {})
    /\ UNCHANGED <<store, mem, behind, lane, slot, lock, fence, aborted, observed, recovered, live,
                   wanted, host, process, bounds>>

\* The request fails, whether the host has taken it or not.
FailStart(w) ==
    LET t == work[w].next.turn IN
    /\ work[w].pc = "sent" /\ Faulty
    /\ host' = [host EXCEPT ![t] = IF @ = "sent" THEN "refused" ELSE @]
    /\ Move(w, [work[w] EXCEPT !.pc = "failing", !.next = NoRecord], {})
    /\ UNCHANGED <<store, mem, behind, lane, volatile, wanted, process, crashes, prompts>>

\* The host has taken the turn; what happened to the Task in the meantime?
Started(w) ==
    LET r == work[w]
        task == IF behind THEN store.task ELSE mem
        lost == IF behind THEN LostBy(task) ELSE {}
    IN
    /\ r.pc = "started"
    /\ Take(task)
    /\ IF task.stage \in Terminal
       THEN Move(w, After(r), lost) /\ ReleaseTerminal(task) /\ UNCHANGED lane
       ELSE /\ IF CancelPending(task)
               THEN Move(w, [r EXCEPT !.pc = "abort"], lost) /\ UNCHANGED lane
               ELSE IF task.stage # "starting" THEN Move(w, After(r), lost) /\ UNCHANGED lane
               ELSE Move(w, [r EXCEPT !.pc = "lane", !.req = "run"], lost) /\ lane' = Append(lane, w)
            /\ UNCHANGED <<slot, lock, fence>>
    /\ UNCHANGED <<store, aborted, unconfirmed, observed, recovered, wanted, host, process, bounds>>

FailStarted(w) ==
    /\ work[w].pc = "started" /\ Faulty
    /\ Move(w, [work[w] EXCEPT !.pc = "failing"], {})
    /\ UNCHANGED <<store, mem, behind, lane, volatile, wanted, host, process, crashes, prompts>>

\* endDispatch, and an inspection when a cancellation came in meanwhile.
Finally(w) ==
    /\ work[w].pc = "finally"
    /\ IF CancelPending(mem) THEN Move(w, Inspecting(Idle), {"observation"}) ELSE Move(w, Idle, {})
    /\ UNCHANGED <<store, mem, behind, lane, volatile, wanted, host, process, bounds>>

\* The catch of #run (then = "giveUp") or of resumeResolvedRetry.
Failing(w) ==
    LET then == work[w].then IN
    /\ work[w].pc = "failing"
    /\ IF CancelPending(mem)
       THEN Move(w, Inspecting([Idle EXCEPT !.then = then]), {"observation"}) /\ UNCHANGED lane
       ELSE Ask(w, Idle, IF then = "giveUp" THEN "unconfirmed" ELSE "retryUnconfirmed")
    /\ UNCHANGED <<store, mem, behind, volatile, wanted, host, process, bounds>>

GiveUp(w) ==
    /\ work[w].pc = "giveUp"
    /\ IF CancelPending(mem) /\ mem.stage \notin Unknown THEN Ask(w, Idle, "cancelUnproven")
       ELSE Move(w, Idle, {}) /\ UNCHANGED lane
    /\ UNCHANGED <<store, mem, behind, volatile, wanted, host, process, bounds>>

InspectAgain(w) ==
    /\ work[w].pc = "again"
    /\ Move(w, Inspecting(Idle), {"observation"})
    /\ UNCHANGED <<store, mem, behind, lane, volatile, wanted, host, process, bounds>>

-----------------------------------------------------------------------------
(* cancelTask *)

\* A queued Task leaves the queue but counts as active until it is cancelled.
BeginCancel ==
    LET w == "cancel" IN
    /\ process = "up" /\ w \in Worker /\ work[w].pc = "idle"
    /\ mem.stage \notin Terminal
    /\ Move(w, [Idle EXCEPT !.pc = "mark",
                !.seen = IF mem.stage = "queued" /\ slot = "queued" THEN "removed" ELSE "none"], {})
    /\ slot' = "active"
    /\ fence' = TRUE
    /\ UNCHANGED <<store, mem, behind, lane, lock, aborted, unconfirmed, observed, recovered, live,
                   wanted, host, process, bounds>>

\* markTaskRefCancellation writes to the owner's Session; when it throws the
\* fence stays.
Mark(w) ==
    /\ work[w].pc = "mark"
    /\ \/ Ask(w, work[w], "cancel") /\ UNCHANGED faults
       \/ Throw(w, {}) /\ UNCHANGED lane /\ Faulty
    /\ UNCHANGED <<store, mem, behind, volatile, wanted, host, process, crashes, prompts>>

AcceptCancel(w) ==
    LET r == work[w]
        task == r.next
        lost == IF behind THEN LostBy(task) ELSE {}
    IN
    /\ r.pc = "accept" /\ r.req = "cancel"
    /\ Take(task)
    /\ lane' = Tail(lane)
    /\ IF task.stage \in Terminal
       THEN Move(w, Idle, lost) /\ ReleaseTerminal(task) /\ UNCHANGED aborted
       ELSE /\ Move(w, [Idle EXCEPT !.pc = "abort", !.seen = r.seen], lost)
            /\ aborted' = TRUE
            /\ UNCHANGED <<slot, lock, fence>>
    /\ UNCHANGED <<store, unconfirmed, observed, recovered, wanted, host, process, bounds>>

\* markAttemptCancellations fails: the Task is marked, but nothing is aborted.
FailAttemptMark(w) ==
    LET task == work[w].next IN
    /\ work[w].pc = "accept" /\ work[w].req = "cancel" /\ task.stage \notin Terminal
    /\ Faulty
    /\ Take(task)
    /\ lane' = Tail(lane)
    /\ Throw(w, IF behind THEN LostBy(task) ELSE {})
    /\ UNCHANGED <<store, slot, lock, fence, aborted, unconfirmed, observed, recovered, wanted,
                   host, process, crashes, prompts>>

\* Who inspects once the host has acknowledged the abort; cancelTask leaves it
\* to the idle event unless the Task never left the queue.
InspectsAfterAbort(w) == w # "cancel" \/ work[w].seen = "removed"

\* The host stops what runs; a turn it has taken but not begun goes on.
Abort(w) ==
    /\ work[w].pc = "abort"
    /\ host' = [t \in Turn |-> IF host[t] \in Running THEN "stopped" ELSE host[t]]
    /\ Goes(w, IF InspectsAfterAbort(w) THEN Inspecting(work[w]) ELSE Idle,
            IF InspectsAfterAbort(w) THEN {"observation"} ELSE {})
    /\ events' = IF SessionRunning THEN Append(events, "idle") ELSE events
    /\ UNCHANGED <<store, mem, behind, lane, volatile, wanted, process, bounds>>

\* #run ignores a failure; others record that the cancellation is unproven,
\* recovery inspects after that.
FailAbort(w) ==
    LET r == work[w] IN
    /\ r.pc = "abort" /\ Faulty
    /\ IF w = "run" /\ ~r.token /\ r.then = "end"
       THEN Move(w, Inspecting(r), {"observation"}) /\ UNCHANGED lane
       ELSE Ask(w, r, "cancelUnproven")
    /\ UNCHANGED <<store, mem, behind, volatile, wanted, host, process, crashes, prompts>>

-----------------------------------------------------------------------------
(* resolve: the owner of the Task decides what becomes of it *)

BeginResolve ==
    LET w == "resolve" IN
    /\ process = "up" /\ w \in Worker /\ work[w].pc = "idle"
    /\ mem.stage \in Waiting
    /\ \/ Ask(w, [Idle EXCEPT !.fresh = Claim], "stop")
       \/ ~CancelPending(mem) /\ mem.turn < MaxTurns /\ Ask(w, [Idle EXCEPT !.fresh = Claim], "continue")
    /\ UNCHANGED <<store, mem, behind, volatile, wanted, host, process, bounds>>

-----------------------------------------------------------------------------
(* Crash, loading and recovery.  The host runs in the same process. *)

Crash ==
    /\ process # "down" /\ crashes < MaxCrashes
    /\ crashes' = crashes + 1
    /\ process' = "down"
    /\ mem' = store.task /\ behind' = FALSE
    /\ work' = [w \in Worker |-> Idle]
    /\ lane' = <<>> /\ events' = <<>>
    /\ slot' = "none" /\ live' = "none"
    /\ lock' = FALSE /\ fence' = FALSE /\ aborted' = FALSE /\ wanted' = FALSE
    /\ unconfirmed' = FALSE /\ observed' = FALSE /\ recovered' = FALSE
    /\ host' = [t \in Turn |-> IF host[t] \in InFlight \cup Running THEN "stopped" ELSE host[t]]
    /\ UNCHANGED <<store, faults, prompts>>

\* loadTask; restoreTaskLock for a Task that has been dispatched; an inspection
\* of one that may have run when the process died.
Restart ==
    LET w == "run"
        r == [Idle EXCEPT !.then = "recovered"]
    IN
    /\ process = "down"
    /\ process' = IF mem.stage \in Terminal THEN "up" ELSE "recovering"
    /\ recovered' = TRUE
    /\ unconfirmed' = (mem.stage = "starting")
    /\ lock' = (mem.stage \notin {"queued", "pending"} \cup Terminal)
    /\ IF mem.stage \in Terminal THEN UNCHANGED <<work, events>>
       ELSE Move(w, IF mem.stage \in {"starting", "running", "settling", "cancelling"}
                    THEN Inspecting(r) ELSE After(r), {})
    /\ UNCHANGED <<store, mem, behind, lane, slot, fence, aborted, observed, live, wanted, host,
                   bounds>>

\* The rest of restoreOwnerTasks: who takes a slot, who queues for one, who is
\* aborted once more.
Recovered(w) ==
    /\ work[w].pc = "recovered"
    /\ process' = "up"
    /\ \/ /\ mem.stage \in Terminal
          /\ Move(w, Idle, {}) /\ UNCHANGED <<slot, wanted>>
       \/ /\ CancelPending(mem)
          /\ slot' = "active"
          /\ Move(w, IF mem.stage \in Waiting THEN Idle
                     ELSE [Idle EXCEPT !.pc = "abort", !.then = "again"], {})
          /\ UNCHANGED wanted
       \/ /\ mem.stage \in Unknown /\ ~CancelPending(mem)
          /\ slot' = IF OccupiesSlot(mem) THEN "active" ELSE slot
          /\ Move(w, Idle, {}) /\ UNCHANGED wanted
       \/ /\ mem.stage \notin Terminal \cup Unknown /\ ~CancelPending(mem)
          /\ slot' = IF mem.stage = "queued" THEN "queued" ELSE "active"
          /\ wanted' = (mem.stage = "pending")
          /\ Move(w, Idle, {})
    /\ UNCHANGED <<store, mem, behind, lane, lock, fence, aborted, unconfirmed, observed, recovered,
                   live, host, bounds>>

-----------------------------------------------------------------------------
(* The host: it takes a turn some time after the request, begins it, and     *)
(* ends it with a result, an error or neither.  Someone else may prompt the  *)
(* Session while the Task is not over.                                       *)

HostStep(t, from, to) ==
    /\ process # "down" /\ host[t] = from
    /\ host' = [host EXCEPT ![t] = to]
    /\ UNCHANGED <<store, mem, behind, work, lane, volatile, wanted, process, faults, crashes>>

HostAccept(t) == HostStep(t, "sent", "prompted") /\ UNCHANGED <<events, prompts>>

HostBegin(t) ==
    /\ ~SessionRunning
    /\ HostStep(t, "prompted", "busy")
    /\ events' = Append(events, "busy") /\ UNCHANGED prompts

HostEnd(t) ==
    /\ \/ \E end \in {"result", "error", "stopped"} : HostStep(t, "busy", end)
       \/ HostStep(t, "again", "result")
    /\ events' = Append(events, "idle") /\ UNCHANGED prompts

HostPrompted(t) ==
    /\ prompts < MaxPrompts /\ prompts' = prompts + 1
    /\ ~SessionRunning /\ mem.stage \notin Terminal
    /\ HostStep(t, "result", "again")
    /\ events' = Append(events, "busy")

-----------------------------------------------------------------------------
Init ==
    /\ store = [task |-> [stage |-> "queued", turn |-> 1, attempt |-> 0,
                          handled |-> FALSE, cancelled |-> FALSE],
                delegation |-> "running"]
    /\ mem = store.task /\ behind = FALSE
    /\ work = [w \in Worker |-> Idle]
    /\ lane = <<>> /\ events = <<>>
    /\ slot = "queued" /\ live = "none"
    /\ lock = FALSE /\ fence = FALSE /\ aborted = FALSE /\ wanted = FALSE
    /\ unconfirmed = FALSE /\ observed = FALSE /\ recovered = FALSE
    /\ host = [t \in Turn |-> "none"]
    /\ process = "up"
    /\ faults = 0 /\ crashes = 0 /\ prompts = 0

\* The steps of a worker that the runtime, the store or the host will take.
Step(w) ==
    \/ Waited(w) \/ Reload(w) \/ Observe(w)
    \/ InspectRecord(w) \/ ReadTurn(w) \/ RereadTurn(w) \/ Judge(w)
    \/ BeginTransition(w) \/ Refuse(w) \/ RefuseRevision(w) \/ Conflict(w)
    \/ Write(w) \/ Accept(w) \/ Restore(w) \/ Report(w) \/ Revert(w)
    \/ Locked(w) \/ LockAborted(w) \/ DispatchRetry(w)
    \/ AcceptStart(w) \/ Answered(w) \/ Started(w)
    \/ Finally(w) \/ Failing(w) \/ GiveUp(w) \/ InspectAgain(w)
    \/ Mark(w) \/ AcceptCancel(w) \/ Abort(w) \/ Recovered(w)

Fail(w) ==
    \/ FailInspection(w) \/ FailWrite(w) \/ FailRestore(w) \/ FailReport(w)
    \/ FailStart(w) \/ FailStarted(w) \/ FailAttemptMark(w) \/ FailAbort(w)

HostTurns == \E t \in Turn : HostAccept(t) \/ HostBegin(t) \/ HostEnd(t)

Next ==
    \/ \E w \in Worker : Step(w) \/ Fail(w)
    \/ BeginEvent \/ BeginWatch \/ BeginRun \/ BeginCancel \/ BeginResolve
    \/ Admit \/ HostTurns \/ \E t \in Turn : HostPrompted(t)
    \/ Crash \/ Restart

Spec == Init /\ [][Next]_vars

\* The runtime goes on with what it has begun, the store and the host answer,
\* the host ends the turns it begins; the owner watches as long as the Task is
\* not over.
Progress ==
    /\ \A w \in Worker : WF_vars(Step(w))
    /\ \A t \in Turn : WF_vars(HostAccept(t) \/ HostBegin(t) \/ HostEnd(t))
    /\ WF_vars(BeginWatch) /\ WF_vars(BeginRun)
    /\ WF_vars(Admit) /\ WF_vars(Restart)

Fairness == Progress /\ WF_vars(BeginEvent)

LiveSpec == Spec /\ Fairness

-----------------------------------------------------------------------------
(* Properties *)

\* While the host has a turn of the Task in hand, the Task occupies a slot of
\* the scheduler and holds its scope lock, whatever became of its record.
Covered == (\E t \in Turn : host[t] \in InFlight) => slot = "active" /\ lock

\* The ledger never says that a Task is over, or waits for a decision on its
\* retry, while the host may still work on one of its turns.
ClosedTurnIsOver ==
    store.task.stage \in Terminal \cup Waiting => \A t \in Turn : host[t] \notin InFlight

\* From the settling of a completion to the end of the Task its admission and
\* its lock are kept (BGT-009 in SPEC.md).
SettlingCovered ==
    process = "up" /\ store.task.stage = "settling" => slot = "active" /\ lock

\* No transition is under way between its write and its end.
Quiet == \A w \in Worker : work[w].prev = NoRecord

\* A Task that could not be recorded as unproven is so in memory, whatever the
\* ledger says of it by then.
Misremembered == ~behind /\ mem # store.task

\* A Task that is over stays as it is, but for the transition that ended it,
\* which may take the end back before it returns, and unless memory has it as
\* unproven.
FinishedForGood ==
    [][store.task.stage \in Terminal /\ Quiet /\ ~Misremembered => UNCHANGED store.task]_vars

\* The inspection of w was overtaken by a newer observation while it wrote the
\* end of the Task.
Overtaken(w) ==
    /\ work[w].req \in {"complete", "cancelled"} /\ work[w].pc \in {"accept", "restore"}
    /\ "observation" \notin work[w].fresh

\* Such an end does not stand, whatever the record was before (BGT-009).
OvertakenEndsNothing ==
    [][(\E w \in Worker : Overtaken(w)) /\ Quiet' /\ process' = "up"
         => store'.task.stage \notin Terminal]_vars

SentNow(t) == host[t] # "sent" /\ host'[t] = "sent"

\* A turn is sent to the host once: neither a failed request nor a restart nor a
\* decision to continue sends it again.
SentOnce == [][\A t \in Turn : SentNow(t) => host[t] = "none"]_vars

\* Once the Task is to be cancelled no turn is sent, after a restart too when the
\* ledger holds the cancellation.
NoStartAfterCancel == [][\A t \in Turn : SentNow(t) => ~store.task.cancelled /\ ~fence]_vars

\* No transition under way may take a cancellation back.
Durable == \A w \in Worker : work[w].prev = NoRecord \/ work[w].prev.task.cancelled

\* A cancellation the ledger holds is never lost: the Task can be cancelled or
\* become unknown, and neither a late result nor a restart leads elsewhere.
CancelSticks ==
    [][store.task.cancelled /\ Durable
         => store'.task.cancelled
            /\ store'.task.stage \in {"cancelling", "cancelled"} \cup Unknown]_vars

Reporting(w) == work[w].pc \in {"report", "revert"} \/ work[w].req = "complete"

\* The delegation tells the outcome of a Task that is over, even when a
\* completion was reported to it in vain.
DelegationAgrees ==
    store.task.stage \in Terminal /\ (\A w \in Worker : ~Reporting(w))
        => store.delegation = store.task.stage

\* A Task that is over for good gives back its slot and its lock.
SlotComesBack == <>[](mem.stage \in Terminal) => <>[](slot = "none" /\ ~lock)

Undisturbed == <>[](work["cancel"].pc = "idle")

\* A cancellation ends once nobody asks for it again, unless the turn it meets
\* has not been seen active.
CancelEnds ==
    Undisturbed => (store.task.stage = "cancelling" /\ live # "awaiting"
                      ~> store.task.stage \in {"cancelled"} \cup Unknown)
=============================================================================
