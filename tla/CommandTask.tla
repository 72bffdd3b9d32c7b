---------------------------- MODULE CommandTask ----------------------------
(***************************************************************************)
(* CommandTaskRuntime (src/src/runtime/command-task-runtime.mjs) with its  *)
(* SQLite ledger (command-ledger-store.mjs): the commands of one owner     *)
(* Session, from the call of the tool to the last line of the ledger.      *)
(*                                                                         *)
(* Everything the runtime writes for an owner goes through one serial      *)
(* queue (lane); a job of the queue is cut at its awaits.  Cancellation,   *)
(* disposal, the completion of a process and the setImmediate after an     *)
(* admission act from outside of the queue.  A write is one step: it       *)
(* decides, commits or not, and is answered; it may also be committed and  *)
(* not answered.  The process may die at any time; what it started lives   *)
(* on.  Another process with the same ledger may recover the owner.        *)
(*                                                                         *)
(* Left out: the readers (watchSelection, waitInitial, inspect), which     *)
(* only wait for what is modelled, and a port that breaks its contract.    *)
(***************************************************************************)
EXTENDS ExecutionPort, Naturals, FiniteSets, Sequences

CONSTANTS
    Commands,   \* number of tool calls; a command is the number of its call
    Slots,      \* maxConcurrentCommands
    Calls,      \* bound on calls of the Stoppers: the combinations, how often each
    MaxStarts,  \* bound on calls of start
    MaxTrouble  \* bound on failed reads and writes, deaths and recoveries elsewhere

Command == 1 .. Commands

\* o4e_task cancel, cancelKnown, cancelOwned, dispose, resume.
Stopper == {"tool", "known", "owner", "dispose", "resume"}

ASSUME CommandTaskAssumption ==
    /\ Execution = Command
    /\ Commands \in Nat /\ Slots \in Nat \ {0}
    /\ Calls \subseteq [Stopper -> Nat]
    /\ MaxStarts \in Nat /\ MaxTrouble \in Nat

VARIABLES
    ledger,     \* the rows of the ledger: the status of each command
    mem,        \* entry.record, none without an entry
    ahead,      \* revisions the ledger is ahead of entry.record
    pending,    \* entry.pendingWrite
    slot,       \* the command in the scheduler
    flag,       \* what is set of an entry: launch, dispatching, aborted, handle,
                \* attached, notified, disposePending, disposeFailed
    lane,       \* #state.queues: the jobs of the owner (start, dispatch, settle,
                \* recover, cancel), each with the point it has reached
    woken,      \* admitted by start, waiting for setImmediate
    closed, quarantine, disposed,   \* #closed, #disposeFailed, #disposed
    stopper,    \* the calls that cancel, dispose or resume
    started,    \* history: commands handed to the execution port
    used        \* [starts, trouble, calls]

heap == <<mem, ahead, pending, slot, flag, lane, quarantine>>
vars == <<portVars, ledger, heap, woken, closed, disposed, stopper, started, used>>

\* status, stopped and phase of a record.  "cancelled" and "interrupted"
\* were never submitted, "stopped" has the end of its execution proved, "missing"
\* is unknown/handle-missing.
Safe == {"stopped", "cancelled", "interrupted"}
Claimed == {"running", "unknown", "missing"}
None == "none"

\* A dispatch and a cancel job serve the commands in todo one after the other,
\* a recovery looks at them.
Job(kind, c, by, force, todo) ==
    [kind |-> kind, cmd |-> c, pc |-> "first", force |-> force, by |-> by, todo |-> todo]
NewJob(kind, c, by, force) == Job(kind, c, by, force, {})

Idle == [pc |-> "idle", late |-> FALSE, first |-> [c \in Command |-> None],
         stage |-> [c \in Command |-> None]]

Loaded == {c \in Command : mem[c] # None}
Cancelling == stopper["owner"].pc # "idle"

\* A process that knows nothing yet of the rows l.
Blank(l) ==
    [ledger |-> l, mem |-> [c \in Command |-> None], pending |-> [c \in Command |-> None],
     ahead |-> [c \in Command |-> 0], slot |-> [c \in Command |-> None],
     flag |-> [c \in Command |-> {}], lane |-> <<>>, quarantine |-> FALSE]

Init ==
    /\ PortInit
    /\ LET s == Blank([c \in Command |-> None]) IN
       /\ ledger = s.ledger /\ mem = s.mem /\ ahead = s.ahead /\ pending = s.pending
       /\ slot = s.slot /\ flag = s.flag /\ lane = s.lane /\ quarantine = s.quarantine
    /\ woken = {} /\ closed = FALSE /\ disposed = FALSE
    /\ stopper = [d \in Stopper |-> Idle]
    /\ started = {}
    /\ used = [starts |-> 0, trouble |-> 0,
               calls |-> [d \in Stopper |-> 0]]
-----------------------------------------------------------------------------
(* The state a job works on, and what release and #write make of it *)

Now == [ledger |-> ledger, mem |-> mem, ahead |-> ahead, pending |-> pending,
        slot |-> slot, flag |-> flag, lane |-> lane, quarantine |-> quarantine]

Become(s) ==
    /\ ledger' = s.ledger /\ mem' = s.mem /\ ahead' = s.ahead /\ pending' = s.pending
    /\ slot' = s.slot /\ flag' = s.flag /\ lane' = s.lane /\ quarantine' = s.quarantine

In(s, where) == {c \in Command : s.slot[c] = where}
First(S) == CHOOSE c \in S : \A d \in S : c <= d

\* The test of #admit.
Admissible(s, c) ==
    /\ ~s.quarantine
    /\ "launch" \in s.flag[c] /\ s.flag[c] \cap {"disposeFailed", "dispatching", "aborted"} = {}
    /\ s.mem[c] \notin Claimed

\* One job after the other in the queue for the commands in S.
Batch(s, kind, by, S) ==
    IF S = {} THEN s ELSE [s EXCEPT !.lane = Append(@, Job(kind, 0, by, FALSE, S))]

\* #admit: a dispatch is put in the queue for each.
Admit(s, S) ==
    LET go == {c \in S : Admissible(s, c)} IN
    Batch([s EXCEPT !.flag = [c \in Command |->
                        IF c \in go THEN @[c] \cup {"dispatching"} ELSE @[c]]],
          "dispatch", None, go)

\* Slip: the next in line gets the slot but is not told.
ReleaseSilent(s, c) ==
    IF s.mem[c] \notin Safe THEN s
    ELSE LET t == [s EXCEPT !.flag[c] = @ \ {"launch"}, !.slot[c] = None] IN
         IF s.slot[c] # None /\ In(t, "queued") # {} /\ Cardinality(In(t, "active")) < Slots
         THEN [t EXCEPT !.slot[First(In(t, "queued"))] = "active"]
         ELSE t

\* #release: the slot goes to the next in line, which is dispatched at once.
Release(s, c) ==
    IF s.mem[c] \notin Safe THEN s
    ELSE LET t == [s EXCEPT !.flag[c] = @ \ {"launch"}, !.slot[c] = None] IN
         IF s.slot[c] # None /\ In(t, "queued") # {} /\ Cardinality(In(t, "active")) < Slots
         THEN LET n == First(In(t, "queued")) IN Admit([t EXCEPT !.slot[n] = "active"], {n})
         ELSE t

\* The test of #index: the ledger holds the record the runtime knows, or already
\* the one it writes.
Indexes(s, c, next) == s.ahead[c] = 0 \/ (s.ahead[c] = 1 /\ s.ledger[c] = next)

Faulty == used.trouble < MaxTrouble

\* #write: the states it may leave and whether it resolves.
Write(s, c, next) ==
    LET asked_ == [s EXCEPT !.pending[c] = next] IN
    IF ~Indexes(s, c, next) THEN {[to |-> asked_, ok |-> FALSE, fault |-> FALSE]}
    ELSE {[to |-> Release([s EXCEPT !.ledger[c] = next, !.mem[c] = next, !.ahead[c] = 0,
                                    !.pending[c] = None, !.flag[c] = @ \ {"disposeFailed"}], c),
           ok |-> TRUE, fault |-> FALSE]}
         \cup (IF Faulty
               THEN {[to |-> asked_, ok |-> FALSE, fault |-> TRUE],
                     [to |-> [asked_ EXCEPT !.ledger[c] = next, !.ahead[c] = 1],
                      ok |-> FALSE, fault |-> TRUE]}
               ELSE {})

Kept(s) == {[to |-> s, ok |-> TRUE, fault |-> FALSE]}
Broken(s) == IF Faulty THEN {[to |-> s, ok |-> FALSE, fault |-> TRUE]} ELSE {}
Blame(r) == used' = IF r.fault THEN [used EXCEPT !.trouble = @ + 1] ELSE used
-----------------------------------------------------------------------------
(* Jobs *)

Head1 == lane[1]
AtHead(kind, pc) == lane # <<>> /\ Head1.kind = kind /\ Head1.pc = pc
Popped == [Now EXCEPT !.lane = Tail(@)]
Front(s, job) == [s EXCEPT !.lane[1] = job]
Goto(s, pc) == Front(s, [Head1 EXCEPT !.pc = pc])

\* A dispatch or a cancel job has served one command; those in S wait.
Served(S) ==
    IF S = {} THEN Popped ELSE Front(Now, [Head1 EXCEPT !.pc = "first", !.todo = S])

Aborted(s, S) ==
    [s EXCEPT !.flag = [c \in Command |-> IF c \in S THEN (@[c] \ {"launch"}) \cup {"aborted"} ELSE @[c]]]

\* The job of a Stopper is over: a recovery is followed by the cancellation of
\* every entry, a cancellation by whatever the handle answers.
Cancels(s, d, S) ==
    Batch(Aborted(s, S), "cancel", d, S)

Report(d, c, stage) == [stopper EXCEPT ![d].stage[c] = stage]

\* start and recoverSession both begin with #recover.  Loading looks at every row
\* before it takes one over.
Unknowable(s, c) ==
    /\ s.mem[c] # None /\ s.pending[c] # None /\ s.ahead[c] > 0
    /\ ~(s.ahead[c] = 1 /\ s.ledger[c] = s.pending[c])
    /\ ~(s.mem[c] = "queued" /\ s.ledger[c] \in {"interrupted", "cancelled"})

\* Slip: slots are taken back only by commands whose handle is found.
RetainedFound(s, S) ==
    [s EXCEPT !.slot = [c \in Command |->
        IF c \in S /\ s.ledger[c] \in Claimed /\ view[c] # "absent" THEN "active" ELSE @[c]]]

\* Every uncertain slot is restored before any execution is asked about.
Retained(s, S) ==
    [s EXCEPT !.slot = [c \in Command |-> IF c \in S /\ s.ledger[c] \in Claimed THEN "active" ELSE @[c]]]

Taken(s, S) ==
    [Retained(s, S) EXCEPT !.mem = [c \in Command |-> IF c \in S THEN s.ledger[c] ELSE @[c]],
        !.ahead = [c \in Command |-> IF c \in S THEN 0 ELSE @[c]],
        !.pending = [c \in Command |-> IF c \in S THEN None ELSE @[c]]]

\* What a Stopper does when its recovery resolves or is rejected.
AfterRecover(s, d, ok) ==
    CASE d = None -> [s |-> s, stopper |-> stopper]
      [] d # None /\ ~ok ->
            [s |-> s,
             stopper |-> [stopper EXCEPT ![d] =
                IF d = "dispose" THEN [Idle EXCEPT !.pc = "reject", !.late = stopper[d].late] ELSE Idle]]
      [] ok /\ d = "resume" ->
            [s |-> Admit([s EXCEPT !.flag = [c \in Command |-> @[c] \ {"disposeFailed"}],
                                   !.quarantine = FALSE], Command),
             stopper |-> [stopper EXCEPT ![d] = Idle]]
      [] OTHER ->
            LET S == IF d = "tool" THEN {c \in Command : stopper[d].stage[c] = "mine"}
                                        \cap {c \in Command : s.mem[c] # None}
                     ELSE {c \in Command : s.mem[c] # None} IN
            [s |-> Cancels(s, d, S),
             stopper |-> [stopper EXCEPT ![d].pc = "cancel",
                 ![d].stage = [c \in Command |-> IF c \in S THEN "job" ELSE None]]]

EndRecover(s, ok) ==
    LET a == AfterRecover(s, Head1.by, ok) IN
    /\ stopper' = a.stopper
    /\ Become(a.s)

Quiet == UNCHANGED <<portVars, woken, closed, disposed, started>>

\* DISPOSED and OWNER_CANCELLING of start.
TurnedAway ==
    /\ lane # <<>> /\ Head1.kind = "start" /\ Head1.pc \in {"first", "insert"}
    /\ closed \/ Cancelling
    /\ Become(Popped)
    /\ Quiet /\ UNCHANGED <<stopper, used>>

Load ==
    /\ lane # <<>> /\ Head1.kind \in {"start", "recover"} /\ Head1.pc = "first"
    /\ Head1.kind = "start" => ~closed /\ ~Cancelling
    /\ LET rows == {c \in Command : ledger[c] # None}
           bad == {c \in rows : Unknowable(Now, c)} IN
       \/ /\ bad = {}
          /\ Become(Front(Taken(Now, rows), [Head1 EXCEPT !.pc = "each", !.todo = rows]))
          /\ UNCHANGED <<stopper, used>>
       \/ /\ bad # {}       \* INVALID_LEDGER
          /\ EndRecover(Retained(Popped, {c \in rows : c < First(bad)}), FALSE)
          /\ UNCHANGED used
       \/ /\ Faulty
          /\ EndRecover(Popped, FALSE)
          /\ used' = [used EXCEPT !.trouble = @ + 1]
    /\ Quiet

\* Slip: a result is taken for the end of the execution.
StatusOfDone(v) == IF v = "running" THEN "running" ELSE "stopped"

StatusOf(v) == IF v \in StoppedView THEN v ELSE "unknown"

\* #settle with what the handle says by now: a stop that was proved since the
\* result was made counts more than the result.
Settled(s, c, force) ==
    IF ("disposePending" \in s.flag[c] /\ ~force) \/ view[c] = "running" THEN Kept(s)
    ELSE IF s.mem[c] \in Safe THEN Kept(Release(s, c))
    ELSE Write(s, c, StatusOf(view[c]))

\* One entry of #recover.
Each(s, c, resolving) ==
    CASE s.mem[c] \in Safe -> Kept(Release(s, c))
      [] s.mem[c] \notin Safe /\ "disposeFailed" \in s.flag[c] /\ ~resolving -> Kept(s)
      [] s.mem[c] = "queued" /\ ("disposeFailed" \notin s.flag[c] \/ resolving)
            /\ (closed \/ Cancelling) -> Write(Aborted(s, {c}), c, "cancelled")
      [] s.mem[c] = "queued" /\ ("disposeFailed" \notin s.flag[c] \/ resolving)
            /\ ~(closed \/ Cancelling) ->
            IF {"launch", "dispatching"} \cap s.flag[c] # {} THEN Kept(s)
            ELSE Write(s, c, "interrupted")
      [] OTHER ->
            IF view[c] # "absent"
            THEN Settled([s EXCEPT !.flag[c] = @ \cup {"handle", "attached"}], c, resolving)
            ELSE IF s.mem[c] # "missing" THEN Write(s, c, "missing") ELSE Kept(s)

RecoverEach ==
    /\ lane # <<>> /\ Head1.pc = "each" /\ Head1.todo # {}
    /\ LET c == First(Head1.todo)
           next == Front(Now, [Head1 EXCEPT !.todo = @ \ {c}]) IN
       \E r \in Each(next, c, Head1.force) :
         /\ Blame(r)
         /\ IF r.ok THEN Become(r.to) /\ UNCHANGED stopper
            ELSE EndRecover([r.to EXCEPT !.lane = Tail(@)], FALSE)
    /\ Quiet

\* publish, after which a recovery is over and start inserts its row.
Publish ==
    /\ lane # <<>> /\ Head1.pc = "each" /\ Head1.todo = {}
    /\ \E r \in Kept(Now) \cup Broken(Now) :
         /\ Blame(r)
         /\ IF r.ok /\ Head1.kind = "start"
            THEN Become(Goto(Now, "insert")) /\ UNCHANGED stopper
            ELSE EndRecover(Popped, r.ok)
    /\ Quiet

\* A repeated call finds its row; a new one gets one.
Insert ==
    /\ AtHead("start", "insert") /\ ~closed /\ ~Cancelling
    /\ LET c == Head1.cmd
           row == [Popped EXCEPT !.ledger[c] = "queued"] IN
       \/ /\ ledger[c] # None /\ Become(Popped) /\ UNCHANGED used
       \/ /\ ledger[c] = None
          /\ \/ /\ Become([Goto(Now, "enqueue") EXCEPT !.ledger[c] = "queued", !.mem[c] = "queued"])
                /\ UNCHANGED used
             \/ /\ Faulty /\ used' = [used EXCEPT !.trouble = @ + 1]
                /\ Become(Popped) \/ Become(row)
    /\ Quiet /\ UNCHANGED stopper

\* The rest of start: the scheduler, unless a cancellation came in between.
Enqueue ==
    /\ AtHead("start", "enqueue")
    /\ LET c == Head1.cmd IN
       IF closed \/ Cancelling \/ "aborted" \in flag[c]
       THEN /\ \E r \in Write(Aborted(Popped, {c}), c, "cancelled") : Become(r.to) /\ Blame(r)
            /\ UNCHANGED woken
       ELSE LET room == Cardinality(In(Now, "active")) < Slots IN
            /\ Become([Popped EXCEPT !.flag[c] = @ \cup {"launch"},
                                     !.slot[c] = IF room THEN "active" ELSE "queued"])
            /\ woken' = IF room THEN woken \cup {c} ELSE woken
            /\ UNCHANGED used
    /\ UNCHANGED <<portVars, closed, disposed, stopper, started>>

Wake(c) ==
    /\ c \in woken
    /\ woken' = woken \ {c}
    /\ Become(Admit(Now, {c}))
    /\ UNCHANGED <<portVars, closed, disposed, stopper, started, used>>
-----------------------------------------------------------------------------
(* #dispatch *)

Undispatched(s, c) == [s EXCEPT !.flag[c] = @ \ {"dispatching"}]
Withdrawn(s, c) == [s EXCEPT !.flag[c] = @ \ {"dispatching", "launch"}]

\* A dispatch ends with a write; when it fails the launch is forgotten.
EndDispatch(c, next) ==
    \E r \in Write(Undispatched(Served(Head1.todo \ {c}), c), c, next) :
        /\ Blame(r)
        /\ Become(IF r.ok THEN r.to ELSE Withdrawn(r.to, c))

DispatchCheck ==
    /\ AtHead("dispatch", "first")
    /\ LET c == First(Head1.todo)
           rest == Head1.todo \ {c} IN
       IF mem[c] # "queued" THEN Become(Release(Undispatched(Served(rest), c), c)) /\ UNCHANGED used
       ELSE IF closed \/ "aborted" \in flag[c] THEN EndDispatch(c, "cancelled")
       ELSE /\ Become(Front([Now EXCEPT !.flag[c] = @ \ {"launch"}],
                           [Head1 EXCEPT !.pc = "authorize", !.cmd = c, !.todo = rest]))
            /\ UNCHANGED used
    /\ Quiet /\ UNCHANGED stopper

\* beforeStart refuses.
Refused ==
    /\ AtHead("dispatch", "authorize")
    /\ EndDispatch(Head1.cmd, "interrupted")
    /\ Quiet /\ UNCHANGED stopper

\* Slip: the execution starts although its claim could not be stored.
AuthorizedAnyway ==
    /\ AtHead("dispatch", "authorize")
    /\ LET c == Head1.cmd IN
       IF closed \/ Cancelling \/ "aborted" \in flag[c] THEN EndDispatch(c, "cancelled")
       ELSE \E r \in Write(Now, c, "running") :
              /\ Blame(r)
              /\ Become(Goto(r.to, "submit"))
    /\ Quiet /\ UNCHANGED stopper

\* beforeStart resolves; what happened meanwhile is looked at again, then the
\* claim is written.
Authorized ==
    /\ AtHead("dispatch", "authorize")
    /\ LET c == Head1.cmd IN
       IF closed \/ Cancelling \/ "aborted" \in flag[c] THEN EndDispatch(c, "cancelled")
       ELSE \E r \in Write(Served(Head1.todo), c, "running") :
              /\ Blame(r)
              /\ Become(IF r.ok THEN [r.to EXCEPT !.lane = Goto(Now, "submit").lane]
                        ELSE Withdrawn(r.to, c))
    /\ Quiet /\ UNCHANGED stopper

Wanted(c) == ~closed /\ "aborted" \notin flag[c]

\* The claim is on record: the execution starts, or the command is given up.
\* start of the port may throw before it made a record.
Submit ==
    /\ AtHead("dispatch", "submit")
    /\ LET c == Head1.cmd
           held == [Undispatched(Served(Head1.todo), c) EXCEPT !.flag[c] = @ \cup {"handle", "attached"}] IN
       IF ~Wanted(c) THEN EndDispatch(c, "cancelled") /\ UNCHANGED <<portVars, started>>
       ELSE \/ /\ view[c] = "absent" /\ Claim(c) /\ Become(held)
               /\ started' = started \cup {c}
               /\ UNCHANGED used
            \/ view[c] # "absent" /\ Become(held) /\ UNCHANGED <<portVars, started, used>>
            \/ view[c] = "absent" /\ EndDispatch(c, "unknown") /\ UNCHANGED <<portVars, started>>
    /\ UNCHANGED <<woken, closed, disposed, stopper>>

\* The done promise of a handle: the first settlement only.
Notify(c) ==
    /\ "attached" \in flag[c] /\ "notified" \notin flag[c] /\ done[c] # "pending"
    /\ Become([Now EXCEPT !.flag[c] = @ \cup {"notified"},
                          !.lane = Append(@, NewJob("settle", c, None, TRUE))])
    /\ Quiet /\ UNCHANGED <<stopper, used>>

Settling ==
    /\ AtHead("settle", "first")
    /\ \E r \in Settled(Popped, Head1.cmd, Head1.force) :
         /\ Blame(r) /\ Become(r.to)
         /\ stopper' = IF Head1.by = None THEN stopper
                       ELSE Report(Head1.by, Head1.cmd, IF r.ok THEN "ok" ELSE "failed")
    /\ Quiet
-----------------------------------------------------------------------------
(* cancel, cancelKnown, cancelOwned, dispose, resume *)

\* The job of #cancel.  A handle that was asked before is not asked again.
Cancelled ==
    /\ AtHead("cancel", "first")
    /\ LET c == First(Head1.todo)
           d == Head1.by
           now == Served(Head1.todo \ {c})
           found == IF d = "known" THEN "handle" \in flag[c] ELSE view[c] # "absent"
           Write1(next) == \E r \in Write(now, c, next) :
               /\ Blame(r) /\ Become(r.to)
               /\ stopper' = Report(d, c, IF r.ok THEN "ok" ELSE "failed")
               /\ UNCHANGED asked IN
       IF mem[c] \in Safe
       THEN Become(Release(now, c)) /\ stopper' = Report(d, c, "ok") /\ UNCHANGED <<asked, used>>
       ELSE IF mem[c] = "queued" THEN Write1("cancelled")
       ELSE IF ~found THEN Write1("unknown")
       ELSE /\ Become([now EXCEPT !.flag[c] = @ \cup {"handle"}])
            /\ stopper' = Report(d, c, IF stopper[d].first[c] = "failed" THEN "failed" ELSE "await")
            /\ asked' = IF stopper[d].first[c] = None /\ view[c] \in OpenView
                        THEN asked \cup {c} ELSE asked
            /\ UNCHANGED used
    /\ UNCHANGED <<proc, view, done, woken, closed, disposed, started>>

Call(d) ==
    /\ stopper[d].pc = "idle"
    /\ used' = [used EXCEPT !.calls[d] = @ + 1]
    /\ \E most \in Calls : \A e \in Stopper : used'.calls[e] <= most[e]

Handled == {c \in Loaded : "handle" \in flag[c] /\ mem[c] \notin Safe}

\* o4e_task cancel of one command.
CallTool ==
    /\ Call("tool") /\ ~closed
    /\ \E c \in Command :
         /\ ledger[c] # None
         /\ stopper' = [stopper EXCEPT !["tool"] = [Idle EXCEPT !.pc = "recover", !.stage[c] = "mine"]]
    /\ Become([Now EXCEPT !.lane = Append(@, NewJob("recover", 0, "tool", FALSE))])
    /\ Quiet

\* Handles that are known are stopped before anything is read or written.
CallStop(d) ==
    /\ Call(d) /\ d \in {"known", "owner", "dispose"}
    /\ ~disposed
    /\ d = "known" => Loaded # {}
    /\ LET rest == IF d = "known" THEN Loaded \ Handled ELSE {}
           marked == [Now EXCEPT !.flag = [c \in Command |->
                        IF d = "dispose" /\ c \in Loaded THEN @[c] \cup {"disposePending"} ELSE @[c]]] IN
       /\ stopper' = [stopper EXCEPT ![d] =
            [pc |-> IF d = "known" THEN "cancel" ELSE "stop", late |-> FALSE,
             first |-> [c \in Command |-> IF c \in Handled THEN "asked" ELSE None],
             stage |-> [c \in Command |-> IF c \in Handled THEN "stop"
                                          ELSE IF c \in rest THEN "job" ELSE None]]]
       /\ Become(Cancels(Aborted(marked, Loaded), d, rest))
    /\ asked' = asked \cup {c \in Handled : view[c] \in OpenView}
    /\ closed' = (closed \/ d = "dispose")
    /\ UNCHANGED <<proc, view, done, woken, disposed, started>>

\* A handle has answered: the cancellation of cancelKnown goes on with its job, a
\* #cancel with the settlement.
Answered(d, c) ==
    /\ stopper[d].stage[c] \in {"stop", "await"} /\ c \notin asked
    /\ IF stopper[d].stage[c] = "await"
       THEN /\ Become([Now EXCEPT !.lane = Append(@, NewJob("settle", c, d, d = "dispose"))])
            /\ stopper' = Report(d, c, "settle")
       ELSE IF d = "known"
       THEN /\ Become(Cancels(Now, d, {c}))
            /\ stopper' = [stopper EXCEPT ![d].stage[c] = "job", ![d].first[c] = "ok"]
       ELSE /\ Become(Now)
            /\ stopper' = [stopper EXCEPT ![d].stage[c] = None, ![d].first[c] =
                              IF d = "dispose" THEN None ELSE "ok"]
    /\ Quiet /\ UNCHANGED used

\* The ten seconds of #bounded; cancelKnown waits without a bound.
TimedOut(d, c) ==
    /\ stopper[d].stage[c] \in {"stop", "await"} /\ c \in asked /\ d # "known"
    /\ stopper' = IF stopper[d].stage[c] = "await" THEN Report(d, c, "failed")
                  ELSE [stopper EXCEPT ![d].stage[c] = None, ![d].first[c] =
                              IF d = "dispose" THEN None ELSE "failed"]
    /\ UNCHANGED <<ledger, heap, used>> /\ Quiet

Stages(d) == {stopper[d].stage[c] : c \in Command}

\* The known handles have answered; disposal also waits for what is under way.
StopRecovers(d) ==
    /\ stopper[d].pc = "stop" /\ "stop" \notin Stages(d)
    /\ d = "dispose" => lane = <<>>
    /\ stopper' = [stopper EXCEPT ![d].pc = "recover"]
    /\ Become([Now EXCEPT !.lane = Append(@, NewJob("recover", 0, d, FALSE))])
    /\ Quiet /\ UNCHANGED used

StopDone(d) == stopper[d].pc = "cancel" /\ Stages(d) \subseteq {None, "ok", "failed"}

StopEnds(d) ==
    /\ d # "dispose" /\ StopDone(d)
    /\ stopper' = [stopper EXCEPT ![d] = Idle]
    /\ UNCHANGED <<ledger, heap, used>> /\ Quiet

\* A disposal that does not succeed leaves the runtime and its entries in
\* quarantine.
Quarantined ==
    /\ quarantine' = TRUE
    /\ flag' = [c \in Command |-> IF c \in Loaded THEN flag[c] \cup {"disposeFailed"} ELSE flag[c]]
    /\ UNCHANGED disposed

\* Slip: a disposal whose cancellations were all answered has succeeded.
DisposeSucceedsAnswered == "failed" \notin Stages("dispose")

DisposeSucceeds ==
    /\ "failed" \notin Stages("dispose")
    /\ \A c \in Loaded : mem[c] \notin Claimed

DisposeEnds ==
    LET d == "dispose" IN
    /\ stopper[d].pc = "reject" \/ (StopDone(d) /\ lane = <<>>)
    /\ stopper' = [stopper EXCEPT ![d] = Idle]
    /\ IF stopper[d].late THEN UNCHANGED <<quarantine, flag, disposed>>
       ELSE IF stopper[d].pc = "cancel" /\ DisposeSucceeds
       THEN disposed' = TRUE /\ UNCHANGED <<quarantine, flag>>
       ELSE Quarantined
    /\ UNCHANGED <<portVars, ledger, mem, ahead, pending, slot, lane, woken, closed, started, used>>

\* Ten seconds for all of it: the caller is told, the work goes on.
DisposeTimesOut ==
    LET d == "dispose" IN
    /\ stopper[d].pc # "idle" /\ ~stopper[d].late
    /\ stopper' = [stopper EXCEPT ![d].late = TRUE]
    /\ Quarantined
    /\ UNCHANGED <<portVars, ledger, mem, ahead, pending, slot, lane, woken, closed, started, used>>

\* resume: only a disposal that failed and is over.
CallResume ==
    /\ Call("resume") /\ ~disposed /\ closed /\ quarantine /\ stopper["dispose"].pc = "idle"
    /\ closed' = FALSE
    /\ stopper' = [stopper EXCEPT !["resume"] = [Idle EXCEPT !.pc = "recover"]]
    /\ Become([Now EXCEPT !.lane = Append(@, NewJob("recover", 0, "resume", TRUE))])
    /\ UNCHANGED <<portVars, woken, disposed, started>>

-----------------------------------------------------------------------------
(* The callers, other processes and the end of this one *)

CallStart(c) ==
    /\ ~closed /\ used.starts < MaxStarts
    /\ used' = [used EXCEPT !.starts = @ + 1]
    /\ c > 1 => ledger[c - 1] # None
    /\ Become([Now EXCEPT !.lane = Append(@, NewJob("start", c, None, FALSE))])
    /\ Quiet /\ UNCHANGED stopper

\* Another process recovers the owner: it has neither launch nor handle.
Foreign(c) ==
    /\ Faulty /\ ledger[c] \in {"queued", "running", "unknown"}
    /\ ledger' = [ledger EXCEPT ![c] = IF @ = "queued" THEN "interrupted" ELSE "missing"]
    /\ ahead' = [ahead EXCEPT ![c] = IF mem[c] = None THEN 0 ELSE @ + 1]
    /\ used' = [used EXCEPT !.trouble = @ + 1]
    /\ UNCHANGED <<portVars, mem, pending, slot, flag, lane, quarantine, woken, closed, disposed,
                   stopper, started>>

\* The process dies and another takes its place: handles are lost, what they
\* controlled is not.
Crash ==
    /\ Faulty
    /\ used' = [used EXCEPT !.trouble = @ + 1]
    /\ Become(Blank(ledger))
    /\ woken' = {} /\ closed' = FALSE /\ disposed' = FALSE
    /\ stopper' = [d \in Stopper |-> Idle]
    /\ view' = [c \in Command |-> "absent"] /\ done' = [c \in Command |-> "pending"]
    /\ asked' = {}
    /\ UNCHANGED <<proc, started>>

PortMoves(c) ==
    /\ PortStep(c)
    /\ UNCHANGED <<ledger, heap, woken, closed, disposed, stopper, started, used>>

Jobs ==
    \/ TurnedAway \/ Load \/ RecoverEach \/ Publish \/ Insert \/ Enqueue
    \/ DispatchCheck \/ Refused \/ Authorized \/ Submit \/ Settling \/ Cancelled

Stops(d) ==
    \/ StopRecovers(d) \/ StopEnds(d)
    \/ \E c \in Command : Answered(d, c) \/ TimedOut(d, c)

Next ==
    \/ Jobs \/ DisposeEnds \/ DisposeTimesOut
    \/ \E d \in Stopper : CallStop(d) \/ Stops(d)
    \/ CallTool \/ CallResume
    \/ \E c \in Command : CallStart(c) \/ Wake(c) \/ Notify(c) \/ Foreign(c) \/ PortMoves(c)
    \/ Crash

Spec == Init /\ [][Next]_vars

\* The event loop runs what is ready, permission questions are answered, and the
\* execution port settles what it was asked to stop and what reaches its deadline
\* (StopAnswered of CommandExecution: the deadline asks for a stop as well).
Loop ==
    \/ Jobs \/ DisposeEnds
    \/ \E d \in Stopper : Stops(d)
    \/ \E c \in Command :
         \/ Wake(c) \/ Notify(c)
         \/ (c \in asked \/ view[c] = "running") /\ Settle(c) /\ PortMoves(c)

Fairness == WF_vars(Loop)

LiveSpec == Spec /\ Fairness
-----------------------------------------------------------------------------
(* Properties *)

\* What the ledger calls safe is over: nothing of it runs or can still be spawned.
\* Settlements, cancellations, recoveries and a previous process all write there.
SafeIsStopped ==
    \A c \in Command : ledger[c] \in Safe => proc[c] # "alive" /\ view[c] # "running"

\* A command that may be running keeps its slot, whatever was lost of its record.
SlotHeld ==
    \A c \in Loaded : proc[c] = "alive" => slot[c] = "active"

\* A disposal that succeeded leaves nothing behind that is not settled on record.
DisposedIsSettled ==
    disposed => \A c \in Loaded : ledger[c] \in Safe /\ proc[c] # "alive"

\* A command is handed to the execution port once in its life, with its claim on
\* record: no retry, recovery or resumption ever starts it again.
StartedOnce ==
    [][\A c \in Command : (view[c] = "absent" /\ view'[c] = "running")
                             => c \notin started /\ ledger[c] \in Claimed]_vars

\* The runtime comes to rest: the queue of the owner runs empty, a cancelled owner is
\* given back, and no launch waits for a slot for ever, unless disposal failed or
\* the slots are held by commands nothing is known of.
Stuck(c) == slot[c] = "active" /\ {"launch", "dispatching"} \cap flag[c] = {}

ComesToRest ==
    <>[](/\ lane = <<>> /\ ~Cancelling
         /\ \A c \in Command : "launch" \in flag[c] => quarantine \/ \E d \in Command : Stuck(d))
=============================================================================
