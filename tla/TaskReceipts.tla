---------------------------- MODULE TaskReceipts ----------------------------
(***************************************************************************)
(* The terminal receipts of background Agent tasks: how one owner Session  *)
(* is told that a task has ended, and when the receipt counts as consumed  *)
(* (runtime/background-task-runtime.mjs, adapters/opencode/plugin-hooks.ts *)
(* and automatic-task-follow.mjs).                                         *)
(*                                                                         *)
(* A receipt is kept in the task's Session (rec) and copied into the owner *)
(* Session (ref).  It reaches the owner's Agent in three ways: in the text *)
(* the chat.message hook adds to a message of the user, in an automatic    *)
(* continuation that a check submits when the Session is idle, or as the   *)
(* result of a watch call.  The first two acknowledge it when an assistant *)
(* message has completed below the message it was delivered to, the third  *)
(* before the call returns.                                                *)
(*                                                                         *)
(* One plugin instance, one owner Session, one terminal record per task,   *)
(* fewer than twenty unacknowledged receipts.  The parts of a message are  *)
(* stored and reported together.  The clock of markReceiptsDelivered is    *)
(* read in the step that writes and goes on from one delivery to the next, *)
(* so that a later one always counts as later; a delivery and an           *)
(* acknowledgement reach the reference and the record in one step, where   *)
(* the code writes one after the other and lets the second fail; the       *)
(* Session, status and message reads of one check between two of its       *)
(* decisions are one step.                                                 *)
(***************************************************************************)
EXTENDS Integers, Sequences, FiniteSets, SequencesExt, FiniteSetsExt

CONSTANTS
    Receipt,        \* the tasks of the owner, by their receipt
    MaxUser,        \* bound: messages of the user after the first
    MaxAuto,        \* bound: fresh messages of automatic continuations
    MaxWatch,       \* bound: watch calls
    MaxFault,       \* bound: failed calls and restarts of the host
    AttemptLimit,   \* admitTerminalSubmission: 3
    FailureLimit    \* TERMINAL_CHECK_FAILURE_LIMIT

ASSUME TaskReceiptsAssumption ==
    /\ Receipt \in SUBSET Nat
    /\ MaxUser \in Nat /\ MaxAuto \in Nat
    /\ AttemptLimit \in Nat \ {0} /\ FailureLimit \in Nat \ {0}

First     == 1
User      == 2..(MaxUser + 1)
Synthetic == (MaxUser + 2)..(MaxUser + MaxAuto + 1)
Message   == {First} \cup User \cup Synthetic
None      == 0
Call      == MaxUser + MaxAuto + 2    \* the assistant message of a watch call

VARIABLES
    rec,            \* per task, record.receipt in the task's Session, or Unended
    ref,            \* per task, taskRefs[].receipts in the owner Session
    enabled,        \* metadata.o4e.automaticFollow.enabled of the owner
    thread,         \* host: the stored user messages, in order
    says,           \* host: per message, the receipts its text names
    answered,       \* host: messages with a completed assistant message
    serving,        \* host: the message the turn under way answers, or None
    runnable,       \* host: a prompt waits for its turn
    posted,         \* host: accepted messages that are not stored yet
    written,        \* host: stored messages whose parts are not
    events,         \* pendingRuntimeEvents
    drains,         \* the first event waits for a check
    notice,         \* per receipt, #pendingTerminalNotifications and its timer
    wake, wakeTo,   \* pendingTerminalWakeups and their deliveredToMessageID
    timer,          \* terminalWakeupTimers
    conts,          \* per message, the shared terminal continuation
    claim,          \* per message of the user, its user turn claim
    epoch,          \* per message of the user, the epoch of its claim
    given,          \* per message of the user, its deliveredReceiptIDs
    consumed,       \* consumedReceipts: read by a watch call or answered
    handed,         \* userDeliveredTerminalReceipts
    consuming,      \* per receipt, the consumptions under way
    processed,      \* processedParentIdleMessages, as the number of answers
    follow,         \* suppression, failed checks and attempts of this instance
    reading,        \* the pendingReceipts calls of the hook and of the check
    hook,           \* the chat.message hook under way
    check,          \* the terminal wakeup operation under way
    watch,          \* the watch call under way
    recovered,      \* the owner Session has been activated by this instance
    returned,       \* history: receipts a watch call has returned to the Agent
    forfeited,      \* history: receipts of a watch call that failed half-way
    strayed,        \* history: receipts whose delivery or acknowledgement went astray
    misfiled,       \* history: receipts delivered to a message that does not name them
    asked,          \* messages of the user so far
    faults, watches

ledger  == <<rec, ref, enabled>>
host    == <<thread, says, answered, serving, runnable, posted,
             written>>
queue   == <<events, drains>>
turns   == <<claim, epoch, given>>
wakes   == <<wake, wakeTo, timer, processed>>
shared  == <<conts, consumed, consuming>>
history == <<returned, forfeited, strayed, misfiled>>
bounds  == <<asked, faults, watches>>
vars    == <<ledger, host, queue, notice, wakes, shared, handed, turns, follow,
             reading, hook, check, watch, recovered, history, bounds>>

Unended   == [is |-> FALSE, to |-> None, acked |-> FALSE]
Delivered(m) == [is |-> TRUE, to |-> m, acked |-> FALSE]
Quiet     == [at |-> "none", to |-> None]
NoCont    == [is |-> FALSE, of |-> {}, persisted |-> FALSE, retry |-> FALSE]
NoReading == [at |-> "none", todo |-> {}, done |-> {}, got |-> {}]
NoHook    == [at |-> "none", m |-> None]
NoCheck   == [at |-> "none", epoch |-> 0, anchor |-> 0, of |-> {}, to |-> None,
              retry |-> None, callers |-> {}]
NoWatch   == [at |-> "none", of |-> {}, todo |-> {}, done |-> {}]
Calm      == [suppressed |-> FALSE, unsaved |-> FALSE, failures |-> 0,
              attempts |-> [m \in Message |-> 0]]

Pending   == {r \in Receipt : ref[r].is /\ ~ref[r].acked}
Busy      == serving # None
UserEpoch == Cardinality({m \in User : epoch[m] > 0})
Claimed(phases) == {m \in User : claim[m] \in phases}
HasUserTurn == Claimed({"active", "persisted"}) # {}

\* userTurnSettlementEpoch: the latest epoch whose turns may be settled.
SettlementEpoch ==
    Min({UserEpoch} \cup {epoch[m] - 1 : m \in Claimed({"active"})})

\* The submission lock is free: a check holds it from its admission to the
\* host's answer, the other holders do nothing that waits.
LockFree == check.at \notin {"admit", "owned", "sent"}

Unavailable(r) == r \in consumed \/ consuming[r] > 0
Watched(r)     == watch.at # "none" /\ r \in watch.of
Schedulable(f) == ~f.suppressed /\ ~f.unsaved

\* mergeTaskRefReceipt.  Where the two differ the reference was delivered
\* later, and an acknowledgement that is older than its delivery is dropped.
Merged(current, incoming) ==
    IF ~current.is \/ current.to = None THEN incoming
    ELSE IF current.to = incoming.to
         THEN [current EXCEPT !.acked = @ \/ incoming.acked]
         ELSE current

\* markReceiptsDelivered: where each of the receipts is delivered to, None if
\* it is acknowledged; an earlier delivery may be kept.
Deliveries(R, m, keep) ==
    [r \in R |-> IF ref[r].acked THEN None
                 ELSE IF keep /\ ref[r].to # None THEN ref[r].to ELSE m]

\* Messages the host has got.  An identifier it has keeps its text.
AtHost == Range(thread) \cup posted \cup written

Submit(m, R) ==
    /\ posted' = posted \cup {m}
    /\ IF m \in AtHost THEN UNCHANGED <<says, misfiled>>
       ELSE /\ says' = [says EXCEPT ![m] = R]
            /\ misfiled' = misfiled \cup ({r \in Receipt : m \in {ref[r].to, rec[r].to}} \ R)

MarkDelivered(D) ==
    LET marked == {r \in DOMAIN D : D[r] # None} IN
    /\ misfiled' = misfiled \cup {r \in marked : D[r] \in AtHost /\ r \notin says[D[r]]}
    /\ ref' = [r \in Receipt |-> IF r \in marked THEN Delivered(D[r]) ELSE ref[r]]
    /\ rec' = [r \in Receipt |-> IF r \in marked /\ ~rec[r].acked THEN Delivered(D[r]) ELSE rec[r]]

Published(R) == [r \in Receipt |-> IF r \in R /\ rec[r].is
                                   THEN Merged(ref[r], rec[r]) ELSE ref[r]]

-----------------------------------------------------------------------------
(* Consumption, shared by the instances of the directory. *)

BeginConsumption(R) ==
    /\ LockFree
    /\ consuming' = [r \in Receipt |-> consuming[r] + (IF r \in R THEN 1 ELSE 0)]

\* consumeTerminalReceipts: no wakeup of these receipts is left.
ForgetWakeups(R) ==
    LET emptied == wake # {} /\ wake \subseteq R IN
    /\ wake' = wake \ R
    /\ wakeTo' = [r \in Receipt |-> IF r \in R THEN None ELSE wakeTo[r]]
    /\ processed' = -1
    /\ timer' = (timer /\ ~emptied)
    /\ follow' = IF emptied THEN [follow EXCEPT !.failures = 0] ELSE follow

\* consumeReceipts: nor a continuation with one of them.
Consume(R) ==
    /\ LockFree
    /\ consumed' = consumed \cup R
    /\ consuming' = [r \in Receipt |-> IF r \in R THEN 0 ELSE consuming[r]]
    /\ conts' = [m \in Message |-> IF conts[m].of \cap R # {} THEN NoCont ELSE conts[m]]
    /\ ForgetWakeups(R)

\* releaseReceiptConsumption: a wakeup that was held back is scheduled again.
Release(R) ==
    LET freed == {r \in R : consuming[r] <= 1} IN
    /\ LockFree
    /\ consuming' = [r \in Receipt |->
                        IF r \in R /\ consuming[r] > 0 THEN consuming[r] - 1 ELSE consuming[r]]
    /\ timer' = (timer \/ ((freed \ consumed) \cap wake # {} /\ Schedulable(follow)))

Fault == faults < MaxFault /\ faults' = faults + 1

-----------------------------------------------------------------------------
(* A task ends; the owner's plugin instance hears of it. *)

\* The terminal record is committed.  A watch call of the owner that names
\* the task will read it: the notification waits for that call.
TaskEnds(r) ==
    /\ ~rec[r].is
    /\ rec' = [rec EXCEPT ![r] = Delivered(None)]
    /\ notice' = [notice EXCEPT ![r] = [at |-> IF Watched(r) THEN "deferred" ELSE "due", to |-> None]]
    /\ UNCHANGED <<ref, enabled, host, queue, wakes, shared, handed, turns, follow,
                   reading, hook, check, watch, recovered, history, bounds>>

\* onTerminalReceipt: a pending wakeup of the owner.
Waken(r, to) ==
    IF r \in handed \cup consumed
    THEN UNCHANGED <<wake, wakeTo, timer>>
    ELSE /\ wake' = wake \cup {r}
         /\ wakeTo' = [wakeTo EXCEPT ![r] = to]
         /\ timer' = (timer \/ Schedulable(follow))

\* The receipt is published and the owner's instance is notified.
DeliverNotice(r) ==
    /\ notice[r].at = "due"
    /\ ref' = Published({r})
    /\ notice' = [notice EXCEPT ![r] = Quiet]
    /\ Waken(r, notice[r].to)
    /\ UNCHANGED <<rec, enabled, host, queue, processed, shared, handed, turns, follow,
                   reading, hook, check, watch, recovered, history, bounds>>

FailNotice(r) ==
    /\ notice[r].at = "due"
    /\ Fault
    /\ notice' = [notice EXCEPT ![r].at = "retry"]
    /\ UNCHANGED <<ledger, host, queue, wakes, shared, handed, turns, follow, reading,
                   hook, check, watch, recovered, history, asked, watches>>

RetryNotice(r) ==
    /\ notice[r].at = "retry"
    /\ notice' = [notice EXCEPT ![r].at = "due"]
    /\ UNCHANGED <<ledger, host, queue, wakes, shared, handed, turns, follow, reading,
                   hook, check, watch, recovered, history, bounds>>

-----------------------------------------------------------------------------
(* pendingReceipts, for the hook and for the check.  Receipts delivered to *)
(* a message that has been answered are acknowledged one after the other.  *)

Reader == {"hook", "check"}
Next1(w) == CHOOSE p \in reading[w].todo : \A q \in reading[w].todo : p[1] <= q[1]

\* The deliveries to acknowledge, and the receipts that have been.
Settling(todo, done) == [at |-> "settle", todo |-> todo, done |-> done, got |-> {}]

\* Slip: every delivered receipt is taken for answered.
GatherDelivered(w) ==
    /\ reading[w].at = "begin"
    /\ ref' = Published(Receipt)
    /\ reading' = [reading EXCEPT ![w] = Settling(
          {<<r, ref'[r].to>> : r \in {x \in Receipt :
                ref'[x].is /\ ~ref'[x].acked /\ ref'[x].to # None}}, {})]
    /\ UNCHANGED <<rec, enabled, host, queue, notice, wakes, shared, handed, turns, follow,
                   hook, check, watch, recovered, history, bounds>>

Gather(w) ==
    /\ reading[w].at = "begin"
    /\ ref' = Published(Receipt)
    /\ reading' = [reading EXCEPT ![w] = Settling(
          {<<r, ref'[r].to>> : r \in {x \in Receipt :
                ref'[x].is /\ ~ref'[x].acked /\ ref'[x].to \in answered}}, {})]
    /\ UNCHANGED <<rec, enabled, host, queue, notice, wakes, shared, handed, turns, follow,
                   hook, check, watch, recovered, history, bounds>>

TakeAnswered(w) ==
    /\ reading[w].at = "settle" /\ reading[w].todo # {}
    /\ BeginConsumption({Next1(w)[1]})
    /\ reading' = [reading EXCEPT ![w].at = "write"]
    /\ UNCHANGED <<ledger, host, queue, notice, wakes, conts, consumed, handed, turns, follow,
                   hook, check, watch, recovered, history, bounds>>

\* updateReceiptReference, then the record if it still needs it.
AcknowledgeAnswered(w) ==
    LET p == Next1(w)  r == p[1] IN
    /\ reading[w].at = "write"
    /\ ref[r].to = p[2] /\ ~ref[r].acked
    /\ ref' = [ref EXCEPT ![r].acked = TRUE]
    /\ rec' = IF rec[r].acked THEN rec
              ELSE [rec EXCEPT ![r] = [is |-> TRUE, to |-> p[2], acked |-> TRUE]]
    /\ reading' = [reading EXCEPT ![w] = Settling(reading[w].todo \ {p}, reading[w].done \cup {r})]
    /\ UNCHANGED <<enabled, host, queue, notice, wakes, shared, handed, turns, follow,
                   hook, check, watch, recovered, history, bounds>>

\* The receipt was delivered anew or acknowledged by another; or the write fails.
LeaveAnswered(w) ==
    LET p == Next1(w)  r == p[1] IN
    /\ reading[w].at = "write"
    /\ Release({r})
    /\ \/ /\ ref[r].to # p[2] \/ ref[r].acked
          /\ reading' = [reading EXCEPT ![w] = Settling(reading[w].todo \ {p}, reading[w].done)]
          /\ UNCHANGED faults
       \/ /\ Fault
          /\ reading' = [reading EXCEPT ![w].at = "thrown"]
    /\ UNCHANGED <<ledger, host, queue, notice, wake, wakeTo, processed, conts, consumed, handed,
                   turns, follow, hook, check, watch, recovered, history, asked, watches>>

TellAnswered(w) ==
    /\ reading[w].at = "settle" /\ reading[w].todo = {}
    /\ IF reading[w].done = {} THEN UNCHANGED <<wakes, shared, follow>>
                               ELSE Consume(reading[w].done)
    /\ reading' = [reading EXCEPT ![w] = [at |-> "done", todo |-> {}, done |-> {}, got |-> Pending]]
    /\ UNCHANGED <<ledger, host, queue, notice, handed, turns, hook, check, watch, recovered,
                   history, bounds>>

Reads == \E w \in Reader : \/ Gather(w) \/ TakeAnswered(w) \/ AcknowledgeAnswered(w)
                           \/ LeaveAnswered(w) \/ TellAnswered(w)

-----------------------------------------------------------------------------
(* A message of the user: the chat.message hook. *)

\* recoverTerminalReceiptNotifications.
Renotified == [r \in Receipt |-> IF r \in Pending THEN [at |-> "due", to |-> ref[r].to]
                                                  ELSE notice[r]]

\* resume and terminalCheckFailures: a message of the user is a new intent.
Resumed == [Calm EXCEPT !.unsaved = follow.unsaved]

\* beginUserTurn and the first activation of the Session by this instance.
HookBegins ==
    LET m == asked + 2 IN
    /\ hook.at = "none" /\ m \in User
    /\ asked' = asked + 1
    /\ hook' = [at |-> "reads", m |-> m]
    /\ claim' = [claim EXCEPT ![m] = "active"]
    /\ epoch' = [epoch EXCEPT ![m] = UserEpoch + 1]
    /\ follow' = Resumed
    /\ reading' = [reading EXCEPT !["hook"] = [NoReading EXCEPT !.at = "begin"]]
    /\ recovered' = TRUE
    /\ notice' = IF recovered THEN notice ELSE Renotified
    /\ UNCHANGED <<ledger, host, queue, wakes, shared, handed, given, check, watch,
                   history, faults, watches>>

\* markReceiptsDelivered: the newest delivery counts, also that of a turn that
\* an error has meanwhile settled.
HookMarks ==
    LET m == hook.m
        D == Deliveries(reading["hook"].got, m, FALSE) IN
    /\ hook.at = "reads" /\ reading["hook"].at = "done"
    /\ MarkDelivered(D)
    /\ given' = IF claim[m] = "active"
                THEN [given EXCEPT ![m] = {r \in DOMAIN D : D[r] = m}] ELSE given
    /\ hook' = [hook EXCEPT !.at = "marked"]
    /\ strayed' = strayed \cup (IF claim[m] = "active" THEN {} ELSE DOMAIN D)
    /\ UNCHANGED <<enabled, host, queue, notice, wakes, shared, handed, claim, epoch, follow,
                   reading, check, watch, recovered, returned, forfeited, bounds>>

\* The host takes the message with the text the hook has added.
HookReturns ==
    LET m == hook.m IN
    /\ hook.at = "marked"
    /\ Submit(m, reading["hook"].got)
    /\ hook' = NoHook
    /\ reading' = [reading EXCEPT !["hook"] = NoReading]
    /\ UNCHANGED <<ledger, thread, answered, serving, runnable, written, queue, notice, wakes,
                   shared, handed, turns, follow, check, watch, recovered, returned, forfeited,
                   strayed, bounds>>

\* The hook throws: the host drops the message, the turn is given up.
HookFails ==
    LET m == hook.m IN
    /\ \/ hook.at = "reads" /\ reading["hook"].at = "thrown" /\ UNCHANGED faults
       \/ hook.at = "marked" /\ Fault
    /\ claim' = [claim EXCEPT ![m] = "gone"]
    /\ timer' = (timer \/ (wake # {} /\ Schedulable(follow)))
    /\ strayed' = strayed \cup {r \in Receipt : ref[r].to = m}
    /\ hook' = NoHook
    /\ reading' = [reading EXCEPT !["hook"] = NoReading]
    /\ UNCHANGED <<ledger, host, queue, notice, wake, wakeTo, processed, shared, handed, epoch,
                   given, follow, check, watch, recovered, returned, forfeited,
                   misfiled, asked, watches>>

-----------------------------------------------------------------------------
(* The host runs the owner's turns, one at a time. *)

\* The event hook: an event of a turn carries the epoch of the user's turns.
Stamped(kind) == [is |-> kind, of |-> IF kind \in {"error", "aborted"} THEN UserEpoch
                                                                      ELSE SettlementEpoch]

Idle == <<Stamped("idle"), Stamped("idle")>>

\* A message is stored and reported, then its parts.  The identifier of a
\* stored message is not stored again.
HostStores(m) ==
    /\ m \in posted
    /\ posted' = posted \ {m}
    /\ IF m \in Range(thread) \cup written THEN UNCHANGED <<written, events>>
       ELSE /\ written' = written \cup {m}
            /\ events' = Append(events, [is |-> "message", of |-> m])
    /\ UNCHANGED <<ledger, thread, says, answered, serving, runnable, drains, notice, wakes,
                   shared, handed, turns, follow, reading, hook, check, watch, recovered,
                   history, bounds>>

HostStoresParts(m) ==
    /\ m \in written
    /\ written' = written \ {m}
    /\ thread' = Append(thread, m)
    /\ runnable' = TRUE
    /\ events' = Append(events, [is |-> "parts", of |-> m])
    /\ UNCHANGED <<ledger, says, answered, serving, posted, drains, notice, wakes, shared, handed,
                   turns, follow, reading, hook, check, watch, recovered, history, bounds>>

HostStarts ==
    /\ ~Busy /\ runnable
    /\ runnable' = FALSE
    /\ IF Last(thread) \in answered THEN UNCHANGED <<serving, events>>
       ELSE /\ serving' = Last(thread)
            /\ events' = Append(events, Stamped("busy"))
    /\ UNCHANGED <<ledger, thread, says, answered, posted, written, drains, notice, wakes, shared,
                   handed, turns, follow, reading, hook, check, watch, recovered, history, bounds>>

\* A turn answers the message it was started for, then the latest one.
HostAnswers ==
    /\ Busy /\ watch.at = "none"
    /\ answered' = answered \cup {serving}
    /\ runnable' = FALSE
    /\ IF Last(thread) \in answered'
       THEN serving' = None /\ events' = events \o Idle
       ELSE serving' = Last(thread) /\ UNCHANGED events
    /\ UNCHANGED <<ledger, thread, says, posted, written, drains, notice, wakes, shared, handed,
                   turns, follow, reading, hook, check, watch, recovered, history, bounds>>

HostErrs(aborted) ==
    /\ Busy /\ watch.at = "none"
    /\ Fault
    /\ serving' = None
    /\ runnable' = (Last(thread) # serving)
    /\ events' = Append(events, Stamped(IF aborted THEN "aborted" ELSE "error")) \o Idle
    /\ UNCHANGED <<ledger, thread, says, answered, posted, written, drains, notice, wakes, shared,
                   handed, turns, follow, reading, hook, check, watch, recovered, history, asked, watches>>

-----------------------------------------------------------------------------
(* The terminal wakeup check of the owner.                                 *)

\* Slip: a turn of the user does not stop a check that is under way.
CurrentAlways == check.at # "none"

Current == UserEpoch = check.epoch /\ ~HasUserTurn

\* processTerminalWakeup: one operation at a time, its callers share it.
Ask(caller) ==
    check' = IF check.at # "none" THEN [check EXCEPT !.callers = @ \cup {caller}]
             ELSE [NoCheck EXCEPT !.at = "status", !.epoch = UserEpoch, !.callers = {caller}]

\* What the callers do with the result: the timer's caller asks again while a
\* wakeup is left, the event's caller goes on with the next event.  Follows
\* the assignment of wake', follow' and conts'.
End(result) ==
    /\ check' = NoCheck
    /\ reading' = [reading EXCEPT !["check"] = NoReading]
    /\ LET again == \/ "timer" \in check.callers /\ result \in {"retry", "submitted"} /\ wake' # {}
                    \/ "event" \in check.callers /\ result = "retry" IN
       timer' = (timer \/ (again /\ Schedulable(follow')))
    /\ IF "event" \in check.callers THEN events' = Tail(events) /\ drains' = FALSE
                                     ELSE UNCHANGED queue

\* A blocked continueParentSession is asked again while one of its
\* continuations is not known to be stored.
EndBlocked == End(IF \E m \in Message : conts'[m].is /\ ~conts'[m].persisted
                  THEN "retry" ELSE "blocked")

TimerFires ==
    /\ timer
    /\ IF wake = {} \/ ~Schedulable(follow)
       THEN timer' = FALSE /\ UNCHANGED check
       ELSE timer' = FALSE /\ Ask("timer")
    /\ UNCHANGED <<ledger, host, queue, notice, wake, wakeTo, processed, shared, handed, turns,
                   follow, reading, hook, watch, recovered, history, bounds>>

\* The status of the Session and its follow control.
CheckBegins ==
    /\ check.at = "status"
    /\ UNCHANGED <<wake, wakeTo, processed, follow, conts>>
    /\ IF ~Current \/ Busy \/ ~enabled
       THEN End("blocked")
       ELSE check' = [check EXCEPT !.at = "owner"] /\ UNCHANGED <<timer, reading, queue>>
    /\ UNCHANGED <<ledger, host, notice, consumed, consuming, handed, turns, hook, watch,
                   recovered, history, bounds>>

\* The messages, the status and the owner.  A stored continuation that an idle
\* Session has not answered is sent again, the oldest first.
CheckReadsOwner ==
    LET anchor == Cardinality(answered)
        stop   == HasUserTurn \/ ~Schedulable(follow) \/ ~enabled IN
    /\ check.at = "owner"
    /\ \E explicit \in {b \in BOOLEAN : b => ~Busy /\ ~stop} :
          conts' = [m \in Message |-> IF explicit /\ conts[m].persisted /\ m \notin answered
                                     THEN [conts[m] EXCEPT !.retry = TRUE] ELSE conts[m]]
    /\ LET again == {m \in Message : conts'[m].retry}
           retry == IF again = {} THEN None ELSE Min(again)
           retrying == again # {} \/ \E m \in Message : conts'[m].is /\ ~conts'[m].persisted IN
       IF stop \/ anchor = 0 \/ (processed = anchor /\ ~retrying) \/ Busy
       THEN /\ follow' = IF HasUserTurn \/ enabled THEN follow
                        ELSE [follow EXCEPT !.suppressed = TRUE]
            /\ UNCHANGED <<wake, wakeTo, processed>>
            /\ EndBlocked
       ELSE /\ check' = [check EXCEPT !.at = "choose", !.anchor = anchor, !.retry = retry,
                                      !.of = IF retry = None THEN {} ELSE conts'[retry].of]
            /\ reading' = [reading EXCEPT !["check"] = [NoReading EXCEPT !.at = "begin"]]
            /\ UNCHANGED <<wakes, follow, queue>>
    /\ UNCHANGED <<ledger, host, notice, consumed, consuming, handed, turns, hook, watch,
                   recovered, history, bounds>>

Wakeable(r) == r \in wake /\ ~Unavailable(r) /\ ~Watched(r)

\* Which receipts: those of the continuation that is sent again, or those
\* that no stored continuation is about to report.  Without any the wakeup is
\* over.  Unfinished tasks may hold the batch back.
CheckChooses ==
    LET base    == {r \in reading["check"].got : Wakeable(r)}
        held    == {r \in wake : ~Wakeable(r)}
        over(m) == conts[m].persisted /\ conts[m].of \cap base = {}
        claimed == UNION {conts[m].of : m \in {x \in Message :
                                conts[x].persisted /\ ~over(x) /\ ~conts[x].retry}}
        of      == IF check.retry # None THEN base \cap check.of ELSE base \ claimed
    IN
    /\ check.at = "choose" /\ reading["check"].at = "done"
    /\ conts' = IF check.retry # None \/ wake = {} THEN conts
                ELSE [m \in Message |-> IF over(m) THEN NoCont ELSE conts[m]]
    /\ UNCHANGED <<processed, follow>>
    /\ \/ /\ wake = {}
          /\ UNCHANGED <<wake, wakeTo>>
          /\ EndBlocked
       \/ /\ wake # {} /\ of = {}
          /\ IF held # {} \/ (check.retry = None /\ claimed # {})
             THEN UNCHANGED <<wake, wakeTo>> /\ End("retry")
             ELSE wake' = {} /\ wakeTo' = [r \in Receipt |-> None] /\ EndBlocked
       \/ /\ of # {} /\ \E r \in Receipt : ~rec[r].is
          /\ UNCHANGED <<wake, wakeTo>>
          /\ End("retry")
       \/ /\ of # {}
          /\ UNCHANGED <<wake, wakeTo>>
          /\ IF ~Current THEN EndBlocked
             ELSE /\ check' = [check EXCEPT !.at = "status2", !.of = of]
                  /\ reading' = [reading EXCEPT !["check"] = NoReading]
                  /\ UNCHANGED <<timer, queue>>
    /\ UNCHANGED <<ledger, host, notice, consumed, consuming, handed, turns, hook, watch,
                   recovered, history, bounds>>

\* A message no receipt, continuation or Session refers to.
Fresh == {m \in Synthetic : /\ m \notin AtHost
                            /\ ~conts[m].is /\ follow.attempts[m] = 0
                            /\ \A r \in Receipt : m \notin {ref[r].to, rec[r].to, wakeTo[r], notice[r].to}}

\* The status again, and the message: the one of the continuation that is sent
\* again, one the receipts were delivered to before, or a new one.
CheckAddresses ==
    LET of     == {r \in check.of : Wakeable(r)}
        reused == {wakeTo[r] : r \in of} \ {None} IN
    /\ check.at = "status2"
    /\ UNCHANGED <<wake, wakeTo, conts>>
    /\ \/ /\ Busy \/ ~Current
          /\ UNCHANGED <<processed, follow>>
          /\ EndBlocked
       \/ /\ ~Busy /\ Current
          /\ follow' = [follow EXCEPT !.failures = 0]
          /\ IF of = {}
             THEN /\ UNCHANGED processed
                  /\ IF check.of \cap wake # {} THEN End("retry") ELSE EndBlocked
             ELSE /\ processed' = check.anchor
                  /\ \E to \in IF check.retry # None THEN {check.retry}
                               ELSE IF reused # {} THEN reused
                               ELSE IF Fresh # {} THEN {Min(Fresh)} ELSE {} :
                       LET same == {r \in of : Cardinality(reused) > 1 => wakeTo[r] \in {None, to}}
                           kept == IF conts[to].is /\ ~conts[to].persisted
                                   THEN same \cap conts[to].of ELSE same IN
                       IF kept = {} THEN End("retry")
                       ELSE /\ check' = [check EXCEPT !.at = "mark", !.of = kept, !.to = to]
                            /\ UNCHANGED <<timer, reading, queue>>
    /\ UNCHANGED <<ledger, host, notice, consumed, consuming, handed, turns, hook, watch,
                   recovered, history, bounds>>

Unprocess == processed' = IF processed = check.anchor THEN -1 ELSE processed

\* markReceiptsDelivered with preserveExistingDelivery, and what became of the
\* owner meanwhile.
CheckMarks ==
    LET D     == Deliveries(check.of, check.to, TRUE)
        of    == {r \in check.of : D[r] = check.to}
        moved == [r \in Receipt |-> IF r \in (check.of \ of) \cap wake /\ D[r] # None
                                   THEN D[r] ELSE wakeTo[r]]
    IN
    /\ check.at = "mark"
    /\ MarkDelivered(D)
    /\ UNCHANGED <<enabled, wake, follow, conts>>
    /\ \/ /\ of = {}
          /\ wakeTo' = moved /\ Unprocess
          /\ End("retry")
       \/ /\ of # {} /\ ~Current
          /\ wakeTo' = moved /\ Unprocess
          /\ EndBlocked
       \/ /\ of # {} /\ Current /\ \E r \in of : r \notin wake \/ Watched(r)
          /\ wakeTo' = moved /\ Unprocess
          /\ IF wake # {} THEN End("retry") ELSE EndBlocked
       \/ /\ of # {} /\ Current /\ \A r \in of : r \in wake /\ ~Watched(r)
          /\ wakeTo' = [r \in Receipt |-> IF r \in of THEN check.to ELSE moved[r]]
          /\ check' = [check EXCEPT !.at = "latest", !.of = of]
          /\ reading' = [reading EXCEPT !["check"] = [NoReading EXCEPT !.at = "begin"]]
          /\ UNCHANGED <<processed, timer, queue>>
    /\ UNCHANGED <<host, notice, consumed, consuming, handed, turns, hook, watch, recovered,
                   returned, forfeited, strayed, bounds>>

\* What is still pending goes into the continuation of the message, also what
\* a watch call has consumed since the check read it.
CheckCreates ==
    LET left == check.of \cap reading["check"].got
        c    == conts[check.to]
        of   == IF c.is THEN left \cap c.of ELSE left IN
    /\ check.at = "latest" /\ reading["check"].at = "done"
    /\ UNCHANGED <<wake, wakeTo, follow>>
    /\ strayed' = strayed \cup (of \cap consumed)
    /\ IF left = {}
       THEN /\ Unprocess /\ UNCHANGED conts
            /\ IF wake # {} THEN End("retry") ELSE EndBlocked
       ELSE /\ UNCHANGED processed
            /\ conts' = IF c.is THEN conts
                        ELSE [conts EXCEPT ![check.to] = [NoCont EXCEPT !.is = TRUE, !.of = of]]
            /\ IF of = {} THEN End("retry")
               ELSE /\ check' = [check EXCEPT !.at = "admit", !.of = of]
                    /\ reading' = [reading EXCEPT !["check"] = NoReading]
                    /\ UNCHANGED <<timer, queue>>
    /\ UNCHANGED <<ledger, host, notice, consumed, consuming, handed, turns, hook, watch,
                   recovered, returned, forfeited, misfiled, bounds>>

\* admitTerminalSubmission.
Admitted(m) == [follow EXCEPT !.attempts[m] = @ + 1]

\* failAutomaticFollow: follow-up of the owner is switched off.
SwitchOff(f) == enabled' = FALSE /\ follow' = [f EXCEPT !.suppressed = TRUE]

\* serializeSubmission: the control, the user's turn and the receipts once
\* more; the attempts of one message are limited.
CheckAdmits ==
    /\ check.at = "admit"
    /\ UNCHANGED <<wake, wakeTo, conts>>
    /\ \/ /\ ~enabled \/ follow.suppressed \/ ~Current \/ \E r \in check.of : Unavailable(r)
          /\ UNCHANGED <<enabled, follow>> /\ Unprocess
          /\ End("retry")
       \/ /\ enabled /\ ~follow.suppressed /\ Current /\ \A r \in check.of : ~Unavailable(r)
          /\ IF follow.attempts[check.to] >= AttemptLimit
             THEN SwitchOff(follow) /\ Unprocess /\ End("retry")
             ELSE /\ follow' = Admitted(check.to)
                  /\ check' = [check EXCEPT !.at = "owned"]
                  /\ UNCHANGED <<enabled, processed, timer, reading, queue>>
    /\ UNCHANGED <<rec, ref, host, notice, consumed, consuming, handed, turns, hook, watch,
                   recovered, history, bounds>>

\* continueOwner has found a root Session: the host is prompted.  It stores
\* the message later.
CheckPrompts ==
    /\ check.at = "owned"
    /\ UNCHANGED <<wake, wakeTo, conts, follow>>
    /\ IF follow.suppressed \/ ~Current
       THEN Unprocess /\ End("retry") /\ UNCHANGED <<posted, says, misfiled>>
       ELSE /\ Submit(check.to, conts[check.to].of)
            /\ check' = [check EXCEPT !.at = "sent"]
            /\ UNCHANGED <<processed, timer, reading, queue>>
    /\ UNCHANGED <<ledger, thread, answered, serving, runnable, written, notice, consumed,
                   consuming, handed, turns, hook, watch, recovered, returned, forfeited,
                   strayed, bounds>>

CheckIsAnswered ==
    /\ check.at = "sent"
    /\ conts' = [conts EXCEPT ![check.to].retry = FALSE]
    /\ UNCHANGED <<wake, wakeTo, processed, follow>>
    /\ End(IF conts[check.to].persisted THEN "submitted" ELSE "retry")
    /\ UNCHANGED <<ledger, host, notice, consumed, consuming, handed, turns, hook, watch,
                   recovered, history, bounds>>

\* A call to the host fails after a message was chosen, or its answer is lost.
CheckErrs ==
    /\ \/ check.at \in {"mark", "admit", "owned", "sent"} /\ Fault
       \/ check.at = "latest" /\ reading["check"].at = "thrown" /\ UNCHANGED faults
    /\ UNCHANGED <<wake, wakeTo, conts, follow>> /\ Unprocess
    /\ End("retry")
    /\ UNCHANGED <<ledger, host, notice, consumed, consuming, handed, turns, hook, watch,
                   recovered, history, asked, watches>>

\* A call fails before that: the check counts it.  At the limit follow-up is
\* switched off, in the owner's metadata if they can be written.
CheckFails ==
    LET failures == follow.failures + 1 IN
    /\ \/ check.at \in {"status", "owner", "status2"} /\ Fault
       \/ check.at = "choose" /\ reading["check"].at = "thrown" /\ UNCHANGED faults
    /\ UNCHANGED <<wake, wakeTo, conts, processed>>
    /\ IF ~Current THEN UNCHANGED <<enabled, follow>> /\ End("blocked")
       ELSE IF failures < FailureLimit
       THEN /\ follow' = [follow EXCEPT !.failures = failures]
            /\ UNCHANGED enabled /\ End("retry")
       ELSE /\ \/ /\ check.at # "status"
                  /\ SwitchOff([follow EXCEPT !.failures = failures])
               \/ /\ UNCHANGED enabled
                  /\ follow' = [follow EXCEPT !.failures = failures, !.suppressed = TRUE,
                                              !.unsaved = TRUE]
            /\ End("blocked")
    /\ UNCHANGED <<rec, ref, host, notice, consumed, consuming, handed, turns, hook, watch,
                   recovered, history, asked, watches>>

Checks == \/ TimerFires \/ CheckBegins \/ CheckReadsOwner \/ CheckChooses \/ CheckAddresses
          \/ CheckMarks \/ CheckCreates \/ CheckAdmits \/ CheckPrompts \/ CheckIsAnswered
          \/ CheckErrs \/ CheckFails

-----------------------------------------------------------------------------
(* drainRuntimeEvents: one event at a time, to its end.                    *)

\* settlePersistedUserTurnsThrough, clearOwnedUserTurnsThrough.
Settle(phases, e) ==
    claim' = [m \in User |-> IF claim[m] \in phases /\ epoch[m] <= e THEN "gone" ELSE claim[m]]

\* confirmPersistedUserMessage: the receipts of the message are delivered; a
\* watch call of the Session returns without them.
ConfirmUser(m) ==
    /\ claim' = [claim EXCEPT ![m] = "persisted"]
    /\ wake' = wake \ given[m]
    /\ wakeTo' = [r \in Receipt |-> IF r \in given[m] THEN None ELSE wakeTo[r]]
    /\ handed' = handed \cup given[m]
    /\ timer' = (timer /\ (wake = {} \/ wake' # {}))
    /\ watch' = IF watch.at = "waiting" THEN [watch EXCEPT !.at = "told"] ELSE watch
    /\ UNCHANGED <<processed, conts, follow>>

\* A stored continuation, or a message nobody waits for.
ConfirmContinuation(m) ==
    /\ conts' = [conts EXCEPT ![m].persisted = conts[m].is]
    /\ UNCHANGED <<wakes, handed, claim, follow, watch>>

\* The Session is busy or idle: stored turns of the user that are older than
\* the status are over.
SettleStatus(e) ==
    /\ Settle({"persisted"}, e)
    /\ timer' = (timer \/ (claim' # claim /\ wake # {} /\ Schedulable(follow)))
    /\ UNCHANGED <<wake, wakeTo, processed, conts, handed, follow, watch>>

\* The turn has failed: so have the messages of the user before it, and every
\* stored continuation is sent again.
SettleError(e, aborted) ==
    /\ Settle({"active", "persisted"}, e)
    /\ follow' = [follow EXCEPT !.suppressed = @ \/ aborted]
    /\ processed' = -1
    /\ conts' = [m \in Message |-> [conts[m] EXCEPT !.retry = @ \/ conts[m].persisted]]
    /\ timer' = (timer \/ (wake # {} /\ Schedulable(follow')))
    /\ UNCHANGED <<wake, wakeTo, handed, watch>>

\* An error may settle a turn whose message the host has not got yet.
ProcessEvent ==
    LET e == Head(events) IN
    /\ events # <<>> /\ ~drains
    /\ \/ e.is = "message" /\ UNCHANGED <<wakes, conts, handed, claim, follow, watch>>
       \/ e.is = "parts" /\ e.of \in Claimed({"active"}) /\ ConfirmUser(e.of)
       \/ e.is = "parts" /\ e.of \notin Claimed({"active"}) /\ ConfirmContinuation(e.of)
       \/ e.is \in {"busy", "idle"} /\ SettleStatus(e.of)
       \/ e.is \in {"error", "aborted"} /\ SettleError(e.of, e.is = "aborted")
    /\ IF wake' = {} \/ ~Schedulable(follow')
       THEN events' = Tail(events) /\ UNCHANGED <<drains, check>>
       ELSE drains' = TRUE /\ Ask("event") /\ UNCHANGED events
    /\ strayed' = strayed \cup {r \in Receipt : \E m \in Claimed({"active"}) :
                                                 claim'[m] = "gone" /\ ref[r].to = m}
    /\ UNCHANGED <<ledger, host, notice, consumed, consuming, epoch, given, reading, hook,
                   recovered, returned, forfeited, misfiled, bounds>>

-----------------------------------------------------------------------------
(* A watch call of the owner's Agent.                                      *)

Released(R) == [r \in Receipt |-> IF r \in R /\ notice[r].at = "deferred"
                                 THEN [notice[r] EXCEPT !.at = "due"] ELSE notice[r]]

WatchBegins ==
    LET R == {r \in Receipt : ~rec[r].acked} IN
    /\ Busy /\ watch.at = "none" /\ R # {}
    /\ watches < MaxWatch
    /\ watches' = watches + 1
    /\ watch' = [NoWatch EXCEPT !.at = "waiting", !.of = R]
    /\ UNCHANGED <<ledger, host, queue, notice, wakes, shared, handed, turns, follow, reading,
                   hook, check, recovered, history, asked, faults>>

\* A message of the user, the end of the window, or an abort.
WatchLeaves ==
    /\ watch.at \in {"waiting", "told"}
    /\ watch' = NoWatch
    /\ notice' = Released(watch.of)
    /\ UNCHANGED <<ledger, host, queue, wakes, shared, handed, turns, follow, reading,
                   hook, check, recovered, history, bounds>>

\* consumeTerminalNotifications: deliveries under way are awaited, then the
\* receipts of the tasks that have ended are taken and published.
WatchTakes ==
    LET R == {r \in watch.of : rec[r].is} IN
    /\ watch.at = "waiting"
    /\ \E r \in R : ~rec[r].acked
    /\ \A r \in R : notice[r].at # "due"
    /\ BeginConsumption(R)
    /\ ref' = Published(R)
    /\ watch' = [watch EXCEPT !.at = "record", !.todo = R, !.done = R]
    /\ UNCHANGED <<rec, enabled, host, queue, notice, wakes, conts, consumed, handed, turns,
                   follow, reading, hook, check, recovered, history, bounds>>

\* acknowledgeReceipts, one task after the other: the record ...
WatchRecords ==
    LET r      == Min(watch.todo)
        merged == Merged(ref[r], rec[r])
        to     == IF merged.to = None THEN Call ELSE merged.to IN
    /\ watch.at = "record" /\ watch.todo # {}
    /\ rec' = [rec EXCEPT ![r] = [is |-> TRUE, to |-> to, acked |-> TRUE]]
    /\ watch' = [watch EXCEPT !.at = "copy"]
    /\ UNCHANGED <<ref, enabled, host, queue, notice, wakes, shared, handed, turns, follow,
                   reading, hook, check, recovered, history, bounds>>

\* ... then its reference.
WatchCopies ==
    LET r == Min(watch.todo) IN
    /\ watch.at = "copy"
    /\ ref' = Published({r})
    /\ watch' = [watch EXCEPT !.at = "record", !.todo = @ \ {r}]
    /\ UNCHANGED <<rec, enabled, host, queue, notice, wakes, shared, handed, turns, follow,
                   reading, hook, check, recovered, history, bounds>>

WatchFails ==
    /\ watch.at \in {"record", "copy"} /\ watch.todo # {}
    /\ Fault
    /\ Release(watch.done)
    /\ forfeited' = forfeited \cup watch.done
    /\ watch' = NoWatch
    /\ notice' = Released(watch.of)
    /\ UNCHANGED <<ledger, host, queue, wake, wakeTo, processed, conts, consumed, handed, turns,
                   follow, reading, hook, check, recovered, returned, strayed, misfiled, asked, watches>>

\* The receipts are consumed and the call returns them, also one that was
\* delivered again after it was acknowledged.
WatchReturns ==
    /\ watch.at = "record" /\ watch.todo = {}
    /\ Consume(watch.done)
    /\ returned' = returned \cup watch.done
    /\ strayed' = strayed \cup {r \in watch.done : ~ref[r].acked}
    /\ watch' = NoWatch
    /\ notice' = [r \in Receipt |-> IF r \in watch.done THEN Quiet ELSE Released(watch.of)[r]]
    /\ UNCHANGED <<ledger, host, queue, handed, turns, reading, hook, check, recovered,
                   forfeited, misfiled, bounds>>

Watches == \/ WatchBegins \/ WatchLeaves \/ WatchTakes \/ WatchRecords \/ WatchCopies
           \/ WatchFails \/ WatchReturns

-----------------------------------------------------------------------------
(* The host and the plugin restart: what is stored in Sessions remains,    *)
(* a delivery to a message that is not stored yet does too.                *)

FreshPlugin ==
    /\ notice = [r \in Receipt |-> Quiet]
    /\ wake = {} /\ wakeTo = [r \in Receipt |-> None]
    /\ timer = FALSE /\ processed = -1
    /\ conts = [m \in Message |-> NoCont]
    /\ consumed = {} /\ consuming = [r \in Receipt |-> 0]
    /\ handed = {}
    /\ claim = [m \in User |-> "none"] /\ epoch = [m \in User |-> 0]
    /\ given = [m \in User |-> {}]
    /\ follow = Calm
    /\ reading = [w \in Reader |-> NoReading]
    /\ hook = NoHook /\ check = NoCheck /\ watch = NoWatch

Restart ==
    /\ Fault
    /\ serving' = None /\ runnable' = FALSE /\ posted' = {} /\ written' = {}
    /\ events' = <<>> /\ drains' = FALSE
    /\ notice' = [r \in Receipt |-> Quiet]
    /\ wake' = {} /\ wakeTo' = [r \in Receipt |-> None]
    /\ timer' = FALSE /\ processed' = -1
    /\ conts' = [m \in Message |-> NoCont]
    /\ consumed' = {} /\ consuming' = [r \in Receipt |-> 0]
    /\ handed' = {}
    /\ claim' = [m \in User |-> "none"] /\ epoch' = [m \in User |-> 0]
    /\ given' = [m \in User |-> {}]
    /\ follow' = Calm
    /\ reading' = [w \in Reader |-> NoReading]
    /\ hook' = NoHook /\ check' = NoCheck /\ watch' = NoWatch
    /\ recovered' = FALSE
    /\ forfeited' = forfeited \cup watch.done
    /\ strayed' = strayed \cup {r \in Receipt :
                       ref[r].to \in (AtHost \cup {hook.m}) \ (Range(thread) \cup {None})}
    /\ UNCHANGED <<ledger, thread, says, answered, returned, misfiled, asked, watches>>

-----------------------------------------------------------------------------
\* The owner's first turn has created the tasks and is still under way; it
\* has read the receipts in old with a watch call.
InitWith(old) ==
    /\ rec = [r \in Receipt |-> IF r \in old THEN [is |-> TRUE, to |-> Call, acked |-> TRUE]
                                           ELSE Unended]
    /\ ref = rec
    /\ enabled = TRUE
    /\ thread = <<First>> /\ says = [m \in Message |-> {}] /\ answered = {}
    /\ serving = First /\ runnable = FALSE /\ posted = {} /\ written = {}
    /\ events = <<>> /\ drains = FALSE
    /\ FreshPlugin
    /\ recovered = TRUE
    /\ returned = old /\ forfeited = {} /\ strayed = {} /\ misfiled = {}

Init == InitWith({}) /\ asked = 0 /\ faults = 0 /\ watches = 0

Next ==
    \/ \E r \in Receipt : TaskEnds(r) \/ DeliverNotice(r) \/ FailNotice(r) \/ RetryNotice(r)
    \/ Reads
    \/ HookBegins \/ HookMarks \/ HookReturns \/ HookFails
    \/ \E m \in Message : HostStores(m) \/ HostStoresParts(m)
    \/ HostStarts \/ HostAnswers \/ \E aborted \in BOOLEAN : HostErrs(aborted)
    \/ Checks
    \/ ProcessEvent
    \/ Watches
    \/ Restart

Spec == Init /\ [][Next]_vars

-----------------------------------------------------------------------------
\* What the owner's Agent has been told.
Read == returned \cup UNION {says[m] : m \in answered}

\* No duplicate.  The host is never given a new message of an automatic
\* continuation about a receipt the Agent has read already, unless a delivery
\* or an acknowledgement of it has gone astray.
NotToldTwice ==
    [][check.at = "owned" /\ check'.at = "sent"
           /\ check.to \notin AtHost
       => says'[check.to] \cap Read \subseteq strayed]_vars

\* No loss (BGT-008: receipts are delivered at least once).  A receipt is
\* acknowledged only when the Agent has read it or a watch call is about to
\* return it.
AckedWasRead ==
    \A r \in Receipt : ref[r].acked \/ rec[r].acked => r \in Read \cup watch.done

\* There are two ways to lose a receipt and no third, whatever messages, watch
\* calls, failures and restarts meet: what counts as consumed has been read, is
\* about to be returned, belongs to a watch call that failed between two of its
\* writes, or was filed under a message whose text does not name it.
NoThirdLoss ==
    \A r \in Receipt : ref[r].acked \/ rec[r].acked \/ r \in consumed =>
        r \in Read \cup forfeited \cup watch.done \cup misfiled

=============================================================================
