------------------------- MODULE DelegationAttempt -------------------------
(***************************************************************************)
(* One foreground delegation of DelegationRuntime                          *)
(* (src/src/runtime/delegation-runtime.mjs): the call of delegate, the     *)
(* attempt it makes in a child Session, and whoever settles the attempt    *)
(* when the call cannot say how its turn ended.                            *)
(*                                                                         *)
(* work holds the coroutines and what each awaits.  Settlement (S), active *)
(* evidence (P), cancellation fence (C), tombstone (M) and shutdown (H)    *)
(* are promises kept in the attempt: a second caller awaits the first one. *)
(* Generations and identities of inspections only tell whether something   *)
(* was overtaken: fresh is cleared by whoever overtakes it.                *)
(*                                                                         *)
(* An attempt has one record: in its child Session or, when that was       *)
(* deleted, in a tombstone.  Timestamps are compared with that of the      *)
(* cancellation only: late says that an end comes after it.  The host      *)
(* handles requests in the order they are made.                            *)
(***************************************************************************)
EXTENDS Naturals, Sequences, FiniteSets

CONSTANTS
    MaxTroubles     \* bound on what disturbs a delegation: a call of the store
                    \* or the host that fails, an abort, a flush, a deletion, a
                    \* crash, a recovery in a living runtime

ASSUME DelegationAssumption == MaxTroubles \in Nat

VARIABLES
    host,       \* the turn in the child Session
    gone,       \* the child Session is deleted
    events,     \* events of the child Session that captureEvent has not tagged
    rec,        \* the record of the attempt, in a Session
    att,        \* the attempt in memory
    lock,       \* the scope lock lockID is in the table
    call,       \* closure of #delegate
    work,       \* the coroutines
    timers,     \* retry timers that are set
    phase,      \* of the runtime
    troubles,   \* how many there were
    meddled     \* history: since the flush returned, a recovery was under way or
                \* a timer has brought a settled attempt back

attemptVars == <<host, gone, events, rec, att, lock, call, work, timers, phase, troubles, meddled>>

Terminal == {"reported-completed", "failed", "cancelled"}
NoRecord == [at |-> "none", status |-> "none", cancel |-> FALSE, late |-> FALSE,
             confirmed |-> FALSE, invalid |-> FALSE]
NoInspection == [state |-> "none", out |-> "none", status |-> "none"]

\* #uncertainAttempt, of the record r.
Attempt(r) ==
    [tracked |-> FALSE, fg |-> "none", answered |-> FALSE, ids |-> {r.at} \ {"none"},
     cancel |-> r.cancel, confirmed |-> r.confirmed, missing |-> r.confirmed,
     evidence |-> FALSE, pending |-> NoInspection, draft |-> NoRecord, term |-> NoRecord, invalid |-> r.invalid]

Worker == {"delegate", "stop", "event", "flush", "recover", "settleTimer", "cancelTimer",
           "tombTimer", "S", "P", "C", "M", "H"}
Resting == [pc |-> "idle", on |-> "none", res |-> "none", fresh |-> FALSE]
NoCall == [aborted |-> FALSE, open |-> TRUE, sent |-> FALSE, answer |-> "none",
           stop |-> "none", retain |-> FALSE, status |-> "none", missing |-> FALSE,
           uncertain |-> FALSE, over |-> FALSE, heard |-> "none", outcome |-> "none"]

AttemptInit ==
    /\ host = "none" /\ gone = FALSE /\ events = <<>>
    /\ rec = NoRecord /\ att = Attempt(NoRecord) /\ lock = FALSE
    /\ call = NoCall /\ work = [w \in Worker |-> Resting] /\ timers = {}
    /\ phase = "serving" /\ troubles = 0 /\ meddled = FALSE
-----------------------------------------------------------------------------
(* Coroutines *)

Ready(w, pc) == work[w].pc = pc /\ work[w].on = "none"
Goto(W, w, pc) == [W EXCEPT ![w] = [Resting EXCEPT !.pc = pc]]
Finish(W, w, pc, res) == [W EXCEPT ![w] = [Resting EXCEPT !.pc = pc, !.res = res]]

\* w asks the host for the turn: what it hears is current until overtaken.
Inspects(W, w, pc) == [W EXCEPT ![w] = [Resting EXCEPT !.pc = pc, !.fresh = TRUE]]

First == [S |-> "begin", P |-> "collect", C |-> "collect", M |-> "look", H |-> "begin"]

\* w awaits the promise s and goes on at pc.
Awaits(W, w, s, pc) ==
    [W EXCEPT ![w] = [Resting EXCEPT !.pc = pc, !.on = s],
              ![s] = IF @.pc = "idle" THEN [Resting EXCEPT !.pc = First[s]] ELSE @]

\* The promise s is resolved.
Return(W, s, res) ==
    [w \in Worker |-> IF w = s THEN Resting
                      ELSE IF W[w].on = s THEN [W[w] EXCEPT !.on = "none", !.res = res] ELSE W[w]]

\* Every inspection under way is overtaken.
Overtake(W) == [w \in Worker |-> [W[w] EXCEPT !.fresh = FALSE]]

Boolean(b) == IF b THEN "true" ELSE "false"
Faulty == troubles < MaxTroubles
Blame == troubles' = troubles + 1
Fine == UNCHANGED troubles
HostRests == UNCHANGED <<host, gone, events>>
Quiescing == phase \in {"flushing", "flushed"}
Active == phase = "serving"

\* The plugin is told of it, now or later.  What captureEvent tags, an event
\* of a pending turn that is told now, is not handled.
Listens == phase \notin {"closed", "down"}
Emits(kind) ==
    \/ events' = Append(events, kind)
    \/ att.fg = "pending" /\ kind # "deleted" /\ UNCHANGED events

\* How a turn is seen by inspectTurn: an idle Session may be missing from the
\* status map (inactive).
Seen ==
    IF host = "busy" THEN {[NoInspection EXCEPT !.state = "running"]}
    ELSE IF gone THEN {[NoInspection EXCEPT !.state = "missing"]}
    ELSE {[state |-> s, status |-> "none",
           out |-> IF host \in {"result", "error"} THEN host ELSE "none"] : s \in {"idle", "inactive"}}

Unknown == [NoInspection EXCEPT !.state = "unknown"]
IdleSeen == [NoInspection EXCEPT !.state = "idle"]

\* w hears x; an inspection that fails counts as unknown.
Hears(x) == \/ x \in Seen /\ host # "sent" /\ Fine
            \/ x = Unknown /\ Faulty /\ Blame

\* cancelTurn: acknowledged, and the turn is over; or not.
CancelTurn(acknowledged) ==
    \/ /\ acknowledged = TRUE /\ Fine
       /\ host' = IF host \in {"sent", "busy"} THEN "quiet" ELSE host
       /\ IF host = "busy" /\ Listens THEN Emits("idle") ELSE UNCHANGED events
    \/ acknowledged = FALSE /\ Faulty /\ Blame /\ UNCHANGED <<host, events>>
-----------------------------------------------------------------------------
(* Terminal records *)

Rank(status) == IF status = "reported-completed" THEN 3 ELSE IF status = "failed" THEN 2 ELSE 1

\* persistedTerminal: the strongest end that no earlier cancellation overrules.
PersistedTerminal(records) ==
    LET cancelled == \E r \in records : r.cancel
        stands == {r \in records : r.status = "cancelled"
                                   \/ (r.status \in Terminal /\ ~(cancelled /\ r.late))} IN
    IF stands = {} THEN NoRecord
    ELSE CHOOSE r \in stands : \A q \in stands : Rank(q.status) <= Rank(r.status)

\* mergeTerminalDelegation: a confirmed cancellation is forced.
MergeTerminal(current, candidate) ==
    LET cancel == current.cancel \/ candidate.cancel
        wins == candidate.confirmed \/ (cancel /\ candidate.late)
        adjusted == IF wins THEN [candidate EXCEPT !.status = "cancelled"] ELSE candidate
        known == PersistedTerminal({[current EXCEPT !.cancel = cancel], adjusted})
        winner == IF candidate.confirmed \/ known = NoRecord THEN adjusted ELSE known IN
    [current EXCEPT !.status = winner.status, !.late = winner.late, !.cancel = cancel,
                    !.confirmed = @ \/ candidate.confirmed, !.invalid = FALSE]

Stopped(a, x) == x.state = "idle" \/ (x.state = "inactive" /\ (a.confirmed \/ a.cancel))

\* The record can be written: it is where the attempt looks for it.
Written(a) == rec.at \in a.ids

\* #collectAttemptRecords
Collected(a) ==
    LET found == {rec} \ {NoRecord} IN
    [a EXCEPT !.tracked = TRUE, !.ids = @ \cup {r.at : r \in found},
              !.cancel = @ \/ rec.cancel, !.confirmed = @ \/ rec.confirmed,
              !.missing = @ \/ a.confirmed \/ rec.confirmed,
              !.term = PersistedTerminal(found \cup ({a.term} \ {NoRecord}))]

\* confirmMissingCancellation
Confirmed(a) == IF a.missing THEN [a EXCEPT !.confirmed = TRUE] ELSE a

\* #invalidatePendingSettlement
Invalidated(a) == [a EXCEPT !.evidence = TRUE, !.pending = NoInspection]

\* #settleUncertainAttempt up to the settlement it awaits: w goes on at pc.
Replaces(a, x) ==
    \/ a.pending = NoInspection \/ (~a.cancel /\ x.out # "none")
    \/ (a.pending.out = "none" /\ a.pending.status = "none" /\ x.status # "none")
SettleAttempt(a, x, w, pc) ==
    IF ~a.tracked \/ ~Stopped(a, x) \/ (x.out = "result" /\ ~a.cancel /\ a.invalid)
    THEN att' = a /\ work' = Finish(work, w, pc, "false")
    ELSE IF Replaces(a, x)
    THEN /\ att' = [a EXCEPT !.pending = x]
         /\ work' = Awaits([work EXCEPT !["S"].fresh = FALSE], w, "S", pc)
    ELSE att' = a /\ work' = Awaits(work, w, "S", pc)
-----------------------------------------------------------------------------
(* The promises of an attempt.  A step is the code from one await to the    *)
(* next.                                                                    *)

Keep == UNCHANGED <<call, phase>> /\ HostRests
Gives(s, res) == work' = Return(work, s, res) /\ UNCHANGED <<rec, att, lock, timers>>

\* #releaseUncertainAttempt, when the settlement is done.
ReleaseAttempt ==
    /\ att' = [att EXCEPT !.tracked = FALSE, !.pending = NoInspection, !.draft = NoRecord]
    /\ lock' = FALSE /\ timers' = {}
    /\ work' = Return(Overtake(work), "S", "true")

\* A failed settlement is tried again later (#scheduleSettlementRetry).
SettlementFails ==
    /\ timers' = IF att.tracked /\ att.pending # NoInspection /\ phase # "closed"
                 THEN timers \cup {"settle"} ELSE timers
    /\ work' = Return(work, "S", "error")
    /\ UNCHANGED <<rec, att, lock>>

\* The rows are about to be read: what must be awaited first?
SettleBegin ==
    /\ Ready("S", "begin")
    /\ IF ~att.tracked THEN Gives("S", "false")
       ELSE /\ work' = IF work["M"].pc # "idle" THEN Awaits(work, "S", "M", "begin")
                       ELSE IF att.evidence THEN Awaits(work, "S", "P", "shown")
                       ELSE IF att.ids = {} THEN Awaits(work, "S", "M", "buried")
                       ELSE Goto(work, "S", "collect")
            /\ UNCHANGED <<rec, att, lock, timers>>
    /\ Keep /\ Fine

SettleShown ==
    /\ \E pc \in {"shown", "buried"} : Ready("S", pc)
    /\ IF work["S"].res = "error" THEN SettlementFails
       ELSE /\ work' = IF work["S"].pc = "shown" /\ att.ids = {} THEN Awaits(work, "S", "M", "buried")
                       ELSE Goto(work, "S", "collect")
            /\ UNCHANGED <<rec, att, lock, timers>>
    /\ Keep /\ Fine

\* The end the records are to tell: that of a confirmed cancellation, of the
\* records, of a cancellation asked for, of the inspection.
Candidate(a) ==
    [NoRecord EXCEPT
       !.status = IF a.confirmed THEN "cancelled"
                  ELSE IF a.term # NoRecord THEN a.term.status
                  ELSE IF a.cancel THEN "cancelled"
                  ELSE IF a.pending.status # "none" THEN a.pending.status
                  ELSE IF a.pending.out = "error" THEN "failed"
                  ELSE IF a.pending.out = "result" THEN "reported-completed" ELSE "unknown",
       !.late = IF a.term # NoRecord /\ ~a.confirmed THEN a.term.late ELSE a.cancel,
       !.cancel = a.cancel, !.confirmed = a.confirmed]

SettleCollect ==
    /\ Ready("S", "collect")
    /\ \/ ~att.tracked /\ Gives("S", "false") /\ Fine
       \/ att.tracked /\ Faulty /\ Blame /\ SettlementFails
       \/ /\ att.tracked /\ Fine
          /\ att' = [Collected(att) EXCEPT !.draft = Candidate(Collected(att))]
          /\ work' = IF Collected(att).confirmed THEN Goto(work, "S", "confirm")
                     ELSE IF att.pending = NoInspection THEN Return(work, "S", "false")
                     ELSE Inspects(work, "S", "write")
          /\ UNCHANGED <<rec, lock, timers>>
    /\ Keep

\* #persistCancellationConfirmation
SettleConfirm ==
    /\ Ready("S", "confirm")
    /\ \/ Faulty /\ Blame /\ SettlementFails
       \/ /\ Fine
          /\ rec' = IF Written(att) THEN [rec EXCEPT !.cancel = @ \/ att.cancel, !.confirmed = TRUE] ELSE rec
          /\ att' = [att EXCEPT !.draft = Candidate(att), !.ids = IF Written(att) THEN @ ELSE {}]
          /\ work' = IF att.pending = NoInspection \/ ~att.tracked THEN Return(work, "S", "false")
                     ELSE Inspects(work, "S", "write")
          /\ UNCHANGED <<lock, timers>>
    /\ Keep

\* The records are written: overtaken, once more for what they told, for a
\* record that was deleted, or done.
SettleWrite ==
    /\ Ready("S", "write")
    /\ \/ Faulty /\ Blame /\ SettlementFails
       \/ LET new == IF Written(att) THEN MergeTerminal(rec, att.draft) ELSE rec
              told == PersistedTerminal({new} \ {NoRecord}) IN
          /\ Fine
          /\ rec' = new
          /\ IF ~work["S"].fresh \/ ~att.tracked
             THEN work' = Return(work, "S", "false") /\ UNCHANGED <<att, lock, timers>>
             ELSE IF Written(att) /\ told # NoRecord /\ told # att.term
             THEN /\ att' = [att EXCEPT !.cancel = @ \/ new.cancel, !.term = told]
                  /\ work' = Goto(work, "S", "begin") /\ UNCHANGED <<lock, timers>>
             ELSE IF ~Written(att)
             THEN /\ att' = [att EXCEPT !.ids = {}]
                  /\ work' = Goto(work, "S", "begin") /\ UNCHANGED <<lock, timers>>
             ELSE ReleaseAttempt
    /\ Keep

\* #persistActiveEvidence: the end that was written is taken back.  (unknown
\* stands for running too, which a verified authority keeps.)
EvidenceCollect ==
    /\ Ready("P", "collect")
    /\ \/ (~att.tracked \/ ~att.evidence) /\ Gives("P", "true") /\ Fine
       \/ att.tracked /\ att.evidence /\ Faulty /\ Blame /\ Gives("P", "error")
       \/ /\ att.tracked /\ att.evidence /\ Fine
          /\ att' = Collected(att) /\ work' = Goto(work, "P", "write")
          /\ UNCHANGED <<rec, lock, timers>>
    /\ Keep

EvidenceWrite ==
    /\ Ready("P", "write")
    /\ LET invalid == att.invalid \/ att.term.status = "reported-completed"
           Of(r) == [r EXCEPT !.status = "unknown", !.late = FALSE, !.confirmed = FALSE,
                              !.cancel = @ /\ ~att.confirmed, !.invalid = @ \/ invalid] IN
       \/ Faulty /\ Blame /\ Gives("P", "error")
       \/ ~att.tracked /\ Gives("P", "true") /\ Fine
       \/ /\ att.tracked /\ Fine
          /\ rec' = IF Written(att) THEN Of(rec) ELSE rec
          /\ att' = [att EXCEPT !.term = NoRecord, !.invalid = invalid, !.cancel = @ /\ ~att.confirmed,
                                !.confirmed = FALSE, !.missing = FALSE, !.evidence = FALSE,
                                !.ids = IF Written(att) THEN @ ELSE {}]
          /\ work' = Return(work, "P", "true")
          /\ UNCHANGED <<lock, timers>>
    /\ Keep

\* #persistCancellationFence
FenceCollect ==
    /\ Ready("C", "collect")
    /\ \/ ~att.tracked /\ Gives("C", "false") /\ Fine
       \/ att.tracked /\ Faulty /\ Blame /\ Gives("C", "error")
       \/ /\ att.tracked /\ Fine
          /\ att' = Collected(att) /\ work' = Goto(work, "C", "write")
          /\ UNCHANGED <<rec, lock, timers>>
    /\ Keep

FenceWrite ==
    /\ Ready("C", "write")
    /\ \/ att.tracked /\ Faulty /\ Blame /\ Gives("C", "error")
       \/ ~att.tracked /\ Gives("C", "false") /\ Fine
       \/ /\ att.tracked /\ Fine
          /\ rec' = IF Written(att) THEN [rec EXCEPT !.cancel = @ \/ att.cancel] ELSE rec
          /\ att' = IF Written(att) THEN att ELSE [att EXCEPT !.ids = {}]
          /\ work' = IF Written(att) THEN Return(work, "C", "true") ELSE Awaits(work, "C", "M", "buried")
          /\ UNCHANGED <<lock, timers>>
    /\ Keep

FenceBuried ==
    /\ Ready("C", "buried") /\ Gives("C", work["C"].res) /\ Keep /\ Fine

\* #persistDeletedAttemptTombstone: one that exists is found again.
TombstoneLook ==
    /\ Ready("M", "look")
    /\ \/ Faulty /\ Blame /\ Gives("M", "error")
       \/ ~att.tracked /\ Gives("M", "false") /\ Fine
       \/ /\ att.tracked /\ rec.at # "none" /\ Fine
          /\ att' = [att EXCEPT !.ids = @ \cup {rec.at}] /\ work' = Return(work, "M", "true")
          /\ UNCHANGED <<rec, lock, timers>>
       \/ /\ att.tracked /\ rec.at = "none" /\ Fine
          /\ work' = Goto(work, "M", "create") /\ UNCHANGED <<rec, att, lock, timers>>
    /\ Keep

\* A creation that fails may have made the Session.
TombstoneCreate ==
    LET tomb == [NoRecord EXCEPT !.at = "tomb", !.status = "unknown", !.cancel = TRUE,
                                 !.confirmed = att.confirmed, !.invalid = att.invalid] IN
    /\ Ready("M", "create")
    /\ \/ /\ Faulty /\ Blame /\ rec' \in {rec, tomb}
          /\ work' = Return(work, "M", "error") /\ UNCHANGED <<att, lock, timers>>
       \/ /\ Fine /\ rec' = tomb
          /\ att' = IF att.tracked THEN [att EXCEPT !.ids = @ \cup {"tomb"}] ELSE att
          /\ timers' = IF att.tracked THEN timers \ {"tomb"} ELSE timers
          /\ work' = Return(work, "M", Boolean(att.tracked)) /\ UNCHANGED lock
    /\ Keep

\* #stopUncertainAttempt
StopBegin ==
    /\ Ready("H", "begin")
    /\ IF att.tracked THEN /\ att' = [att EXCEPT !.cancel = TRUE]
                           /\ work' = Awaits(work, "H", "C", "fenced")
                           /\ UNCHANGED <<rec, lock, timers>>
       ELSE Gives("H", "false")
    /\ Keep /\ Fine

StopFenced ==
    /\ Ready("H", "fenced")
    /\ IF work["H"].res = "error" THEN Gives("H", "error")
       ELSE IF ~att.tracked THEN Gives("H", "false")
       ELSE work' = Goto(work, "H", "cancel") /\ UNCHANGED <<rec, att, lock, timers>>
    /\ Keep /\ Fine

StopCancel ==
    /\ Ready("H", "cancel")
    /\ \E yes \in BOOLEAN :
         /\ CancelTurn(yes)
         /\ IF ~att.tracked THEN work' = Return(work, "H", "false") /\ UNCHANGED att
            ELSE IF ~yes THEN work' = Return(work, "H", "error") /\ UNCHANGED att
            ELSE SettleAttempt(Confirmed(att), IdleSeen, "H", "settled")
    /\ UNCHANGED <<gone, rec, lock, call, timers, phase>>

StopSettled ==
    /\ Ready("H", "settled")
    /\ Gives("H", IF work["H"].res = "true" THEN "true" ELSE "error")
    /\ Keep /\ Fine
-----------------------------------------------------------------------------
(* Inspections, by the call, an event, recovery, a timer or flush           *)

Inspector == {"delegate", "event", "recover", "settleTimer", "flush"}

\* w has done with its inspection: res says whether the attempt is settled.
Back(W, w, res) ==
    CASE w = "event" -> IF res = "error" THEN Goto(W, w, "thrown") ELSE Goto(W, w, "handled")
      [] w = "delegate" -> Finish(W, w, "judged", res)
      [] w = "recover" -> Goto(W, w, "idle")
      [] w = "settleTimer" -> Finish(W, w, "expired", res)
      [] w = "flush" -> Finish(W, w, "waited", res)

GoesBack(w, res) == work' = Back(work, w, res) /\ UNCHANGED <<rec, att, lock, timers>>

\* #markUncertainAttemptActive awaits the settlement under way.
MarkActive(w) ==
    /\ att' = Invalidated(att)
    /\ timers' = timers \ {"settle"}
    /\ work' = IF Overtake(work)["S"].pc # "idle" THEN Awaits(Overtake(work), w, "S", "active")
               ELSE Awaits(Overtake(work), w, "P", "evident")
    /\ UNCHANGED <<rec, lock>>

\* #handleMissingUncertainAttempt up to its first await.
Missing(a) == [a EXCEPT !.missing = TRUE, !.ids = @ \ {"child"}, !.cancel = TRUE]
HandleMissing(a, w) ==
    IF ~a.tracked THEN att' = a /\ work' = Back(work, w, "false")
    ELSE IF a.confirmed THEN SettleAttempt(Missing(a), IdleSeen, w, "missed")
    ELSE att' = Missing(a) /\ work' = Goto(work, w, "missing")

\* #reconcileUncertainAttempt; known: an idle event of the Session came.
\* The refresh of a pending settlement and recovery judge alike, but that
\* recovery settles an explicit idle only, and that refreshing ends in an error
\* when nothing is learned.
Judge(w, x, known) ==
    IF ~work[w].fresh THEN GoesBack(w, "false")
    ELSE IF x.state = "running" THEN MarkActive(w)
    ELSE IF x.state = "missing" THEN HandleMissing(att, w) /\ UNCHANGED <<rec, lock, timers>>
    ELSE IF x.state = "unknown" /\ known
    THEN SettleAttempt(att, IdleSeen, w, "settled") /\ UNCHANGED <<rec, lock, timers>>
    ELSE IF w = "recover" /\ x.state # "idle"
    THEN /\ work' = Back(work, w, "false") /\ lock' = TRUE
         /\ att' = [att EXCEPT !.tracked = TRUE] /\ UNCHANGED <<rec, timers>>
    ELSE IF ~Stopped(att, x)
    THEN GoesBack(w, IF w \in {"settleTimer", "flush"} THEN "error" ELSE "false")
    ELSE SettleAttempt(att, x, w, "settled") /\ UNCHANGED <<rec, lock, timers>>

Inspect(w) ==
    /\ \E pc \in {"reconcile", "known"} : Ready(w, pc)
    /\ \E x \in Seen \cup {Unknown} :
         /\ Hears(x) /\ Judge(w, x, work[w].pc = "known")
         /\ call' = IF w = "delegate" THEN [call EXCEPT !.heard = x.out] ELSE call
    /\ UNCHANGED phase /\ HostRests

Marked(w) ==
    /\ Ready(w, "active")
    /\ IF att.tracked THEN /\ work' = Awaits(work, w, "P", "evident") /\ UNCHANGED <<rec, att, lock, timers>>
       ELSE GoesBack(w, "false")
    /\ Keep /\ Fine

\* The wait for a settlement, for evidence or for a tombstone is over.
Waited(w) ==
    /\ \E pc \in {"settled", "evident", "buried"} : Ready(w, pc)
    /\ LET pc == work[w].pc
           res == work[w].res IN
       IF pc = "settled" THEN GoesBack(w, res)
       ELSE IF pc = "evident" THEN GoesBack(w, IF res = "error" THEN "error" ELSE "false")
       ELSE /\ timers' = timers \cup (IF att.tracked THEN {"cancel"} ELSE {})
                          \cup (IF res = "error" /\ att.tracked /\ att.ids = {} THEN {"tomb"} ELSE {})
            /\ work' = Back(work, w, "false") /\ UNCHANGED <<rec, att, lock>>
    /\ Keep /\ Fine

\* The lock is established again and the attempt remembered, whatever happened
\* to them meanwhile.
Retained(w) ==
    /\ lock' = TRUE
    /\ att' = [att EXCEPT !.tracked = TRUE]
    /\ work' = IF att.ids = {} THEN Awaits(work, w, "M", "buried") ELSE Goto(work, w, "untold")
    /\ UNCHANGED <<rec, timers>>

MissingCancel(w) ==
    /\ Ready(w, "missing")
    /\ \E yes \in BOOLEAN :
         /\ CancelTurn(yes)
         /\ IF yes THEN SettleAttempt(Confirmed(att), IdleSeen, w, "missed") /\ UNCHANGED <<rec, lock, timers>>
            ELSE Retained(w)
    /\ UNCHANGED <<gone, call, phase>>

Missed(w) ==
    /\ Ready(w, "missed")
    /\ IF work[w].res = "true" THEN GoesBack(w, "true")
       ELSE /\ lock' = TRUE /\ att' = [att EXCEPT !.tracked = TRUE]
            /\ work' = Back(work, w, "false") /\ UNCHANGED <<rec, timers>>
    /\ Keep /\ Fine

\* The records that are left say that the cancellation is not confirmed.
Untold(w) ==
    /\ Ready(w, "untold")
    /\ \/ Faulty /\ Blame /\ GoesBack(w, "error")
       \/ /\ Fine
          /\ rec' = IF Written(att) THEN [rec EXCEPT !.status = "unknown", !.cancel = TRUE] ELSE rec
          /\ timers' = timers \cup (IF att.tracked THEN {"cancel"} ELSE {})
          /\ work' = Back(work, w, "false") /\ UNCHANGED <<att, lock>>
    /\ Keep

-----------------------------------------------------------------------------
(* Host events: observeEvent.  An event stays when its handler throws.      *)

Popped == events' = Tail(events) /\ UNCHANGED <<host, gone>>
Dropped == Popped /\ UNCHANGED <<rec, att, lock, timers, work>>

Deleted(a) == [a EXCEPT !.missing = TRUE, !.ids = @ \ {"child"}, !.cancel = TRUE]

BeginEvent ==
    /\ work["event"].pc = "idle" /\ events # <<>> /\ phase \notin {"closed", "down"}
    /\ LET e == Head(events) IN
       IF Quiescing /\ att.tracked /\ att.fg # "pending" /\ e = "busy"
       THEN /\ att' = Invalidated(att) /\ work' = Overtake(work) /\ timers' = timers \ {"settle"}
            /\ Popped /\ UNCHANGED <<rec, lock>>
       ELSE IF Quiescing \/ ~att.tracked \/ (e # "deleted" /\ att.fg = "pending") THEN Dropped
       ELSE IF e = "deleted"
       THEN att' = Deleted(att) /\ work' = Goto(work, "event", "deleted") /\ UNCHANGED <<rec, lock, timers>> /\ HostRests
       ELSE IF e = "busy" /\ att.answered
       THEN work' = Inspects(work, "event", "late") /\ UNCHANGED <<rec, att, lock, timers>> /\ HostRests
       ELSE IF e = "busy" THEN MarkActive("event") /\ HostRests
       ELSE work' = Inspects(work, "event", "known") /\ UNCHANGED <<rec, att, lock, timers>> /\ HostRests
    /\ UNCHANGED <<call, phase>> /\ Fine

\* A busy event that comes after the answer of the turn.
LateEvent ==
    /\ Ready("event", "late")
    /\ \E x \in Seen \cup {Unknown} :
         /\ Hears(x)
         /\ IF ~work["event"].fresh \/ x.state = "idle"
            THEN work' = Goto(work, "event", "handled") /\ UNCHANGED <<rec, att, lock, timers>>
            ELSE MarkActive("event")
    /\ Keep

DeletedCancel ==
    /\ Ready("event", "deleted")
    /\ \E yes \in BOOLEAN :
         /\ CancelTurn(yes)
         /\ IF yes THEN SettleAttempt(Confirmed(att), IdleSeen, "event", "dropped")
            ELSE /\ work' = Awaits(work, "event", IF att.ids = {} THEN "M" ELSE "C", "buried")
                 /\ UNCHANGED att
    /\ UNCHANGED <<gone, rec, lock, call, timers, phase>>

EventHandled ==
    /\ \/ /\ \E pc \in {"handled", "dropped"} : Ready("event", pc)
          /\ events' = IF events = <<>> THEN events ELSE Tail(events)
       \/ Ready("event", "thrown") /\ UNCHANGED events
    /\ work' = Goto(work, "event", "idle")
    /\ UNCHANGED <<host, gone, rec, att, lock, timers, call, phase>> /\ Fine
-----------------------------------------------------------------------------
(* Timers, flush, resume, dispose, recovery                                 *)

SettleTimer ==
    /\ "settle" \in timers /\ work["settleTimer"].pc = "idle"
    /\ timers' = timers \ {"settle"}
    /\ IF ~att.tracked \/ att.pending = NoInspection THEN UNCHANGED <<att, work>>
       ELSE IF att.confirmed THEN SettleAttempt(att, att.pending, "settleTimer", "settled")
       ELSE work' = Inspects(work, "settleTimer", "reconcile") /\ UNCHANGED att
    /\ UNCHANGED <<rec, lock>> /\ Keep /\ Fine

SettleTimerEnds ==
    /\ Ready("settleTimer", "expired")
    /\ timers' = timers \cup (IF work["settleTimer"].res = "error" /\ att.tracked /\ att.pending # NoInspection
                              THEN {"settle"} ELSE {})
    /\ work' = Goto(work, "settleTimer", "idle")
    /\ UNCHANGED <<rec, att, lock>> /\ Keep /\ Fine

\* The two other timers await a shutdown or a tombstone, and are set again when
\* that fails.
Timer(t, w, s) ==
    /\ t \in timers /\ work[w].pc = "idle"
    /\ timers' = timers \ {t}
    /\ work' = IF att.tracked /\ (t = "tomb" => att.ids = {}) THEN Awaits(work, w, s, "expired") ELSE work
    /\ UNCHANGED <<rec, att, lock>> /\ Keep /\ Fine

CancelTimer == Timer("cancel", "cancelTimer", "H")
TombTimer == Timer("tomb", "tombTimer", "M")

TimerEnds ==
    \E t \in {"cancel", "tomb"} :
      LET w == IF t = "cancel" THEN "cancelTimer" ELSE "tombTimer" IN
      /\ Ready(w, "expired")
      /\ timers' = timers \cup (IF work[w].res = "error" /\ att.tracked THEN {t} ELSE {})
      /\ work' = Goto(work, w, "idle")
      /\ UNCHANGED <<rec, att, lock>> /\ Keep /\ Fine

\* requestCancellation, of the owner's signal or of a runtime that quiesces.
Cancelled(c, a, W) ==
    IF ~c.open \/ c.aborted \/ W["delegate"].pc \in {"idle", "prepare", "done"}
    THEN [c |-> c, a |-> a, W |-> W]
    ELSE IF W["delegate"].pc \in {"lock", "admit", "create"} THEN [c |-> [c EXCEPT !.aborted = TRUE], a |-> a, W |-> W]
    ELSE [c |-> [c EXCEPT !.aborted = TRUE, !.stop = IF @ = "none" THEN "asked" ELSE @],
          a |-> [a EXCEPT !.cancel = TRUE],
          W |-> IF c.stop = "none" THEN Awaits(W, "stop", "C", "fenced") ELSE W]

AbortCall ==
    /\ work["delegate"].pc \notin {"idle", "done"} /\ ~call.aborted /\ Faulty /\ Blame
    /\ IF work["delegate"].pc = "prepare" THEN call' = [call EXCEPT !.aborted = TRUE] /\ UNCHANGED <<att, work>>
       ELSE /\ call.open
            /\ LET r == Cancelled(call, att, work) IN call' = r.c /\ att' = r.a /\ work' = r.W
    /\ UNCHANGED <<rec, lock, timers, phase>> /\ HostRests

\* cancelChild
StopFences ==
    /\ Ready("stop", "fenced")
    /\ IF work["stop"].res = "error" THEN /\ call' = [call EXCEPT !.stop = "error"]
                                          /\ work' = Goto(work, "stop", "idle")
       ELSE work' = Goto(work, "stop", "cancel") /\ UNCHANGED call
    /\ HostRests /\ Fine /\ UNCHANGED <<rec, att, lock, timers, phase>>

StopsTurn ==
    /\ Ready("stop", "cancel")
    /\ \E yes \in BOOLEAN : /\ CancelTurn(yes)
                            /\ call' = [call EXCEPT !.stop = IF yes THEN "done" ELSE "error"]
    /\ work' = Goto(work, "stop", "idle")
    /\ UNCHANGED <<gone, rec, att, lock, timers, phase>>

Flush ==
    /\ Active /\ work["flush"].pc = "idle" /\ Faulty /\ Blame
    /\ phase' = "flushing"
    /\ LET r == Cancelled(call, att, Goto(work, "flush", "inflight")) IN
       call' = r.c /\ att' = r.a /\ work' = r.W
    /\ UNCHANGED <<rec, lock, timers>> /\ HostRests

\* What flush awaits of an attempt that is left.
FlushLoop ==
    /\ IF ~att.tracked THEN phase' = "flushed" /\ work' = Goto(work, "flush", "idle")
       ELSE /\ UNCHANGED phase
            /\ work' = IF work["S"].pc # "idle" THEN Awaits(work, "flush", "S", "waited")
                       ELSE IF work["P"].pc # "idle" \/ att.evidence THEN Awaits(work, "flush", "P", "waited")
                       ELSE IF att.pending # NoInspection /\ ~att.confirmed THEN Inspects(work, "flush", "reconcile")
                       ELSE IF att.pending # NoInspection THEN Goto(work, "flush", "again")
                       ELSE IF work["M"].pc # "idle" THEN Awaits(work, "flush", "M", "waited")
                       ELSE IF work["C"].pc # "idle" THEN Awaits(work, "flush", "C", "waited")
                       ELSE IF att.ids = {} THEN Awaits(work, "flush", "M", "waited")
                       ELSE Awaits(work, "flush", "H", "waited")
    /\ UNCHANGED <<rec, att, lock, timers, call>> /\ HostRests /\ Fine

\* Slip: calls in flight are not awaited.
FlushAtOnce == Ready("flush", "inflight") /\ FlushLoop

FlushBegins ==
    /\ Ready("flush", "inflight") /\ work["delegate"].pc \in {"idle", "done"} /\ work["event"].pc = "idle"
    /\ FlushLoop

FlushNext == Ready("flush", "waited") /\ work["flush"].res # "error" /\ FlushLoop

FlushAgain ==
    /\ Ready("flush", "again") /\ SettleAttempt(att, att.pending, "flush", "settled")
    /\ UNCHANGED <<rec, lock, timers>> /\ Keep /\ Fine

\* A flush that fails leaves the runtime serving.
FlushFails ==
    /\ Ready("flush", "waited") /\ work["flush"].res = "error"
    /\ phase' = "serving" /\ work' = Goto(work, "flush", "idle")
    /\ UNCHANGED <<rec, att, lock, timers, call>> /\ HostRests /\ Fine

\* resume or dispose after a flush.
Lifecycle ==
    /\ phase = "flushed"
    /\ \/ phase' = "serving" /\ UNCHANGED <<att, lock, timers>>
       \/ /\ phase' = "closed" /\ lock' = FALSE /\ timers' = {}
          /\ att' = [att EXCEPT !.tracked = FALSE]
    /\ UNCHANGED <<rec, call, work>> /\ HostRests /\ Fine

Crash ==
    /\ phase # "down" /\ Faulty
    /\ phase' = "down" /\ att' = Attempt(NoRecord) /\ lock' = FALSE /\ timers' = {}
    /\ call' = [NoCall EXCEPT !.open = work["delegate"].pc = "idle"] /\ events' = <<>>
    /\ work' = [w \in Worker |-> IF w = "delegate" /\ work[w].pc # "idle" THEN [Resting EXCEPT !.pc = "done"] ELSE Resting]
    /\ host' = IF host \in {"sent", "busy"} THEN "quiet" ELSE host
    /\ Blame
    /\ UNCHANGED <<gone, rec>>

\* recoverSession, of a new process or of a living one.
RecoverSession ==
    /\ work["recover"].pc = "idle" /\ phase # "closed"
    /\ phase' = IF phase = "down" THEN "serving" ELSE phase
    /\ troubles' = IF phase = "down" THEN troubles ELSE troubles + 1
    /\ phase = "down" \/ Faulty
    /\ work' = Goto(work, "recover", "read")
    /\ UNCHANGED <<rec, att, lock, timers, call>> /\ HostRests

\* The records are read: the attempt is forgotten until its authority is known.
\* (One that is made anew and one that a call or a timer remembers meanwhile are
\* the same attempt here.)
RecoverRead ==
    /\ Ready("recover", "read")
    /\ \/ /\ rec.at = "none" \/ att.fg # "none"
          /\ work' = Goto(work, "recover", "idle") /\ UNCHANGED att /\ Fine
       \/ Faulty /\ Blame /\ work' = Goto(work, "recover", "idle") /\ UNCHANGED att
       \/ /\ rec.at # "none" /\ att.fg = "none" /\ Fine
          /\ att' = [IF att.tracked THEN att ELSE Attempt(rec) EXCEPT
                        !.tracked = FALSE, !.ids = {rec.at}, !.cancel = rec.cancel,
                        !.confirmed = @ \/ rec.confirmed,
                        !.missing = @ \/ rec.confirmed,
                        !.invalid = rec.invalid, !.term = PersistedTerminal({rec})]
          /\ work' = Goto(work, "recover", "authority")
    /\ UNCHANGED <<rec, lock, timers>> /\ Keep

\* The authority is verified or not: the lock is established either way.
RecoverLocks ==
    /\ Ready("recover", "authority")
    /\ att' = [att EXCEPT !.tracked = TRUE] /\ lock' = TRUE
    /\ work' = Inspects(work, "recover", "reconcile")
    /\ UNCHANGED <<rec, timers>> /\ Keep /\ Fine
-----------------------------------------------------------------------------
(* delegate                                                                 *)

\* Its end; release of a lock that is gone does nothing.
Over(outcome) == [NoCall EXCEPT !.open = FALSE, !.sent = call.sent, !.outcome = outcome]
Ends(outcome, retain) ==
    /\ call' = Over(outcome)
    /\ lock' = (lock /\ retain)
    /\ att' = [att EXCEPT !.fg = "none"]
    /\ work' = Goto(work, "delegate", "done")
    /\ UNCHANGED <<rec, timers>>

NotStarted == Ends("refused", FALSE)

Delegate ==
    /\ Active /\ work["delegate"].pc = "idle"
    /\ work' = Goto(work, "delegate", "prepare")
    /\ UNCHANGED <<rec, att, lock, timers, call, phase>> /\ HostRests /\ Fine

\* prepare, then the wait for the lock, which an abort or a flush ends.
Prepared ==
    /\ Ready("delegate", "prepare")
    /\ \/ NotStarted
       \/ Active /\ work' = Goto(work, "delegate", "lock") /\ UNCHANGED <<rec, att, lock, timers, call>>
    /\ UNCHANGED phase /\ HostRests /\ Fine

Locked ==
    /\ Ready("delegate", "lock")
    /\ IF call.aborted THEN NotStarted
       ELSE /\ lock' = TRUE /\ work' = Goto(work, "delegate", "admit")
            /\ UNCHANGED <<rec, att, timers, call>>
    /\ UNCHANGED phase /\ HostRests /\ Fine

\* Authority is validated again under the lock.
Admitted ==
    /\ Ready("delegate", "admit")
    /\ \/ NotStarted
       \/ /\ Active /\ ~call.aborted
          /\ work' = Goto(work, "delegate", "create") /\ UNCHANGED <<rec, att, lock, timers, call>>
    /\ UNCHANGED phase /\ HostRests /\ Fine

\* The child Session; a creation that fails may have made it.
Created ==
    LET child == [NoRecord EXCEPT !.at = "child", !.status = "running"] IN
    /\ Ready("delegate", "create")
    /\ \/ /\ Faulty /\ Blame /\ rec' \in {rec, child}
          /\ call' = Over("refused")
          /\ lock' = FALSE /\ work' = Goto(work, "delegate", "done") /\ UNCHANGED att
       \/ /\ Fine /\ rec' = child
          /\ att' = [Attempt(child) EXCEPT !.tracked = TRUE, !.fg = "pending"]
          /\ work' = Goto(work, "delegate", "after") /\ UNCHANGED <<lock, call>>
    /\ UNCHANGED <<timers, phase>> /\ HostRests

\* cancelChild is asked once; the call awaits its answer.
StopsChild ==
    /\ call' = [call EXCEPT !.stop = IF @ = "none" THEN "asked" ELSE @]
    /\ work' = IF call.stop = "none" THEN Awaits(Goto(work, "delegate", "stopping"), "stop", "C", "fenced")
               ELSE Goto(work, "delegate", "stopping")
    /\ UNCHANGED <<rec, lock, timers>>

\* What the catch block does with what it learned, c: retained, or settled.
Conclude(c) ==
    LET known == IF att.tracked THEN [att EXCEPT !.fg = "reconciling"]
                 ELSE Attempt([NoRecord EXCEPT !.at = "child", !.status = "running"])
        a == [known EXCEPT !.cancel = @ \/ c.aborted \/ c.missing, !.missing = @ \/ c.missing,
                           !.ids = IF c.missing THEN @ \ {"child"} ELSE @] IN
    /\ call' = c
    /\ IF c.retain
       THEN att' = a /\ work' = Goto(work, "delegate", "retained")
       ELSE SettleAttempt(a, IF ~c.aborted /\ c.answer = "result" THEN [IdleSeen EXCEPT !.out = "result"]
                      ELSE [IdleSeen EXCEPT !.status = c.status], "delegate", "closing")
    /\ UNCHANGED <<rec, lock, timers>>

\* The catch block up to its first await; err is what was thrown.
Caught(err) ==
    LET a == [att EXCEPT !.fg = "reconciling"]
        cancelled == [a EXCEPT !.cancel = TRUE] IN
    IF err = "after"
    THEN /\ att' = cancelled /\ work' = Awaits(work, "delegate", "C", "undispatched")
         /\ UNCHANGED <<rec, lock, timers, call>>
    ELSE IF err = "disposing" /\ att.tracked
    THEN /\ att' = cancelled /\ work' = Awaits(work, "delegate", "C", "predispatch")
         /\ UNCHANGED <<rec, lock, timers, call>>
    ELSE IF err = "disposing" THEN Ends("failed", FALSE)
    ELSE IF err = "uncertain" \/ (att.tracked /\ att.pending # NoInspection) THEN Ends("uncertain", TRUE)
    ELSE IF err = "failed" THEN Ends("failed", FALSE)
    ELSE IF call.aborted
    THEN att' = a /\ StopsChild
    ELSE IF call.answer # "result"
    THEN att' = a /\ work' = Inspects(work, "delegate", "inspect") /\ UNCHANGED <<rec, lock, timers, call>>
    ELSE Conclude([call EXCEPT !.status = "reported-completed"])

\* afterCreateAttempt and onSession have been called.
Attended ==
    /\ \E pc \in {"after", "session"} : Ready("delegate", pc)
    /\ LET first == work["delegate"].pc = "after" IN
       \/ first /\ Caught("after")
       \/ ~Active /\ Caught("disposing")
       \/ /\ Active /\ first
          /\ att' = [att EXCEPT !.cancel = @ \/ call.aborted]
          /\ work' = Goto(work, "delegate", "session") /\ UNCHANGED <<rec, lock, timers, call>>
       \/ Active /\ ~first /\ call.aborted /\ StopsChild /\ UNCHANGED att
       \/ /\ Active /\ ~first /\ ~call.aborted
          /\ work' = Goto(work, "delegate", "revalidate") /\ UNCHANGED <<rec, att, lock, timers, call>>
    /\ UNCHANGED phase /\ HostRests /\ Fine

\* Authority is validated once more and the turn is sent.
Sent ==
    /\ Ready("delegate", "revalidate")
    /\ \/ Caught("other") /\ UNCHANGED host
       \/ ~Active /\ Caught("disposing") /\ UNCHANGED host
       \/ /\ Active /\ ~call.aborted
          /\ host' = "sent" /\ call' = [call EXCEPT !.sent = TRUE]
          /\ work' = Goto(work, "delegate", "turn") /\ UNCHANGED <<rec, att, lock, timers>>
    /\ UNCHANGED <<gone, events, phase>> /\ Fine

\* The turn is answered, by what it ended with, or the request fails.
Answered ==
    /\ Ready("delegate", "turn") /\ host \in {"result", "error", "quiet"}
    /\ LET a == [att EXCEPT !.answered = TRUE, !.fg = "none"]
           c == [call EXCEPT !.answer = host] IN
       IF call.aborted
       THEN /\ att' = a /\ call' = c
            /\ work' = Goto(work, "delegate", "stopping") /\ UNCHANGED <<rec, lock, timers>>
       ELSE IF host = "quiet"
       THEN att' = a /\ lock' = lock /\ work' = Goto(work, "delegate", "done")
            /\ call' = Over("uncertain") /\ UNCHANGED <<rec, timers>>
       ELSE /\ SettleAttempt(a, [IdleSeen EXCEPT !.out = host], "delegate", "reported")
            /\ call' = [c EXCEPT !.open = FALSE] /\ UNCHANGED <<rec, lock, timers>>
    /\ UNCHANGED phase /\ HostRests /\ Fine

Rejected ==
    /\ Ready("delegate", "turn")
    /\ \/ call.aborted /\ Fine
       \/ host \in {"busy", "result", "error"} /\ Faulty /\ Blame
       \/ host = "quiet" /\ Fine
    /\ Caught("other")
    /\ UNCHANGED phase /\ HostRests

\* Slip: a settlement that was overtaken is taken for one.
ReportedAnyway ==
    /\ Ready("delegate", "reported")
    /\ IF work["delegate"].res = "error" THEN Caught("other")
       ELSE Ends(IF call.answer = "result" THEN "completed" ELSE "failed", FALSE)
    /\ UNCHANGED phase /\ HostRests /\ Fine

\* The answer is settled: the caller is told.
Reported ==
    /\ Ready("delegate", "reported")
    /\ IF work["delegate"].res = "error" THEN Caught("other")
       ELSE IF work["delegate"].res = "false" THEN Ends("uncertain", TRUE)
       ELSE Ends(IF call.answer = "result" THEN "completed" ELSE "failed", FALSE)
    /\ UNCHANGED phase /\ HostRests /\ Fine

\* An attempt that was never dispatched is cancelled and settled.
Undispatched ==
    /\ Ready("delegate", "undispatched")
    /\ \/ /\ work["delegate"].res = "error" /\ Ends("uncertain", TRUE)
          /\ HostRests /\ Fine
       \/ /\ work["delegate"].res # "error"
          /\ \E yes \in BOOLEAN :
               /\ CancelTurn(yes) /\ UNCHANGED gone
               /\ IF yes THEN /\ SettleAttempt(att, [IdleSeen EXCEPT !.status = "cancelled"], "delegate", "unmade")
                              /\ UNCHANGED <<rec, lock, timers, call>>
                  ELSE Ends("uncertain", TRUE)
    /\ UNCHANGED phase

Predispatch ==
    /\ Ready("delegate", "predispatch")
    /\ IF work["delegate"].res = "error" THEN Ends("failed", TRUE)
       ELSE SettleAttempt(att, IdleSeen, "delegate", "unsent") /\ UNCHANGED <<rec, lock, timers, call>>
    /\ UNCHANGED phase /\ HostRests /\ Fine

Unsent ==
    /\ \E pc \in {"unmade", "unsent"} : Ready("delegate", pc)
    /\ LET res == work["delegate"].res IN
       IF res = "true" THEN Ends("failed", FALSE)
       ELSE Ends(IF res = "error" /\ work["delegate"].pc = "unsent" THEN "failed" ELSE "uncertain", TRUE)
    /\ UNCHANGED phase /\ HostRests /\ Fine

\* Slip: a cancellation that was not acknowledged counts.
StoppingAnyway ==
    /\ Ready("delegate", "stopping") /\ call.stop \in {"done", "error"}
    /\ Conclude([call EXCEPT !.status = "cancelled"])
    /\ UNCHANGED phase /\ HostRests /\ Fine

\* cancelChild has answered.
Stopping ==
    /\ Ready("delegate", "stopping") /\ call.stop \in {"done", "error"}
    /\ IF att.fg # "reconciling" /\ att.tracked /\ att.pending # NoInspection THEN Ends("uncertain", TRUE)
       ELSE IF call.stop = "done" THEN Conclude([call EXCEPT !.status = "cancelled"])
       ELSE Conclude([call EXCEPT !.status = "unknown", !.retain = TRUE, !.uncertain = TRUE])
    /\ UNCHANGED phase /\ HostRests /\ Fine

\* The catch block inspects the turn; a delegation that only reads is not
\* uncertain when the turn is over without a result.
InspectOwn ==
    LET uncertain == [call EXCEPT !.status = "unknown", !.uncertain = TRUE]
        retained == [uncertain EXCEPT !.retain = TRUE] IN
    /\ Ready("delegate", "inspect")
    /\ \E x \in Seen \cup {Unknown} :
         /\ Hears(x)
         /\ IF ~work["delegate"].fresh
            THEN IF att.tracked THEN Conclude([retained EXCEPT !.over = TRUE]) ELSE Ends("failed", FALSE)
            ELSE IF x.out = "error" THEN Conclude([call EXCEPT !.status = "failed"])
            ELSE IF x.out = "result" THEN Conclude([call EXCEPT !.status = "reported-completed", !.answer = "result"])
            ELSE IF x.state \in {"unknown", "running"} THEN Conclude(retained)
            ELSE \/ Conclude([call EXCEPT !.status = "failed"])
                 \/ Conclude(IF x.state = "missing" THEN [retained EXCEPT !.missing = TRUE] ELSE uncertain)
                 \/ x.state # "missing" /\ Conclude(retained)
    /\ UNCHANGED phase /\ HostRests

\* The lock is kept: the record says so if it can, and the turn is inspected
\* again.
RetainedLock ==
    LET a == [att EXCEPT !.tracked = TRUE]
        more == IF call.aborted /\ ~call.missing THEN {"cancel"} ELSE {} IN
    /\ Ready("delegate", "retained")
    /\ \/ /\ rec.at = "child" /\ Fine
          /\ rec' = [rec EXCEPT !.status = call.status, !.cancel = @ \/ att.cancel]
       \/ rec.at # "child" /\ UNCHANGED rec /\ Fine
       \/ UNCHANGED rec /\ Faulty /\ Blame
    /\ timers' = timers \cup more
    /\ IF call.over THEN att' = a /\ work' = Finish(work, "delegate", "judged", "false")
       ELSE IF call.missing THEN HandleMissing(a, "delegate")
       ELSE att' = a /\ work' = Inspects(work, "delegate", "reconcile")
    /\ UNCHANGED <<lock, call, phase>> /\ HostRests

\* What the caller is told in the end.
Tells(c, retain) ==
    IF ~c.aborted /\ c.answer = "result" THEN Ends("completed", retain)
    ELSE Ends(IF c.uncertain THEN "uncertain" ELSE "failed", retain)

Judged ==
    /\ Ready("delegate", "judged")
    /\ LET res == work["delegate"].res
           c == IF res = "true" /\ call.heard # "none"
                THEN [call EXCEPT !.answer = call.heard, !.uncertain = FALSE] ELSE call IN
       IF res = "error" THEN Ends("failed", TRUE) ELSE Tells(c, res # "true")
    /\ UNCHANGED phase /\ HostRests /\ Fine

Closing ==
    /\ Ready("delegate", "closing")
    /\ IF work["delegate"].res = "true" THEN Tells(call, FALSE) ELSE Ends("uncertain", TRUE)
    /\ UNCHANGED phase /\ HostRests /\ Fine
-----------------------------------------------------------------------------
(* The host: the turn in the child Session.                                 *)

MemoryRests == UNCHANGED <<att, lock, call, work, timers, phase>>
Tell(kind) == IF Listens THEN Emits(kind) ELSE UNCHANGED events

HostBegins ==
    /\ host = "sent" /\ ~gone
    /\ host' = "busy" /\ Tell("busy")
    /\ UNCHANGED <<gone, rec>> /\ MemoryRests /\ Fine

HostEnds ==
    /\ host = "busy"
    /\ host' \in {"result", "error", "quiet"} /\ Tell("idle")
    /\ UNCHANGED <<gone, rec>> /\ MemoryRests /\ Fine

HostRefuses ==
    /\ host = "sent" /\ (gone \/ Faulty)
    /\ IF gone THEN Fine ELSE Blame
    /\ host' = "quiet" /\ UNCHANGED <<gone, events, rec>> /\ MemoryRests

\* The user deletes the child Session, and the record in it.
HostDeletes ==
    /\ work["delegate"].pc \notin {"idle", "prepare", "lock", "admit", "create"}
    /\ ~gone /\ Faulty /\ Blame
    /\ gone' = TRUE
    /\ host' = IF host \in {"busy", "result", "error"} THEN "quiet" ELSE host
    /\ rec' = IF rec.at = "child" THEN NoRecord ELSE rec
    /\ Tell("deleted") /\ MemoryRests
-----------------------------------------------------------------------------
\* A coroutine whose promise is resolved goes on before the process turns to
\* the next answer of the store or the host, event or timer.
Continuation == {"begin", "shown", "buried", "fenced", "settled", "active", "evident", "missed",
                 "handled", "dropped", "thrown", "expired", "waited", "again", "reported",
                 "predispatch", "unsent", "unmade", "judged", "closing"}
Continues == \E w \in Worker : work[w].on = "none" /\ work[w].pc \in Continuation

Microtask ==
    \/ SettleBegin \/ SettleShown \/ FenceBuried \/ StopBegin \/ StopFenced \/ StopSettled
    \/ \E w \in Inspector : Marked(w) \/ Waited(w) \/ Missed(w)
    \/ EventHandled \/ SettleTimerEnds \/ TimerEnds \/ StopFences
    \/ FlushNext \/ FlushAgain \/ FlushFails
    \/ Reported \/ Predispatch \/ Unsent \/ Judged \/ Closing

Promise ==
    \/ SettleCollect \/ SettleConfirm \/ SettleWrite \/ EvidenceCollect \/ EvidenceWrite
    \/ FenceCollect \/ FenceWrite \/ TombstoneLook \/ TombstoneCreate \/ StopCancel

Caller ==
    \/ Prepared \/ Locked \/ Admitted \/ Created \/ Attended \/ Sent \/ Answered \/ Rejected
    \/ Undispatched \/ Stopping \/ InspectOwn \/ RetainedLock

Others ==
    \/ \E w \in Inspector : Inspect(w) \/ MissingCancel(w) \/ Untold(w)
    \/ BeginEvent \/ LateEvent \/ DeletedCancel \/ StopsTurn \/ RecoverRead \/ RecoverLocks
    \/ SettleTimer \/ CancelTimer \/ TombTimer \/ FlushBegins

Host == HostBegins \/ HostEnds \/ HostRefuses \/ HostDeletes

\* The settlement timer, back from cancelTurn, remembers an attempt that others
\* have settled meanwhile.
Revives ==
    /\ work["settleTimer"].pc \in {"missing", "missed"} /\ work'["settleTimer"].pc # work["settleTimer"].pc
    /\ ~att.tracked /\ att'.tracked

AttemptNext ==
    /\ \/ Continues /\ Microtask
       \/ ~Continues /\ phase # "down" /\ (Promise \/ Caller \/ Others)
       \/ ~Continues /\ (Host \/ Delegate \/ AbortCall \/ Flush \/ Lifecycle \/ Crash \/ RecoverSession)
    /\ meddled' = (/\ phase' \in {"flushed", "closed"}
                   /\ meddled \/ work'["recover"].pc # "idle" \/ Revives)

AttemptSpec == AttemptInit /\ [][AttemptNext]_attemptVars
-----------------------------------------------------------------------------
(* Properties                                                               *)

\* While the turn of the child Session may be working, its scopes stay locked:
\* no settlement, cancellation or timer gives them away, whoever of the call,
\* an event, a timer and flush comes first.  (A deleted Session runs no turn,
\* and a new process locks when it recovers.)
LockCovers == host \in {"sent", "busy"} /\ ~gone /\ phase \notin {"closed", "down"} => lock

\* A flush that returns leaves no attempt and no lock behind, whatever the runtime
\* went through before, recoveries and crashes too, and none comes back after it
\* but by the hand of a recovery that was under way when it returned, or came
\* later, or of a settlement timer that finds the child Session missing.
FlushedIsSettled == phase \in {"flushed", "closed"} /\ ~meddled => ~att.tracked /\ ~lock

\* The caller is told of a completed turn when the record tells it too, whoever
\* settles the attempt and even while it is recovered.  (A deleted Session takes
\* the record with it.)
AnswerOnRecord ==
    [][call'.outcome = "completed" /\ call.outcome # "completed"
         => gone \/ rec.status = "reported-completed"]_attemptVars

=============================================================================
