----------------------- MODULE DelegationAnswerProofs -----------------------
(***************************************************************************)
(* What the caller of a delegation is told, for any number of              *)
(* disturbances: a completed turn it hears of is on record.  The invariant *)
(* is Hope, what holds as long as the caller may be told of a result, over *)
(* those of DelegationAttemptProofs.                                       *)
(***************************************************************************)
EXTENDS DelegationAttemptProofs

-----------------------------------------------------------------------------
(* What the caller may still be told of a result                            *)

\* The call may still hear of the result of its turn: nobody has asked for a
\* cancellation and the turn has not come to another end.
Hopeful == ~gone /\ ~call.aborted /\ host \in {"sent", "busy", "result"} /\ At("delegate") # "done"

\* The attempt, its record and its workers know no other end than the result.
Evidence == {"none", "running", "unknown", "reported-completed"}
HopeAttempt(a) ==
    /\ a.ids = {"child"} /\ ~a.confirmed /\ ~a.missing /\ ~a.cancel
    /\ a.pending.status = "none" /\ a.pending.out \in {"none", "result"}
    /\ a.term.status \in Evidence /\ a.draft.status \in Evidence /\ ~a.draft.cancel /\ ~a.draft.confirmed
HopeRecord(r) == r.at = "child" /\ ~r.cancel /\ ~r.confirmed /\ r.status \in Evidence
HopeData ==
    /\ HopeAttempt(att) /\ HopeRecord(rec) /\ ~call.missing
    /\ events \in Seq({"busy", "idle"}) /\ timers \subseteq {"settle"}

HopePc(w, pc) ==
    /\ w \in {"stop", "C", "M", "H", "cancelTimer", "tombTimer"} => pc = "idle"
    /\ w = "S" => pc \in {"idle", "begin", "shown", "collect", "write"}
    /\ w = "P" => pc \in {"idle", "collect", "write"}
    /\ w = "event" => pc \in {"idle", "late", "known", "active", "evident", "settled", "handled", "thrown"}
    /\ w = "recover" => pc \in {"idle", "read", "authority", "reconcile", "active", "evident", "settled"}
    /\ w = "settleTimer" => pc \in {"idle", "reconcile", "active", "evident", "settled", "expired"}
    /\ w = "flush" => pc \in {"idle", "inflight"}
    /\ w = "delegate" => pc \in {"turn", "inspect", "retained", "reconcile", "active", "evident", "settled",
                                 "judged", "reported", "closing"}
HopeWork(W) == \A w \in Worker : W[w].on \in {"none", "S", "P"} /\ HopePc(w, W[w].pc)

HopeCall ==
    /\ At("delegate") = "retained" => call.status = "unknown"
    /\ At("delegate") \in {"turn", "inspect", "reported"} => ~call.retain
    /\ At("delegate") \notin {"reported", "closing"} => call.answer # "result"
    /\ At("delegate") \in {"reported", "closing", "settled"} => host = "result"

\* A settlement that is not overtaken writes the answer it is to settle; nobody
\* but a recovery has forgotten the attempt meanwhile, and the call awaits it.
Forsaken ==
    /\ At("recover") = "authority"
    /\ At("delegate") \in {"turn", "inspect", "reported"} => work["delegate"].on = "S"
SettlesRight(x, a) ==
    /\ x.pc # "idle" => a.tracked \/ Forsaken
    /\ x.pc = "write" /\ x.fresh =>
         a.pending # NoInspection /\ (a.pending.out = "result" => a.draft.status = "reported-completed")

\* What the call is told to be settled is on record.
ToldRight(x, r) ==
    /\ x.pc \in {"reported", "closing", "settled"} =>
         x.on \in {"none", "S"} /\ (x.on = "none" => x.res \in {"true", "false", "error"})
    /\ x.pc = "judged" => x.on = "none"
    /\ x.pc \in {"reported", "closing", "settled", "judged"} /\ x.on = "none" /\ x.res = "true"
         => r.status = "reported-completed"

\* The settlement that the call awaits is that of its answer, or an event has
\* overtaken it, so that it will not be told to be settled.
Owed(W, a) ==
    /\ \A w \in Worker : W[w].on = "S" => W["S"].pc # "idle"
    /\ W["delegate"].pc \in {"reported", "closing", "settled"} /\ W["delegate"].on = "S" =>
         \/ a.pending.out = "result"
         \/ a.pending = NoInspection /\ phase = "flushing" /\ ~W["event"].fresh
         \/ a.pending = NoInspection /\ W["event"].pc = "active" /\ W["event"].on = "S"

Hoping ==
    /\ HopeData /\ HopeWork(work) /\ HopeCall
    /\ SettlesRight(work["S"], att) /\ ToldRight(work["delegate"], rec) /\ Owed(work, att)
Hope == Hopeful => Hoping

\* Before the turn is sent nothing speaks of another end.
FreshRight ==
    /\ At("delegate") \in BeforeChild \cup BeforeTurn => ~call.retain
    /\ At("delegate") \in BeforeTurn /\ ~gone /\ ~call.aborted => ~att.cancel /\ ~rec.cancel /\ att.draft = NoRecord

\* What the call has heard of the turn is what it came to.
HeardRight ==
    /\ (call.answer = "result" \/ call.heard = "result") /\ ~gone => host = "result"
    /\ At("delegate") = "reported" => ~call.aborted /\ ~call.open

\* A recovery that has forgotten the attempt has not remembered it yet.
Recovers == Forsaken => Forsaken'

\* A call that has its turn to hear of owns the attempt.
TurnOwned == Hopeful /\ At("delegate") \in {"turn", "inspect"} => att.fg # "none"

\* Who is who.
LEMMA HopeWorkers ==
    /\ "S" \in Worker /\ "P" \in Worker
    /\ "delegate" \in Worker \ {"S", "P"} /\ "event" \in Worker \ {"S", "P", "delegate"}
    /\ "recover" \in Worker \ {"S", "P", "delegate", "event"} /\ "settleTimer" \in Worker \ {"S", "P", "delegate", "event"}
    /\ "flush" \in Worker \ {"S", "P", "delegate", "event"}
  BY DEF Worker

\* The call c is what has become of the call: it goes on, ...
Grows(c) ==
    /\ c.aborted = call.aborted \/ (c.aborted /\ (call.open \/ At("delegate") = "prepare"))
    /\ c.open => call.open
    /\ c.outcome = call.outcome
    /\ c.answer = "result" => call.answer = "result" \/ host = "result"
    /\ c.heard = "result" => call.heard = "result" \/ host = "result"
    /\ c.retain => call.retain \/ Later(work')

\* ... or it ends, by telling its caller of a completed turn or not.
Completes ==
    /\ work["delegate"].on = "none"
    /\ \/ /\ At("delegate") = "reported" /\ call.answer = "result"
          /\ work["delegate"].res \notin {"error", "false"}
       \/ /\ At("delegate") = "closing" /\ ~call.aborted /\ call.answer = "result"
          /\ work["delegate"].res = "true"
       \/ /\ At("delegate") = "judged" /\ ~call.aborted
          /\ call.answer = "result" \/ (call.heard = "result" /\ work["delegate"].res = "true")
Ending == \E outcome \in Outcomes :
            /\ call' = Over(outcome) /\ At("delegate")' = "done"
            /\ outcome = "completed" => Completes

\* A call that is left alone goes on, and so does one that is only stopped or
\* judged.
LEMMA GrowsIs ==
    ASSUME call \in Calls
    PROVE  /\ Grows(call)
           /\ \A x : Grows([call EXCEPT !.stop = x])
           /\ \A x \in Statuses : Grows([call EXCEPT !.status = x]) /\ [call EXCEPT !.status = x] \in Calls
  BY DEF Grows, Calls

\* A call that ends has completed its turn when it says so.
LEMMA EndsEnding ==
    ASSUME TypeOK, NEW outcome \in Outcomes, NEW retain \in BOOLEAN, Ends(outcome, retain),
           outcome = "completed" => Completes
    PROVE  Ending
<1>1. call' = Over(outcome) /\ work'["delegate"].pc = "done"
  BY EndsIs
<1> QED
  BY <1>1 DEF Ending, At

\* An error, ...
LEMMA CaughtMoves ==
    ASSUME TypeOK, NEW err, Caught(err)
    PROVE  Grows(call') \/ Ending
<1>c. call \in Calls
  BY DEF TypeOK
<1>1. CASE call' = call
  BY <1>1, <1>c, GrowsIs
<1>2. ASSUME NEW outcome \in {"failed", "uncertain"}, NEW retain \in BOOLEAN, Ends(outcome, retain)
      PROVE  Ending
  BY <1>2, EndsEnding DEF Outcomes
<1>3. CASE StopsChild
  <2>1. call' = [call EXCEPT !.stop = IF call.stop = "none" THEN "asked" ELSE call.stop]
    BY <1>3, StopsChildIs
  <2> QED
    BY <1>c, <2>1, GrowsIs
<1>4. CASE Conclude([call EXCEPT !.status = "reported-completed"])
  <2>1. call' = [call EXCEPT !.status = "reported-completed"]
    BY <1>4 DEF Conclude
  <2>2. "reported-completed" \in Statuses
    BY DEF Statuses
  <2> QED
    BY <1>c, <2>1, <2>2, GrowsIs
<1> HIDE DEF StopsChild, Conclude, Ends
<1> QED
  BY <1>1, <1>2, <1>3, <1>4 DEF Caught

\* ... what is concluded from it ...
LEMMA ConcludeMoves ==
    ASSUME TypeOK, NEW c \in Calls, Conclude(c), c.aborted = call.aborted, c.open = call.open,
           c.outcome = call.outcome, c.heard = call.heard,
           c.answer = "result" => call.answer = "result" \/ host = "result"
    PROVE  Grows(call')
<1>1. call' = c
  BY DEF Conclude
<1>2. Later(work')
  BY LaterConclude DEF Leaves
<1> QED
  BY <1>1, <1>2 DEF Grows

\* ... and an inspection let the call go on or end.
LEMMA InspectOwnMoves ==
    ASSUME TypeOK, InspectOwn
    PROVE  Grows(call') \/ Ending
<1>c. call \in Calls
  BY DEF TypeOK
<1> DEFINE u == [call EXCEPT !.status = "unknown", !.uncertain = TRUE]
           r == [u EXCEPT !.retain = TRUE]
           s == [r EXCEPT !.over = TRUE]
           m == [r EXCEPT !.missing = TRUE]
           f == [call EXCEPT !.status = "failed"]
           d == [call EXCEPT !.status = "reported-completed", !.answer = "result"]
           Kin(c) == /\ c \in Calls /\ c.aborted = call.aborted /\ c.open = call.open
                     /\ c.outcome = call.outcome /\ c.heard = call.heard
<1>1. /\ Kin(u) /\ u.answer = call.answer /\ Kin(f) /\ f.answer = call.answer
      /\ Kin(d)
  BY <1>c DEF Calls, Statuses
<1>2. Kin(r) /\ r.answer = call.answer
  <2> HIDE DEF u
  <2> QED
    BY <1>1 DEF Calls
<1>3. Kin(s) /\ s.answer = call.answer /\ Kin(m) /\ m.answer = call.answer
  <2> HIDE DEF r
  <2> QED
    BY <1>2 DEF Calls
<1> HIDE DEF u, r, s, m, f, d
<1>4. PICK x \in Seen \cup {Unknown} :
        /\ Hears(x)
        /\ \/ Conclude(s) \/ Ends("failed", FALSE) \/ Conclude(f) \/ Conclude(r) \/ Conclude(m) \/ Conclude(u)
           \/ x.out = "result" /\ Conclude(d)
  <2> HIDE DEF Conclude, Ends
  <2> QED
    BY DEF InspectOwn, u, r, s, m, f, d
<1>5. x.out = "result" => host = "result"
  <2>1. Unknown.out = "none"
    BY DEF Unknown, NoInspection
  <2> QED
    BY <2>1, SeenType DEF TypeOK
<1> HIDE DEF Conclude, Ends
<1> QED
  BY <1>1, <1>2, <1>3, <1>4, <1>5, ConcludeMoves, EndsEnding DEF Outcomes

\* What the steps of the call make of it.
LEMMA CallerMoves ==
    ASSUME TypeOK, Caller \/ Reported \/ Predispatch \/ Unsent \/ Judged \/ Closing
    PROVE  Grows(call') \/ Ending
<1>c. call \in Calls
  BY DEF TypeOK
<1>1. ASSUME call' = call PROVE Grows(call')
  BY <1>1, <1>c, GrowsIs
<1>2. ASSUME NEW outcome \in {"refused", "failed", "uncertain"}, NEW retain \in BOOLEAN, Ends(outcome, retain)
      PROVE  Ending
  BY <1>2, EndsEnding DEF Outcomes
<1>3. ASSUME NotStarted PROVE Ending
  BY <1>2, <1>3 DEF NotStarted
<1>4. ASSUME NEW outcome \in {"refused", "uncertain"}, call' = Over(outcome), work' = Goto(work, "delegate", "done")
      PROVE  Ending
  <2>1. work'["delegate"].pc = "done" /\ outcome \in Outcomes
    BY <1>4, GoesOn, Workers DEF TypeOK, Outcomes
  <2> QED
    BY <1>4, <2>1 DEF Ending, At
<1>5. ASSUME NEW x \in Statuses, Conclude([call EXCEPT !.status = x]) PROVE Grows(call')
  BY <1>5, <1>c, GrowsIs DEF Conclude
<1>6. ASSUME StopsChild PROVE Grows(call')
  <2>1. call' = [call EXCEPT !.stop = IF call.stop = "none" THEN "asked" ELSE call.stop]
    BY <1>6, StopsChildIs
  <2> QED
    BY <1>c, <2>1, GrowsIs
<1>7. ASSUME Prepared \/ Locked \/ Admitted PROVE Grows(call') \/ Ending
  <2> HIDE DEF NotStarted
  <2> QED
    BY <1>1, <1>3, <1>7 DEF Prepared, Locked, Admitted
<1>8. ASSUME Created PROVE Grows(call') \/ Ending
  BY <1>1, <1>4, <1>8 DEF Created
<1>9. ASSUME Attended PROVE Grows(call') \/ Ending
  <2> HIDE DEF StopsChild, Caught
  <2> QED
    BY <1>1, <1>6, <1>9, CaughtMoves DEF Attended
<1>10. ASSUME Sent PROVE Grows(call') \/ Ending
  <2>1. call' = [call EXCEPT !.sent = TRUE] => Grows(call')
    BY <1>c DEF Grows, Calls
  <2> HIDE DEF Caught
  <2> QED
    BY <1>10, <2>1, CaughtMoves DEF Sent
<1>11. ASSUME Answered PROVE Grows(call') \/ Ending
  <2> DEFINE c == [call EXCEPT !.answer = host]
  <2>1. c \in Calls /\ Grows(c) /\ Grows([c EXCEPT !.open = FALSE])
    BY <1>11, <1>c DEF Answered, Grows, Calls
  <2> HIDE DEF c
  <2>2. \/ call' = c \/ call' = [c EXCEPT !.open = FALSE]
        \/ work' = Goto(work, "delegate", "done") /\ call' = Over("uncertain")
    BY <1>11 DEF Answered, c
  <2> QED
    BY <1>4, <2>1, <2>2
<1>12. ASSUME Rejected PROVE Grows(call') \/ Ending
  <2> HIDE DEF Caught
  <2> QED
    BY <1>12, CaughtMoves DEF Rejected
<1>13. ASSUME Undispatched \/ Predispatch \/ Unsent PROVE Grows(call') \/ Ending
  <2> HIDE DEF Ends, SettleAttempt, CancelTurn
  <2> QED
    BY <1>1, <1>2, <1>13 DEF Undispatched, Predispatch, Unsent
<1>14. ASSUME Stopping PROVE Grows(call') \/ Ending
  <2> DEFINE c == [call EXCEPT !.status = "unknown", !.retain = TRUE, !.uncertain = TRUE]
  <2>1. /\ c \in Calls /\ c.aborted = call.aborted /\ c.open = call.open /\ c.outcome = call.outcome
        /\ c.heard = call.heard /\ c.answer = call.answer
    BY <1>c DEF Calls, Statuses
  <2> HIDE DEF c, Conclude, Ends
  <2>2. Ends("uncertain", TRUE) \/ Conclude([call EXCEPT !.status = "cancelled"]) \/ Conclude(c)
    BY <1>14 DEF Stopping, c
  <2> QED
    BY <1>2, <1>5, <2>1, <2>2, ConcludeMoves DEF Statuses
<1>15. ASSUME RetainedLock PROVE Grows(call')
  BY <1>1, <1>15 DEF RetainedLock
<1>16. ASSUME Reported PROVE Grows(call') \/ Ending
  <2>1. CASE work["delegate"].res = "error"
    <3>1. Caught("other")
      BY <1>16, <2>1 DEF Reported
    <3> QED
      BY <3>1, CaughtMoves
  <2>2. CASE work["delegate"].res = "false"
    BY <1>2, <1>16, <2>2 DEF Reported
  <2>3. CASE work["delegate"].res \notin {"error", "false"}
    <3>1. CASE call.answer = "result"
      <4>1. Completes /\ Ends("completed", FALSE)
        BY <1>16, <2>3, <3>1 DEF Reported, Completes, Ready, At
      <4> QED
        BY <4>1, EndsEnding DEF Outcomes
    <3>2. CASE call.answer # "result"
      <4>1. Ends("failed", FALSE)
        BY <1>16, <2>3, <3>2 DEF Reported
      <4> QED
        BY <4>1, <1>2
    <3> QED
      BY <3>1, <3>2
  <2> QED
    BY <2>1, <2>2, <2>3
<1>17. ASSUME NEW c \in Calls, NEW retain \in BOOLEAN, Tells(c, retain), ~c.aborted /\ c.answer = "result" => Completes
       PROVE  Ending
  <2> HIDE DEF Ends
  <2>1. CASE ~c.aborted /\ c.answer = "result"
    <3>1. Ends("completed", retain)
      BY <1>17, <2>1 DEF Tells
    <3> QED
      BY <1>17, <2>1, <3>1, EndsEnding DEF Outcomes
  <2>2. CASE ~(~c.aborted /\ c.answer = "result")
    <3>1. \E outcome \in {"failed", "uncertain"} : Ends(outcome, retain)
      BY <1>17, <2>2 DEF Tells
    <3> QED
      BY <1>2, <3>1
  <2> QED
    BY <2>1, <2>2
<1>18. ASSUME Judged PROVE Ending
  <2> DEFINE res == work["delegate"].res
             c == IF res = "true" /\ call.heard # "none"
                  THEN [call EXCEPT !.answer = call.heard, !.uncertain = FALSE] ELSE call
  <2>1. c \in Calls
    <3> DEFINE d == [call EXCEPT !.answer = call.heard, !.uncertain = FALSE]
    <3>1. d \in Calls
      BY <1>c DEF Calls
    <3> HIDE DEF d
    <3> QED
      BY <1>c, <3>1 DEF d
  <2>2. ~c.aborted /\ c.answer = "result" => Completes
    BY <1>18, <1>c DEF Judged, Completes, Ready, At, Calls
  <2> HIDE DEF c, Ends, Tells
  <2>3. Ends("failed", TRUE) \/ Tells(c, res # "true")
    BY <1>18 DEF Judged, c
  <2>4. (res # "true") \in BOOLEAN
    OBVIOUS
  <2> QED
    BY <1>2, <1>17, <2>1, <2>2, <2>3, <2>4
<1>19. ASSUME Closing PROVE Ending
  <2> HIDE DEF Ends, Tells
  <2>1. CASE work["delegate"].res = "true"
    <3>1. Tells(call, FALSE)
      BY <1>19, <2>1 DEF Closing
    <3>2. ~call.aborted /\ call.answer = "result" => Completes
      BY <1>19, <2>1 DEF Closing, Completes, Ready, At
    <3> QED
      BY <1>c, <1>17, <3>1, <3>2
  <2>2. CASE work["delegate"].res # "true"
    BY <1>2, <1>19, <2>2 DEF Closing
  <2> QED
    BY <2>1, <2>2
<1> QED
  BY <1>7, <1>8, <1>9, <1>10, <1>11, <1>12, <1>13, <1>14, <1>15, <1>16, <1>18, <1>19,
     InspectOwnMoves DEF Caller

\* A signal aborts a call that is still open.
LEMMA CancelledMoves ==
    ASSUME call \in Calls, NEW a, NEW W
    PROVE  Grows(Cancelled(call, a, W).c)
<1>1. CASE Cancelled(call, a, W).c = call
  BY <1>1, GrowsIs
<1>2. CASE Cancelled(call, a, W).c # call
  <2>1. call.open
    BY <1>2 DEF Cancelled
  <2>2. Cancelled(call, a, W).c \in {[call EXCEPT !.aborted = TRUE],
                                     [call EXCEPT !.aborted = TRUE, !.stop = IF call.stop = "none" THEN "asked" ELSE call.stop]}
    BY <1>2 DEF Cancelled
  <2>3. /\ Grows([call EXCEPT !.aborted = TRUE])
        /\ Grows([call EXCEPT !.aborted = TRUE, !.stop = IF call.stop = "none" THEN "asked" ELSE call.stop])
    BY <2>1 DEF Grows, Calls
  <2> QED
    BY <2>2, <2>3
<1> QED
  BY <1>1, <1>2

\* Every step of the delegation leaves the call going on, but its end and a crash.
LEMMA CallMoves ==
    ASSUME TypeOK, AttemptNext
    PROVE  Grows(call') \/ Ending \/ Crash
<1>c. call \in Calls
  BY DEF TypeOK
<1>0. ASSUME call' = call PROVE Grows(call')
  BY <1>0, <1>c, GrowsIs
<1>1. SettleBegin \/ SettleShown \/ FenceBuried \/ StopBegin \/ StopFenced \/ StopSettled => call' = call
  BY DEF SettleBegin, SettleShown, FenceBuried, StopBegin, StopFenced, StopSettled, Keep
<1>2. SettleCollect \/ SettleConfirm \/ SettleWrite \/ EvidenceCollect \/ EvidenceWrite => call' = call
  BY DEF SettleCollect, SettleConfirm, SettleWrite, EvidenceCollect, EvidenceWrite, Keep
<1>3. FenceCollect \/ FenceWrite \/ TombstoneLook \/ TombstoneCreate \/ StopCancel => call' = call
  BY DEF FenceCollect, FenceWrite, TombstoneLook, TombstoneCreate, StopCancel, Keep
<1>4. EventHandled \/ SettleTimerEnds \/ TimerEnds \/ FlushAgain \/ FlushNext \/ FlushFails \/ FlushBegins
      \/ LateEvent \/ DeletedCancel \/ RecoverRead \/ RecoverLocks \/ SettleTimer \/ CancelTimer \/ TombTimer
      \/ BeginEvent => call' = call
  BY DEF EventHandled, SettleTimerEnds, TimerEnds, FlushAgain, FlushNext, FlushFails, FlushBegins, FlushLoop,
         LateEvent, DeletedCancel, RecoverRead, RecoverLocks, SettleTimer, CancelTimer, TombTimer, Timer, BeginEvent, Keep
<1>5. ASSUME StopFences \/ StopsTurn PROVE Grows(call')
  <2>1. call' = call \/ \E s : call' = [call EXCEPT !.stop = s]
    BY <1>5 DEF StopFences, StopsTurn
  <2> QED
    BY <1>c, <2>1, GrowsIs
<1>6. ASSUME NEW w \in Inspector,
             Inspect(w) \/ Marked(w) \/ Waited(w) \/ Missed(w) \/ MissingCancel(w) \/ Untold(w)
      PROVE  Grows(call')
  <2>1. call' = call \/ \E x \in Seen \cup {Unknown} : call' = [call EXCEPT !.heard = x.out]
    BY <1>6 DEF Inspect, Marked, Waited, Missed, MissingCancel, Untold, Keep
  <2>2. \A x \in Seen \cup {Unknown} : x.out = "result" => host = "result"
    <3>1. Unknown.out = "none"
      BY DEF Unknown, NoInspection
    <3> QED
      BY <3>1, SeenType DEF TypeOK
  <2>3. \A x \in Seen \cup {Unknown} : Grows([call EXCEPT !.heard = x.out])
    BY <1>c, <2>2 DEF Grows, Calls
  <2> QED
    BY <1>0, <2>1, <2>3
<1>7. ASSUME AbortCall PROVE Grows(call')
  <2>1. CASE At("delegate") = "prepare"
    <3>1. call' = [call EXCEPT !.aborted = TRUE]
      BY <1>7, <2>1 DEF AbortCall, At
    <3> QED
      BY <1>c, <2>1, <3>1 DEF Grows, Calls
  <2>2. CASE At("delegate") # "prepare"
    <3>1. call' = Cancelled(call, att, work).c
      BY <1>7, <2>2 DEF AbortCall, At
    <3> QED
      BY <1>c, <3>1, CancelledMoves
  <2> QED
    BY <2>1, <2>2
<1>8. ASSUME Flush PROVE Grows(call')
  <2> DEFINE U == Goto(work, "flush", "inflight")
  <2>1. call' = Cancelled(call, att, U).c
    BY <1>8 DEF Flush
  <2> HIDE DEF U
  <2> QED
    BY <1>c, <2>1, CancelledMoves
<1>9. Host \/ Lifecycle \/ RecoverSession \/ Delegate => call' = call
  BY HostIs DEF Lifecycle, RecoverSession, Delegate
<1>10. CASE Microtask
  BY <1>0, <1>1, <1>4, <1>5, <1>6, <1>10, CallerMoves DEF Microtask
<1>11. CASE Promise
  BY <1>0, <1>2, <1>3, <1>11 DEF Promise
<1>12. CASE Others
  BY <1>0, <1>4, <1>5, <1>6, <1>12 DEF Others
<1> QED
  BY <1>0, <1>7, <1>8, <1>9, <1>10, <1>11, <1>12, CallerMoves DEF AttemptNext

\* Nothing is retained before the turn is sent, and nobody asks for a
\* cancellation then.
LEMMA FreshCreated ==
    ASSUME TypeOK, EarlyRight, Created, At("delegate")' \in BeforeTurn
    PROVE  ~att'.cancel /\ ~rec'.cancel /\ att'.draft = NoRecord
<1> DEFINE child == [NoRecord EXCEPT !.at = "child", !.status = "running"]
           a == [Attempt(child) EXCEPT !.tracked = TRUE, !.fg = "pending"]
<1>1. ASSUME work' = Goto(work, "delegate", "done") PROVE FALSE
  <2>1. work'["delegate"].pc = "done"
    BY <1>1, GoesOn, Workers DEF TypeOK
  <2> QED
    BY <2>1 DEF At, BeforeTurn
<1>2. rec' = child /\ att' = a
  BY <1>1 DEF Created
<1>3. ~child.cancel
  BY ChildIs
<1> HIDE DEF child
<1>4. ~a.cancel /\ a.draft = NoRecord
  BY <1>3 DEF Attempt
<1> QED
  BY <1>2, <1>3, <1>4

\* No other step before the turn speaks of a cancellation, ...
LEMMA FreshKept ==
    ASSUME TypeOK, FlushRight, DispatchRight, AttemptNext, ~att.cancel, ~rec.cancel, att.draft = NoRecord,
           At("delegate") \in BeforeTurn, At("delegate")' \in BeforeTurn, ~gone, ~gone', ~call.aborted, ~call'.aborted
    PROVE  ~att'.cancel /\ ~rec'.cancel /\ att'.draft = NoRecord
<1>e. /\ host = "none" /\ events = <<>> /\ timers = {} /\ att.fg = "pending" /\ Quiet(work)
  BY DEF DispatchRight, Clean
<1>t. Works(work) /\ call \in Calls /\ att \in Attempts
  BY DEF TypeOK
<1>l. ~Later(work')
  BY DEF Later, At
<1>k. ASSUME att' = att, rec' = rec PROVE ~att'.cancel /\ ~rec'.cancel /\ att'.draft = NoRecord
  BY <1>k
<1>1. ~Prepared /\ ~Locked /\ ~Admitted /\ ~Created /\ ~FlushBegins /\ ~Delegate
  BY DEF At, BeforeTurn, Prepared, Locked, Admitted, Created, FlushBegins, Delegate, Ready
<1>2. ~Sent
  BY <1>l, LaterCall DEF Leaves
<1>3. ASSUME Attended PROVE ~att'.cancel /\ ~rec'.cancel /\ att'.draft = NoRecord
  <2>1. ~StopsChild /\ \A err : ~Caught(err)
    BY <1>l, StopsChildIs, LaterIs, LaterCaught DEF Leaves
  <2>2. rec' = rec /\ (att' = att \/ att' = [att EXCEPT !.cancel = att.cancel \/ call.aborted])
    <3> HIDE DEF StopsChild, Caught
    <3> QED
      BY <1>3, <2>1 DEF Attended
  <2> QED
    BY <1>t, <2>2 DEF Attempts
<1>4. RecoverRead => att' = att /\ rec' = rec
  BY <1>e DEF RecoverRead
<1>5. ~Host
  BY <1>e DEF Host, HostBegins, HostEnds, HostRefuses, HostDeletes
<1>6. ~AbortCall
  <2>1. ASSUME AbortCall PROVE FALSE
    <3>1. call' = Cancelled(call, att, work).c /\ call.open
      BY <2>1 DEF AbortCall, At, BeforeTurn
    <3>2. call'.aborted
      BY <3>1, <1>t DEF Cancelled, At, BeforeTurn, Calls
    <3> QED
      BY <3>2
  <2> QED
    BY <2>1
<1>7. ASSUME Flush PROVE att' = att /\ rec' = rec
  <2> DEFINE U == Goto(work, "flush", "inflight")
  <2>1. rec' = rec /\ LET r == Cancelled(call, att, U) IN call' = r.c /\ att' = r.a
    BY <1>7 DEF Flush
  <2>2. U["delegate"] = work["delegate"]
    BY <1>t, Workers, GotoIs DEF Puts
  <2> HIDE DEF U
  <2> QED
    BY <1>t, <2>1, <2>2 DEF Cancelled, At, BeforeTurn, Calls
<1>8. ~Lifecycle /\ ~Crash
  BY <1>l, CrashIs DEF Lifecycle, FlushRight, Later, BeforeChild, BeforeTurn, Ended, At
<1>9. RecoverSession => att' = att /\ rec' = rec
  BY DEF RecoverSession
<1> QED
  BY <1>e, <1>k, <1>1, <1>2, <1>3, <1>4, <1>5, <1>6, <1>7, <1>8, <1>9, QuietSteps

\* The child is made by the step that ends the first phase.
LEMMA EarlyMoves ==
    ASSUME TypeOK, EarlyRight, AttemptNext, At("delegate") \in BeforeChild
    PROVE  At("delegate")' \in BeforeChild \cup {"done"} \/ (Created /\ At("delegate")' = "after")
<1> DEFINE Stays1 == At("delegate")' \in BeforeChild \cup {"done"}
<1>e. Quiet(work) /\ events = <<>> /\ timers = {}
  BY DEF EarlyRight
<1>s. ASSUME work'["delegate"].pc = work["delegate"].pc PROVE Stays1
  BY <1>s DEF At, BeforeChild
<1>d. "delegate" \in Worker /\ "delegate" \notin Promises \cup {"stop", "flush", "event", "recover"} /\ Works(work)
  BY Workers DEF Promises, TypeOK
<1>1. ~Attended /\ ~Sent
  BY DEF Attended, Sent, Ready, At, BeforeChild
<1>2. Prepared \/ Locked \/ Admitted \/ Delegate => Stays1
  BY PreparedIs, LockedIs, AdmittedIs, DelegateIs DEF At, BeforeChild
<1>3. RecoverRead \/ Host \/ AbortCall => Stays1
  BY <1>s, OthersStay
<1>4. FlushBegins => Stays1
  <2>1. FlushBegins => Steps(work', work, {"flush"} \cup Promises)
    BY FlushLoopIs DEF FlushBegins
  <2> QED
    BY <1>d, <1>s, <2>1 DEF Steps, Stays
<1>5. Flush => Stays1
  <2>1. "delegate" \in Worker \ {"flush", "stop", "C"}
    BY <1>d DEF Promises
  <2> QED
    BY <1>s, <2>1, FlushIs DEF Steps, Stays
<1>6. Lifecycle \/ Crash => Stays1
  BY <1>s, LifecycleIs, CrashIs DEF At, BeforeChild
<1>7. RecoverSession => Stays1
  BY <1>d, <1>s, RecoverIs
<1>8. ASSUME Created PROVE At("delegate")' \in {"after", "done"}
  <2>1. PICK pc \in {"after", "done"} : work' = Goto(work, "delegate", pc)
    BY <1>8 DEF Created
  <2>2. work'["delegate"].pc = pc
    BY <1>d, <2>1, GoesOn
  <2> QED
    BY <2>2 DEF At
<1> HIDE DEF Stays1
<1>9. Stays1 \/ (Created /\ At("delegate")' = "after")
  <2>1. Created /\ At("delegate")' = "done" => Stays1
    BY DEF Stays1
  <2> QED
    BY <1>e, <1>1, <1>2, <1>3, <1>4, <1>5, <1>6, <1>7, <1>8, <2>1, QuietSteps
<1> QED
  BY <1>9 DEF Stays1

\* ... so that every step keeps what is fresh.
LEMMA FreshStep ==
    ASSUME TypeOK, FlushRight, EarlyRight, DispatchRight, FreshRight, [AttemptNext]_attemptVars
    PROVE  FreshRight'
<1>1. CASE UNCHANGED attemptVars
  BY <1>1 DEF attemptVars, FreshRight, At
<1> SUFFICES ASSUME AttemptNext PROVE FreshRight'
  BY <1>1
<1>2. Grows(call') \/ Ending \/ Crash
  BY CallMoves
<1>3. ASSUME At("delegate")' \in BeforeTurn, ~gone', ~call'.aborted
      PROVE  ~att'.cancel /\ ~rec'.cancel /\ att'.draft = NoRecord
  <2>1. CASE At("delegate") \in BeforeChild
    <3>1. Created
      BY <1>3, <2>1, EarlyMoves DEF BeforeChild, BeforeTurn
    <3> QED
      BY <1>3, <3>1, FreshCreated
  <2>2. CASE At("delegate") \notin BeforeChild
    <3>1. At("delegate") \in BeforeTurn
      BY <1>3, <2>2, LaterStep DEF Later, At
    <3>2. ~gone /\ ~call.aborted
      BY <1>3, <3>1, GoneKept, AbortedKept DEF Later, At
    <3> QED
      BY <1>3, <3>1, <3>2, FreshKept DEF FreshRight
  <2> QED
    BY <2>1, <2>2
<1>4. ASSUME At("delegate")' \in BeforeChild \cup BeforeTurn PROVE ~call'.retain
  <2>1. ~Later(work')
    BY <1>4 DEF Later, At
  <2>2. At("delegate") \in BeforeChild \cup BeforeTurn
    BY <2>1, LaterStep DEF Later, At
  <2>3. CASE Grows(call')
    BY <2>1, <2>2, <2>3 DEF Grows, FreshRight
  <2>4. ~Ending
    BY <1>4 DEF Ending, BeforeChild, BeforeTurn
  <2>5. CASE Crash
    BY <2>5 DEF Crash, NoCall
  <2> QED
    BY <1>2, <2>3, <2>4, <2>5
<1> QED
  BY <1>3, <1>4 DEF FreshRight

\* What was heard of a turn that came to its result stays true.
LEMMA ResultStays ==
    ASSUME TypeOK, DispatchRight, AttemptNext, host = "result", ~gone'
    PROVE  host' = "result" \/ Crash
<1>1. CASE UNCHANGED host
  BY <1>1
<1>2. ASSUME NEW yes \in BOOLEAN, CancelTurn(yes) PROVE host' = "result"
  BY <1>2, CancelTurnIs
<1>3. Sent => UNCHANGED host
  <2>1. ~gone
    BY GoneKept
  <2>2. call.aborted \/ At("delegate") # "revalidate"
    BY <2>1 DEF DispatchRight, BeforeTurn
  <2> HIDE DEF Caught
  <2> QED
    BY <2>2 DEF Sent, Ready, At
<1>4. Host => UNCHANGED host
  BY DEF Host, HostBegins, HostEnds, HostRefuses, HostDeletes
<1> QED
  BY <1>1, <1>2, <1>3, <1>4, HostMoves

\* Every step keeps what the call has heard true.
LEMMA HeardStep ==
    ASSUME TypeOK, EarlyRight, DispatchRight, HeardRight, [AttemptNext]_attemptVars
    PROVE  HeardRight'
<1>1. CASE UNCHANGED attemptVars
  BY <1>1 DEF attemptVars, HeardRight, At
<1> SUFFICES ASSUME AttemptNext PROVE HeardRight'
  BY <1>1
<1>c. call \in Calls
  BY DEF TypeOK
<1>2. Grows(call') \/ Ending \/ Crash
  BY CallMoves
<1>3. ASSUME call'.answer = "result" \/ call'.heard = "result", ~gone' PROVE host' = "result"
  <2>1. ~gone
    BY <1>3, GoneKept
  <2>2. ~Ending
    BY <1>3, <1>c, OverIs DEF Ending
  <2>3. ~Crash
    BY <1>3, CrashIs
  <2>4. host = "result"
    BY <1>2, <1>3, <2>1, <2>2, <2>3 DEF Grows, HeardRight
  <2> QED
    BY <1>3, <2>3, <2>4, ResultStays
<1>4. ASSUME At("delegate")' = "reported" PROVE ~call'.aborted /\ ~call'.open
  <2>1. CASE Answered
    <3> DEFINE c == [call EXCEPT !.answer = host]
    <3>1. call' = [c EXCEPT !.open = FALSE] /\ ~call.aborted
      <4>1. ASSUME NEW pc \in {"stopping", "done"}, work' = Goto(work, "delegate", pc) PROVE FALSE
        <5>1. Works(work) /\ "delegate" \in Worker
          BY HopeWorkers DEF TypeOK
        <5>2. work'["delegate"].pc = pc
          BY <4>1, <5>1, GoesOn
        <5> QED
          BY <1>4, <5>2 DEF At
      <4> QED
        BY <2>1, <4>1 DEF Answered
    <3>2. c \in Calls /\ c.aborted = call.aborted
      BY <1>c, <2>1 DEF Answered, Calls
    <3> HIDE DEF c
    <3> QED
      BY <3>1, <3>2 DEF Calls
  <2>2. CASE ~Answered
    <3>1. At("delegate") = "reported"
      <4>1. CASE At("delegate") \in BeforeChild
        BY <1>4, <4>1, EarlyMoves DEF BeforeChild
      <4>2. CASE At("delegate") \notin BeforeChild
        BY <1>4, <2>2, <4>2, CallForward DEF Forward, Leaves, At, BeforeTurn
      <4> QED
        BY <4>1, <4>2
    <3>2. Grows(call')
      <4>1. ~Ending
        BY <1>4 DEF Ending
      <4>2. ~Crash
        BY <1>4, CrashIs DEF At
      <4> QED
        BY <1>2, <4>1, <4>2
    <3> QED
      BY <3>1, <3>2 DEF Grows, HeardRight
  <2> QED
    BY <2>1, <2>2
<1> QED
  BY <1>3, <1>4 DEF HeardRight

\* There is hope from the step on that sends the turn.
LEMMA HopeBegins ==
    ASSUME TypeOK, EarlyRight, DispatchRight, AttemptNext, Hopeful'
    PROVE  /\ ~Crash /\ ~Ending
           /\ Hopeful \/ (Sent /\ host' = "sent" /\ ~call.aborted /\ ~gone)
<1>1. ~Crash
  <2>1. ASSUME Crash PROVE FALSE
    <3>1. At("delegate") = "idle" /\ host # "none"
      BY <2>1, CrashIs DEF Hopeful, At
    <3> QED
      BY <3>1 DEF EarlyRight, BeforeChild
  <2> QED
    BY <2>1
<1>2. ~Ending
  BY DEF Ending, Hopeful
<1>3. ~call.aborted
  <2>1. Grows(call')
    BY <1>1, <1>2, CallMoves
  <2> QED
    BY <2>1 DEF Grows, Hopeful, TypeOK, Calls
<1>4. ~gone
  BY GoneKept DEF Hopeful
<1>5. At("delegate") # "done"
  BY DoneStays DEF Hopeful
<1>6. host \in {"sent", "busy", "result"} \/ (Sent /\ host' = "sent")
  <2>1. CASE UNCHANGED host
    BY <2>1 DEF Hopeful
  <2>2. ASSUME NEW yes \in BOOLEAN, CancelTurn(yes) PROVE host \in {"sent", "busy", "result"}
    BY <2>2, CancelTurnIs DEF Hopeful
  <2>3. Sent => UNCHANGED host \/ host' = "sent"
    BY DEF Sent
  <2>4. CASE Host
    BY <2>4 DEF Host, HostBegins, HostEnds, HostRefuses, HostDeletes, Hopeful
  <2> QED
    BY <1>1, <2>1, <2>2, <2>3, <2>4, HostMoves DEF Hopeful
<1> QED
  BY <1>1, <1>2, <1>3, <1>4, <1>5, <1>6 DEF Hopeful

\* v is where it was, but for what it heard being current.
Rests(V, W, v) == V[v].pc = W[v].pc /\ V[v].on = W[v].on /\ V[v].res = W[v].res

\* Workers stay hopeful when those that go on are: ...
LEMMA HopeSteps ==
    ASSUME NEW V, NEW W, NEW ws, HopeWork(W), Steps(V, W, ws),
           \A w \in Worker : w \in ws => V[w].on \in {"none", "S", "P"} /\ HopePc(w, V[w].pc)
    PROVE  HopeWork(V)
  BY DEF HopeWork, Steps, Stays, HopePc

\* ... one that is put where it may be, ...
LEMMA HopePuts ==
    ASSUME NEW V, NEW W, HopeWork(W), NEW w \in Worker, Puts(V, W, w), V[w].on \in {"none", "S", "P"},
           HopePc(w, V[w].pc)
    PROVE  HopeWork(V)
<1>1. Steps(V, W, {w})
  BY PutsSteps
<1>2. \A v \in Worker : v \in {w} => V[v].on \in {"none", "S", "P"} /\ HopePc(v, V[v].pc)
  OBVIOUS
<1> QED
  BY <1>1, <1>2, HopeSteps

\* ... one that goes on, is done or asks the host, ...
LEMMA HopeGoto ==
    ASSUME NEW W, Works(W), HopeWork(W), NEW w \in Worker, NEW pc, NEW res, HopePc(w, pc),
           NEW V, V \in {Goto(W, w, pc), Finish(W, w, pc, res), Inspects(W, w, pc)}
    PROVE  HopeWork(V) /\ V[w].pc = pc /\ V[w].on = "none" /\ \A v \in Worker \ {w} : V[v] = W[v]
<1>1. Puts(V, W, w) /\ V[w].pc = pc /\ V[w].on = "none"
  <2>1. CASE V = Goto(W, w, pc)
    BY <2>1, GotoIs
  <2>2. CASE V = Finish(W, w, pc, res)
    BY <2>2, FinishIs
  <2>3. CASE V = Inspects(W, w, pc)
    BY <2>3, InspectsIs
  <2> QED
    BY <2>1, <2>2, <2>3
<1>2. HopeWork(V)
  BY <1>1, HopePuts
<1> QED
  BY <1>1, <1>2 DEF Puts

\* ... wherever to, ...
LEMMA HopeTo ==
    ASSUME NEW W, Works(W), HopeWork(W), NEW w \in Worker, NEW pc, HopePc(w, pc),
           NEW V, V = Goto(W, w, pc) \/ V = Inspects(W, w, pc)
    PROVE  HopeWork(V) /\ V[w].pc = pc /\ V[w].on = "none" /\ \A v \in Worker \ {w} : V[v] = W[v]
<1>1. V \in {Goto(W, w, pc), Finish(W, w, pc, "none"), Inspects(W, w, pc)}
  OBVIOUS
<1> QED
  BY <1>1, HopeGoto

\* ... one that awaits the settlement or active evidence, ...
LEMMA HopeAwaits ==
    ASSUME NEW W, Works(W), HopeWork(W), NEW w \in Worker, NEW s \in {"S", "P"}, w # s, NEW pc, HopePc(w, pc)
    PROVE  LET V == Awaits(W, w, s, pc) IN
           /\ HopeWork(V) /\ V[w].pc = pc /\ V[w].on = s /\ ~V[w].fresh /\ V[s].pc # "idle"
           /\ \A v \in Worker \ {w, s} : V[v] = W[v]
           /\ W[s].pc # "idle" => V[s] = W[s]
           /\ V[s] = W[s] \/ (V[s].on = "none" /\ ~V[s].fresh)
<1> DEFINE V == Awaits(W, w, s, pc)
<1>s. s \in Promises /\ s \in Worker
  BY Workers
<1>1. /\ Works(V) /\ \A v \in Worker \ {w, s} : V[v] = W[v]
      /\ V[w].pc = pc /\ V[w].on = s /\ ~V[w].fresh /\ Begun(V, W, s)
  BY <1>s, AwaitsIs
<1> HIDE DEF V
<1>2. Steps(V, W, {w, s})
  BY <1>1, SameSteps
<1>3. /\ V[s].on \in {"none", "S", "P"} /\ HopePc(s, V[s].pc) /\ V[s].pc # "idle"
      /\ W[s].pc # "idle" => V[s] = W[s]
      /\ V[s] = W[s] \/ (V[s].on = "none" /\ ~V[s].fresh)
  <2>1. CASE W[s].pc = "idle"
    BY <1>1, <2>1 DEF Begun, First, HopePc
  <2>2. CASE W[s].pc # "idle"
    BY <1>1, <1>s, <2>2 DEF Begun, HopeWork
  <2> QED
    BY <2>1, <2>2
<1>4. V[w].on \in {"none", "S", "P"} /\ HopePc(w, V[w].pc)
  BY <1>1
<1>5. HopeWork(V)
  BY <1>2, <1>3, <1>4, HopeSteps
<1> QED
  BY <1>1, <1>3, <1>5 DEF V

\* ... those that are told of it, ...
LEMMA HopeReturn ==
    ASSUME NEW W, Works(W), HopeWork(W), NEW s \in {"S", "P"}, NEW res
    PROVE  LET V == Return(W, s, res) IN
           /\ HopeWork(V) /\ V[s].pc = "idle" /\ V[s].on = "none" /\ ~V[s].fresh
           /\ \A v \in Worker \ {s} : Answers(V, W, v, s, res)
           /\ \A v \in Worker : V[v].on # s
<1> DEFINE V == Return(W, s, res)
<1>s. s \in Promises /\ s \in Worker
  BY Workers
<1>1. Steps(V, W, {s}) /\ V[s] = Resting /\ \A v \in Worker \ {s} : Answers(V, W, v, s, res)
  BY <1>s, ReturnSteps, ReturnIs
<1> HIDE DEF V
<1>2. V[s].on = "none" /\ V[s].pc = "idle" /\ ~V[s].fresh /\ HopePc(s, V[s].pc)
  BY <1>1, IdleIs DEF HopePc
<1>3. HopeWork(V)
  BY <1>1, <1>2, HopeSteps
<1>4. \A v \in Worker : V[v].on # s
  BY <1>1, <1>2 DEF Answers
<1> QED
  BY <1>1, <1>2, <1>3, <1>4 DEF V

\* ... those that are overtaken, ...
LEMMA HopeOvertake ==
    ASSUME NEW W, Works(W), HopeWork(W)
    PROVE  HopeWork(Overtake(W))
  BY OvertakeSteps, HopeSteps

\* ... and one that has done with its inspection.
LEMMA HopeBack ==
    ASSUME NEW W, Works(W), HopeWork(W), NEW w \in Inspector \ {"flush"}, NEW res
    PROVE  LET V == Back(W, w, res) IN
           /\ HopeWork(V) /\ \A v \in Worker \ {w} : V[v] = W[v]
           /\ V[w].pc = BackPc(w, res) /\ V[w].on = "none" /\ ~V[w].fresh
           /\ w = "delegate" => V[w].res = res
<1> DEFINE V == Back(W, w, res)
<1>1. /\ Puts(V, W, w) /\ V[w].pc = BackPc(w, res) /\ V[w].on = "none" /\ ~V[w].fresh
      /\ V[w].res = IF w \in {"event", "recover"} THEN "none" ELSE res
  BY BackIs
<1> HIDE DEF V
<1>2. HopePc(w, BackPc(w, res))
  BY DEF HopePc, BackPc, Inspector
<1>3. HopeWork(V)
  BY <1>1, <1>2, HopePuts, Workers
<1> QED
  BY <1>1, <1>3 DEF Puts, V

\* What is heard of the turn, which goes on or came to its result.
LEMMA HearsHope ==
    ASSUME TypeOK, Hopeful, NEW x \in Seen \cup {Unknown}, Hears(x)
    PROVE  /\ x \in Inspection /\ x.status = "none"
           /\ \/ x.state = "running" /\ x.out = "none" /\ host = "busy"
              \/ x.state = "unknown" /\ x.out = "none"
              \/ x.state \in {"idle", "inactive"} /\ x.out = "result" /\ host = "result"
<1>1. Unknown \in Inspection /\ Unknown.state = "unknown" /\ Unknown.out = "none" /\ Unknown.status = "none"
  BY DEF Unknown, NoInspection, Inspection, Statuses
<1>2. CASE x = Unknown
  BY <1>1, <1>2
<1>3. CASE x # Unknown
  <2>1. x \in Seen /\ host \in {"busy", "result"}
    BY <1>3 DEF Hears, Hopeful
  <2>2. x \in Inspection /\ x.status = "none"
    BY <2>1, SeenType DEF TypeOK
  <2>3. host = "busy" => x.state = "running" /\ x.out = "none"
    BY <2>1, SeenType DEF TypeOK
  <2>4. host = "result" => x.state \in {"idle", "inactive"} /\ x.out = "result"
    BY <2>1 DEF Seen, Hopeful
  <2> QED
    BY <2>1, <2>2, <2>3, <2>4
<1> QED
  BY <1>2, <1>3

\* Who waits for what settles the answer of the call, but for the event that
\* overtook it.
LEMMA OwedKept ==
    ASSUME Owed(work, att), Rests(work', work, "delegate"), att'.pending = att.pending \/ att'.pending.out = "result",
           phase = "flushing" => phase' = "flushing",
           \A v \in Worker : work'[v].on = "S" => work'["S"].pc # "idle",
           work'["event"].fresh => work["event"].fresh \/ phase # "flushing",
           At("event") = "active" /\ work["event"].on = "S" => Rests(work', work, "event")
    PROVE  Owed(work, att)'
  BY DEF Owed, Rests, At

\* What the call has been told stays on record.
LEMMA ToldKept ==
    ASSUME ToldRight(work["delegate"], rec), Rests(work', work, "delegate"),
           rec' = rec \/ work["delegate"].on # "none"
                      \/ At("delegate") \notin {"reported", "closing", "settled", "judged"}
    PROVE  ToldRight(work["delegate"], rec)'
  BY DEF ToldRight, Rests, At

\* A step of another worker.
LEMMA HopeKept ==
    ASSUME Hoping, UNCHANGED call, host' = host \/ host # "result", Rests(work', work, "delegate"),
           HopeAttempt(att'), HopeRecord(rec'),
           rec' = rec \/ work["delegate"].on # "none"
                      \/ At("delegate") \notin {"reported", "closing", "settled", "judged"},
           events' \in Seq({"busy", "idle"}), timers' \subseteq {"settle"},
           HopeWork(work'), SettlesRight(work["S"], att)', Owed(work, att)'
    PROVE  Hoping'
<1>1. HopeData'
  BY DEF HopeData, Hoping
<1>2. HopeCall'
  BY DEF HopeCall, Hoping, Rests, At
<1>3. ToldRight(work["delegate"], rec)'
  BY ToldKept DEF Hoping
<1> QED
  BY <1>1, <1>2, <1>3 DEF Hoping

\* ... which leaves the attempt and the record alone.
LEMMA HopeSame ==
    ASSUME Hoping, UNCHANGED <<call, host, att, rec, phase>>, timers' \subseteq {"settle"},
           events' \in Seq({"busy", "idle"}),
           Rests(work', work, "delegate"), HopeWork(work'), work'["S"] = work["S"], Recovers,
           \A v \in Worker : work'[v].on = "S" => work'["S"].pc # "idle",
           work'["event"].fresh => work["event"].fresh \/ phase # "flushing",
           At("event") = "active" /\ work["event"].on = "S" => Rests(work', work, "event")
    PROVE  Hoping'
<1>1. HopeAttempt(att') /\ HopeRecord(rec') /\ SettlesRight(work["S"], att)'
  BY DEF Hoping, HopeData, SettlesRight, Recovers
<1>2. Owed(work, att)'
  BY OwedKept DEF Hoping
<1> QED
  BY <1>1, <1>2, HopeKept

\* While the process turns to something else, the call has heard nothing.
LEMMA Unheard ==
    ASSUME ~Continues
    PROVE  \A w \in Worker : work[w].on # "none" \/ work[w].pc \notin Continuation
  BY DEF Continues

\* The records tell of no other end than the result.
LEMMA HopeCollected ==
    ASSUME TypeOK, HopeAttempt(att), HopeRecord(rec)
    PROVE  LET a == Collected(att) IN
           /\ a \in Attempts /\ a.tracked /\ HopeAttempt(a) /\ a.pending = att.pending /\ a.draft = att.draft
           /\ a.term = NoRecord \/ a.term.status = "reported-completed"
<1> DEFINE a == Collected(att)
           rs == {rec, att.term} \ {NoRecord}
<1>1. /\ a \in Attempts /\ a.tracked /\ a.pending = att.pending /\ a.draft = att.draft
      /\ rec # NoRecord => a.ids = att.ids \cup {rec.at}
      /\ a.cancel = (att.cancel \/ rec.cancel) /\ a.confirmed = (att.confirmed \/ rec.confirmed)
      /\ a.missing = (att.missing \/ att.confirmed \/ rec.confirmed)
      /\ a.term = PersistedTerminal(rs)
  BY CollectedIs DEF TypeOK
<1> HIDE DEF a
<1>2. rec # NoRecord
  BY NoRecordIs DEF HopeRecord
<1>3. a.term = NoRecord \/ a.term.status = "reported-completed"
  <2>1. rs \in SUBSET Record
    BY DEF TypeOK, Attempts
  <2>2. PersistedTerminal(rs) = NoRecord \/ Stands(rs, PersistedTerminal(rs))
    BY <2>1, PersistedTerminalIs
  <2>3. \A r : Stands(rs, r) => r.status = "reported-completed"
    BY DEF Stands, HopeAttempt, HopeRecord, Evidence, Terminal
  <2> QED
    BY <1>1, <2>2, <2>3
<1>4. HopeAttempt(a)
  BY <1>1, <1>2, <1>3, NoRecordIs DEF HopeAttempt, HopeRecord, Evidence
<1> QED
  BY <1>1, <1>3, <1>4 DEF a

\* The record of an answer tells it, whatever it told before.
LEMMA HopeMerge ==
    ASSUME TypeOK, HopeAttempt(att), HopeRecord(rec)
    PROVE  LET new == MergeTerminal(rec, att.draft) IN
           /\ new \in Record /\ HopeRecord(new)
           /\ att.draft.status = "reported-completed" => new.status = "reported-completed"
<1> DEFINE r == rec
           c == att.draft
           cancel == r.cancel \/ c.cancel
           adjusted == IF c.confirmed \/ (cancel /\ c.late) THEN [c EXCEPT !.status = "cancelled"] ELSE c
           old == [r EXCEPT !.cancel = cancel]
           known == PersistedTerminal({old, adjusted})
           winner == IF c.confirmed \/ known = NoRecord THEN adjusted ELSE known
           new == MergeTerminal(r, c)
<1>1. new = [r EXCEPT !.status = winner.status, !.late = winner.late, !.cancel = cancel,
                              !.confirmed = @ \/ c.confirmed, !.invalid = FALSE]
  BY DEF MergeTerminal
<1>2. r \in Record /\ c \in Record /\ ~cancel /\ ~c.confirmed /\ ~r.confirmed /\ ~r.cancel /\ ~c.cancel
  BY DEF TypeOK, Attempts, HopeAttempt, HopeRecord
<1>3. adjusted = c
  BY <1>2
<1>4. old \in Record /\ old.status = r.status /\ ~old.cancel
  BY <1>2 DEF Record
<1>5. c.status \in Evidence /\ r.status \in Evidence /\ r.at = "child"
  BY DEF HopeAttempt, HopeRecord
<1>t. new \in Record /\ new.at = r.at
  BY <1>2, MergeType
<1> HIDE DEF adjusted, cancel, old, new, r, c
<1>6. {old, adjusted} \in SUBSET Record
  BY <1>2, <1>3, <1>4
<1> HIDE DEF known
<1>7. \/ known = NoRecord /\ \A q \in {old, adjusted} : ~Stands({old, adjusted}, q)
      \/ /\ Stands({old, adjusted}, known)
         /\ \A q \in {old, adjusted} : Stands({old, adjusted}, q) => Rank(q.status) <= Rank(known.status)
  BY <1>6, PersistedTerminalIs DEF known
<1>8. \A q : Stands({old, adjusted}, q) => q.status = "reported-completed"
  BY <1>3, <1>4, <1>5 DEF Stands, Evidence, Terminal
<1>9. c.status = "reported-completed" => Stands({old, adjusted}, c)
  BY <1>2, <1>3, <1>4 DEF Stands, Terminal
<1>10. winner.status \in Evidence /\ (c.status = "reported-completed" => winner.status = "reported-completed")
  BY <1>2, <1>3, <1>5, <1>7, <1>8, <1>9 DEF Evidence
<1> HIDE DEF winner
<1>11. new.status = winner.status /\ new.cancel = cancel /\ new.confirmed = (r.confirmed \/ c.confirmed)
  BY <1>1, <1>2 DEF Record
<1> QED
  BY <1>2, <1>5, <1>10, <1>11, <1>t DEF HopeRecord, new, r, c

\* The settlement goes on, ...
LEMMA SettlementMoves ==
    ASSUME TypeOK, Hoping, UNCHANGED <<call, host, events, rec, phase, timers>>,
           HopeAttempt(att'), att'.pending = att.pending,
           HopeWork(work'), \A v \in Worker \ {"S", "P"} : work'[v] = work[v],
           work'["S"].pc # "idle", SettlesRight(work["S"], att)'
    PROVE  Hoping'
<1>1. Rests(work', work, "delegate") /\ Rests(work', work, "event") /\ work'["event"].fresh = work["event"].fresh
  BY HopeWorkers DEF Rests
<1>2. Owed(work, att)'
  BY <1>1, OwedKept DEF Hoping
<1> QED
  BY <1>1, <1>2, HopeKept DEF Hoping, HopeData

\* ... or is done: who awaits it hears res.
LEMMA SettlementReturns ==
    ASSUME TypeOK, Hoping, UNCHANGED <<call, host, events, phase>>, timers' \subseteq {"settle"},
           NEW W \in {work, Overtake(work)}, NEW res \in {"true", "false", "error"}, work' = Return(W, "S", res),
           HopeAttempt(att'), HopeRecord(rec'), work["S"].pc # "idle",
           rec' = rec \/ work["delegate"].on # "none"
                      \/ At("delegate") \notin {"reported", "closing", "settled", "judged"},
           res = "true" /\ At("delegate") \in {"reported", "closing", "settled"} /\ work["delegate"].on = "S"
              => rec'.status = "reported-completed"
    PROVE  Hoping'
<1>w. Works(work) /\ HopeWork(work)
  BY DEF TypeOK, Hoping
<1>1. Works(W) /\ HopeWork(W) /\ \A v \in Worker : Rests(W, work, v)
  <2>1. CASE W = work
    BY <1>w, <2>1 DEF Rests
  <2>2. CASE W = Overtake(work)
    BY <1>w, <2>2, HopeOvertake, OvertakeIs DEF Rests, Stale
  <2> QED
    BY <2>1, <2>2
<1>2. /\ HopeWork(work') /\ work'["S"].pc = "idle" /\ work'["S"].on = "none" /\ ~work'["S"].fresh
      /\ \A v \in Worker \ {"S"} : Answers(work', W, v, "S", res)
      /\ \A v \in Worker : work'[v].on # "S"
  BY <1>1, HopeReturn
<1>3. Answers(work', W, "delegate", "S", res) /\ Rests(W, work, "delegate")
  BY <1>1, <1>2, HopeWorkers
<1>4. ToldRight(work["delegate"], rec)'
  <2>1. CASE work["delegate"].on = "S"
    <3>1. work'["delegate"].pc = work["delegate"].pc /\ work'["delegate"].on = "none" /\ work'["delegate"].res = res
      BY <1>3, <2>1 DEF Answers, Rests
    <3>2. At("delegate") # "judged"
      BY <2>1 DEF Hoping, ToldRight, At
    <3> QED
      BY <2>1, <3>1, <3>2 DEF ToldRight, At
  <2>2. CASE work["delegate"].on # "S"
    <3>1. Rests(work', work, "delegate")
      BY <1>3, <2>2 DEF Answers, Rests
    <3> QED
      BY <3>1, ToldKept DEF Hoping
  <2> QED
    BY <2>1, <2>2
<1>5. SettlesRight(work["S"], att)'
  BY <1>2 DEF SettlesRight
<1>6. Owed(work, att)'
  BY <1>2, HopeWorkers DEF Owed
<1>7. HopeData'
  BY DEF HopeData, Hoping
<1>8. HopeCall'
  <2>1. At("delegate")' = At("delegate")
    BY <1>3 DEF Answers, Rests, At
  <2> QED
    BY <2>1 DEF HopeCall, Hoping
<1> QED
  BY <1>2, <1>4, <1>5, <1>6, <1>7, <1>8 DEF Hoping

\* The settlement begins, ...
LEMMA HopeSettleBegin ==
    ASSUME TypeOK, Hoping, SettleBegin
    PROVE  Hoping'
<1>w. Works(work) /\ HopeWork(work) /\ HopeAttempt(att)
  BY DEF TypeOK, Hoping, HopeData
<1>0. UNCHANGED <<call, phase, host, events>>
  BY DEF SettleBegin, Keep, HostRests
<1>f. CASE ~att.tracked
  <2>1. work["S"].pc # "idle" /\ work' = Return(work, "S", "false") /\ UNCHANGED <<rec, att, lock, timers>>
    BY <1>f DEF SettleBegin, Ready, Gives
  <2>2. HopeAttempt(att') /\ HopeRecord(rec') /\ timers' \subseteq {"settle"}
    BY <2>1 DEF Hoping, HopeData
  <2> QED
    BY <1>0, <2>1, <2>2, SettlementReturns
<1> SUFFICES ASSUME att.tracked PROVE Hoping'
  BY <1>f
<1>1. work["S"].pc = "begin" /\ att.tracked /\ work["M"].pc = "idle" /\ att.ids # {}
  <2>1. work["S"].pc = "begin"
    BY DEF SettleBegin, Ready
  <2>3. "M" \in Worker
    BY DEF Worker
  <2> QED
    BY <1>w, <2>1, <2>3 DEF HopeWork, HopePc, HopeAttempt
<1>2. work' = (IF att.evidence THEN Awaits(work, "S", "P", "shown") ELSE Goto(work, "S", "collect"))
      /\ UNCHANGED <<rec, att, lock, timers>>
  BY <1>1 DEF SettleBegin
<1>3. /\ HopeWork(work') /\ work'["S"].pc # "idle" /\ ~work'["S"].fresh /\ work'["S"].pc # "write"
      /\ \A v \in Worker \ {"S", "P"} : work'[v] = work[v]
  <2>1. CASE att.evidence
    <3>1. HopePc("S", "shown")
      BY DEF HopePc
    <3> QED
      BY <1>w, <1>2, <2>1, <3>1, HopeAwaits, HopeWorkers
  <2>2. CASE ~att.evidence
    <3>1. HopePc("S", "collect")
      BY DEF HopePc
    <3>2. work' = Goto(work, "S", "collect")
      BY <1>2, <2>2
    <3>3. work'["S"].pc = "collect" /\ ~work'["S"].fresh /\ \A v \in Worker \ {"S"} : work'[v] = work[v]
      BY <1>w, <3>2, GoesOn, HopeWorkers
    <3>4. HopeWork(work')
      BY <1>w, <3>1, <3>2, HopeGoto, HopeWorkers
    <3> QED
      BY <3>3, <3>4
  <2> QED
    BY <2>1, <2>2
<1>4. SettlesRight(work["S"], att)'
  BY <1>1, <1>2, <1>3 DEF SettlesRight
<1> QED
  BY <1>w, <1>0, <1>2, <1>3, <1>4, SettlementMoves

\* ... fails, ...
LEMMA HopeSettlementFails ==
    ASSUME TypeOK, Hoping, SettlementFails, Keep, work["S"].pc # "idle"
    PROVE  Hoping'
<1>1. /\ timers' \subseteq {"settle"} /\ work' = Return(work, "S", "error") /\ UNCHANGED <<rec, att>>
      /\ UNCHANGED <<call, phase, host, events>>
  BY DEF SettlementFails, Keep, HostRests, Hoping, HopeData
<1>2. HopeAttempt(att') /\ HopeRecord(rec')
  BY <1>1 DEF Hoping, HopeData
<1> QED
  BY <1>1, <1>2, SettlementReturns

\* ... has waited, ...
LEMMA HopeSettleShown ==
    ASSUME TypeOK, Hoping, SettleShown
    PROVE  Hoping'
<1>w. Works(work) /\ HopeWork(work) /\ HopeAttempt(att)
  BY DEF TypeOK, Hoping, HopeData
<1>1. work["S"].pc = "shown" /\ att.ids # {}
  <2>1. work["S"].pc \in {"shown", "buried"}
    BY DEF SettleShown, Ready
  <2> QED
    BY <1>w, <2>1, HopeWorkers DEF HopeWork, HopePc, HopeAttempt
<1>2. CASE work["S"].res = "error"
  BY <1>1, <1>2, HopeSettlementFails DEF SettleShown
<1>3. CASE work["S"].res # "error"
  <2>1. work' = Goto(work, "S", "collect") /\ UNCHANGED <<rec, att, lock, timers>>
    BY <1>1, <1>3 DEF SettleShown
  <2>2. HopePc("S", "collect")
    BY DEF HopePc
  <2>3. /\ HopeWork(work') /\ work'["S"].pc = "collect" /\ \A v \in Worker \ {"S", "P"} : work'[v] = work[v]
    BY <1>w, <2>1, <2>2, HopeGoto, HopeWorkers
  <2>4. SettlesRight(work["S"], att)'
    BY <1>1, <2>1, <2>3, HopeWorkers DEF SettlesRight, Forsaken, Hoping, At
  <2>5. UNCHANGED <<call, phase, host, events>>
    BY DEF SettleShown, Keep, HostRests
  <2> QED
    BY <1>w, <2>1, <2>3, <2>4, <2>5, SettlementMoves
<1> QED
  BY <1>2, <1>3

\* Nothing is told to a call that has just heard how the settlement ended.
LEMMA NothingTold ==
    ASSUME ~Continues
    PROVE  work["delegate"].on # "none" \/ At("delegate") \notin {"reported", "closing", "settled", "judged"}
<1>1. "delegate" \in Worker
  BY HopeWorkers
<1> QED
  BY <1>1 DEF Continues, Continuation, At

\* ... has read the records ...
LEMMA HopeSettleCollect ==
    ASSUME TypeOK, Hoping, SettleCollect
    PROVE  Hoping'
<1>w. Works(work) /\ HopeWork(work) /\ HopeAttempt(att) /\ HopeRecord(rec) /\ timers \subseteq {"settle"}
  BY DEF TypeOK, Hoping, HopeData
<1>1. work["S"].pc = "collect"
  BY DEF SettleCollect, Ready
<1>k. Keep /\ UNCHANGED <<call, phase, host, events>>
  BY DEF SettleCollect, Keep, HostRests
<1>f. CASE ~att.tracked
  <2>1. work["S"].pc # "idle" /\ work' = Return(work, "S", "false") /\ UNCHANGED <<rec, att, lock, timers>>
    BY <1>f, <1>1 DEF SettleCollect, Gives
  <2> QED
    BY <1>k, <1>w, <2>1, SettlementReturns
<1> SUFFICES ASSUME att.tracked PROVE Hoping'
  BY <1>f
<1> DEFINE a == Collected(att)
           d == Candidate(a)
<1>a. /\ a \in Attempts /\ a.tracked /\ HopeAttempt(a) /\ a.pending = att.pending /\ a.draft = att.draft
      /\ a.term = NoRecord \/ a.term.status = "reported-completed"
  BY <1>w, HopeCollected
<1>3. \/ SettlementFails
      \/ /\ att' = [a EXCEPT !.draft = d]
         /\ work' = IF a.confirmed THEN Goto(work, "S", "confirm")
                    ELSE IF att.pending = NoInspection THEN Return(work, "S", "false")
                    ELSE Inspects(work, "S", "write")
         /\ UNCHANGED <<rec, lock, timers>>
  BY DEF SettleCollect
<1> HIDE DEF a
<1>d. /\ d \in Record /\ ~d.cancel /\ ~d.confirmed /\ d.status \in Evidence
      /\ a.pending.out = "result" => d.status = "reported-completed"
  BY <1>a, CandidateIs DEF HopeAttempt, Evidence
<1> HIDE DEF d
<1>4. CASE SettlementFails
  BY <1>1, <1>4, <1>k, HopeSettlementFails
<1>5. CASE ~SettlementFails
  <2>1. HopeAttempt(att') /\ att'.tracked /\ att'.pending = att.pending /\ att'.draft = d
    BY <1>3, <1>5, <1>a, <1>d DEF HopeAttempt, Attempts
  <2>2. ~a.confirmed /\ UNCHANGED <<rec, timers>>
    BY <1>3, <1>5, <1>a DEF HopeAttempt
  <2>3. CASE att.pending = NoInspection
    <3>1. work' = Return(work, "S", "false")
      BY <1>3, <1>5, <2>2, <2>3
    <3> QED
      BY <1>1, <1>k, <1>w, <2>1, <2>2, <3>1, SettlementReturns
  <2>4. CASE att.pending # NoInspection
    <3>1. work' = Inspects(work, "S", "write")
      BY <1>3, <1>5, <2>2, <2>4
    <3>2. HopePc("S", "write")
      BY DEF HopePc
    <3>5. work' \in {Goto(work, "S", "write"), Finish(work, "S", "write", "none"), Inspects(work, "S", "write")}
      BY <3>1
    <3>3. HopeWork(work') /\ work'["S"].pc = "write" /\ \A v \in Worker \ {"S"} : work'[v] = work[v]
      BY <1>w, <3>2, <3>5, HopeGoto, HopeWorkers
    <3>4. SettlesRight(work["S"], att)'
      BY <1>a, <1>d, <2>1, <2>4, <3>3 DEF SettlesRight
    <3> QED
      BY <1>k, <2>1, <2>2, <3>3, <3>4, SettlementMoves
  <2> QED
    BY <2>3, <2>4
<1> QED
  BY <1>4, <1>5

\* ... and written them: when nothing has overtaken it, the answer.
LEMMA HopeSettleWrite ==
    ASSUME TypeOK, Hoping, SettleWrite, ~Continues
    PROVE  Hoping'
<1>w. Works(work) /\ HopeWork(work) /\ HopeAttempt(att) /\ HopeRecord(rec) /\ timers \subseteq {"settle"} /\ att \in Attempts
  BY DEF TypeOK, Hoping, HopeData
<1>1. work["S"].pc = "write"
  BY DEF SettleWrite, Ready
<1>2. Written(att)
  BY <1>1, <1>w DEF Written, HopeAttempt, HopeRecord
<1>k. Keep /\ UNCHANGED <<call, phase, host, events>>
  BY DEF SettleWrite, Keep, HostRests
<1> DEFINE new == MergeTerminal(rec, att.draft)
           told == PersistedTerminal({new} \ {NoRecord})
<1>n. /\ new \in Record /\ HopeRecord(new)
      /\ att.draft.status = "reported-completed" => new.status = "reported-completed"
  BY <1>w, HopeMerge
<1>3. \/ SettlementFails
      \/ /\ rec' = new
         /\ \/ work' = Return(work, "S", "false") /\ UNCHANGED <<att, lock, timers>>
            \/ /\ att.tracked
               /\ att' = [att EXCEPT !.cancel = @ \/ new.cancel, !.term = told]
               /\ work' = Goto(work, "S", "begin") /\ UNCHANGED <<lock, timers>>
            \/ work["S"].fresh /\ ReleaseAttempt
  <2> HIDE DEF ReleaseAttempt, SettlementFails
  <2> QED
    BY <1>2 DEF SettleWrite
<1> HIDE DEF new
<1>u. work["delegate"].on # "none" \/ At("delegate") \notin {"reported", "closing", "settled", "judged"}
  BY NothingTold
<1>4. CASE SettlementFails
  BY <1>1, <1>4, <1>k, HopeSettlementFails
<1>5. CASE rec' = new /\ work' = Return(work, "S", "false") /\ UNCHANGED <<att, lock, timers>>
  BY <1>1, <1>5, <1>k, <1>n, <1>u, <1>w, SettlementReturns
<1>6. CASE /\ rec' = new /\ att.tracked /\ att' = [att EXCEPT !.cancel = @ \/ new.cancel, !.term = told]
           /\ work' = Goto(work, "S", "begin") /\ UNCHANGED <<lock, timers>>
  <2>1. told.status \in Evidence
    <3>1. {new} \ {NoRecord} \in SUBSET Record
      BY <1>n
    <3>2. told = NoRecord \/ Stands({new} \ {NoRecord}, told)
      BY <3>1, PersistedTerminalIs
    <3> QED
      BY <1>n, <3>2, NoRecordIs DEF Stands, HopeRecord, Evidence
  <2> HIDE DEF told
  <2>2. HopeAttempt(att') /\ att'.tracked /\ att'.pending = att.pending
    BY <1>2, <1>6, <1>n, <1>w, <2>1 DEF HopeAttempt, HopeRecord, Attempts
  <2>3. HopePc("S", "begin")
    BY DEF HopePc
  <2>8. work' = Goto(work, "S", "begin")
    BY <1>6
  <2>4. HopeWork(work') /\ work'["S"].pc = "begin" /\ \A v \in Worker \ {"S", "P"} : work'[v] = work[v]
    BY <1>w, <2>3, <2>8, HopeGoto, HopeWorkers
  <2>5. SettlesRight(work["S"], att)'
    BY <2>2, <2>4 DEF SettlesRight
  <2>6. Rests(work', work, "delegate") /\ Rests(work', work, "event") /\ work'["event"].fresh = work["event"].fresh
    BY <2>4, HopeWorkers DEF Rests
  <2>7. Owed(work, att)'
    BY <1>k, <2>2, <2>4, <2>6, OwedKept DEF Hoping
  <2> QED
    BY <1>6, <1>k, <1>n, <1>u, <1>w, <2>2, <2>4, <2>5, <2>6, <2>7, HopeKept DEF Hoping, HopeData
<1>7. CASE rec' = new /\ work["S"].fresh /\ ReleaseAttempt
  <2>1. work' = Return(Overtake(work), "S", "true") /\ timers' = {}
    BY <1>7 DEF ReleaseAttempt
  <2>2. HopeAttempt(att')
    <3>1. NoInspection.status = "none" /\ NoInspection.out = "none" /\ NoRecord.status = "none"
          /\ ~NoRecord.cancel /\ ~NoRecord.confirmed
      BY DEF NoInspection, NoRecord
    <3> QED
      BY <1>7, <1>w, <3>1 DEF ReleaseAttempt, HopeAttempt, Attempts, Evidence
  <2>3. At("delegate") \in {"reported", "closing", "settled"} /\ work["delegate"].on = "S"
          => new.status = "reported-completed"
    BY <1>1, <1>7, <1>n DEF Hoping, Owed, SettlesRight, At
  <2>4. Overtake(work) \in {work, Overtake(work)} /\ "true" \in {"true", "false", "error"} /\ timers' \subseteq {"settle"}
        /\ HopeRecord(rec') /\ work["S"].pc # "idle"
    BY <1>1, <1>7, <1>n, <2>1
  <2> QED
    BY <1>7, <1>k, <1>u, <2>1, <2>2, <2>3, <2>4, SettlementReturns
<1> QED
  BY <1>3, <1>4, <1>5, <1>6, <1>7

\* Active evidence is recorded, or not: who awaits that goes on.
LEMMA EvidenceReturns ==
    ASSUME TypeOK, Hoping, UNCHANGED <<call, host, events, phase, timers>>,
           NEW res, work' = Return(work, "P", res),
           HopeAttempt(att'), HopeRecord(rec'), att'.pending = att.pending, att'.draft = att.draft,
           att.tracked => att'.tracked,
           rec' = rec \/ work["delegate"].on # "none"
                      \/ At("delegate") \notin {"reported", "closing", "settled", "judged"}
    PROVE  Hoping'
<1>w. Works(work) /\ HopeWork(work)
  BY DEF TypeOK, Hoping
<1>1. HopeWork(work') /\ \A v \in Worker \ {"P"} : Answers(work', work, v, "P", res)
  BY <1>w, HopeReturn
<1>2. /\ Answers(work', work, "S", "P", res) /\ Answers(work', work, "delegate", "P", res)
      /\ Answers(work', work, "event", "P", res) /\ Answers(work', work, "recover", "P", res)
  BY <1>1, HopeWorkers
<1>3. \A v \in Worker : work'[v].on = "S" => work[v].on = "S"
  <2>1. work'["P"].on = "none"
    BY <1>w, HopeReturn
  <2> QED
    BY <1>1, <2>1 DEF Answers
<1>4. SettlesRight(work["S"], att)'
  BY <1>2 DEF SettlesRight, Forsaken, Hoping, Answers, At
<1>5. /\ work["event"].on = "S" => Rests(work', work, "event")
      /\ work'["event"].fresh = work["event"].fresh
      /\ work'["S"].pc = work["S"].pc
  BY <1>2 DEF Answers, Rests
<1>6. CASE work["delegate"].on # "P"
  <2>1. Rests(work', work, "delegate")
    BY <1>2, <1>6 DEF Answers, Rests
  <2>2. Owed(work, att)'
    <3>1. \A v \in Worker : work'[v].on = "S" => work'["S"].pc # "idle"
      BY <1>3, <1>5 DEF Hoping, Owed
    <3> QED
      BY <1>5, <2>1, <3>1 DEF Owed, Rests, Hoping
  <2> QED
    BY <1>1, <1>4, <2>1, <2>2, HopeKept DEF Hoping, HopeData
<1>7. CASE work["delegate"].on = "P"
  <2>1. work'["delegate"].pc = work["delegate"].pc /\ work'["delegate"].on = "none"
    BY <1>2, <1>7 DEF Answers
  <2>2. At("delegate") \notin {"reported", "closing", "settled", "judged"}
    BY <1>7 DEF Hoping, ToldRight, At
  <2>3. ToldRight(work["delegate"], rec)'
    BY <2>1, <2>2 DEF ToldRight, At
  <2>4. Owed(work, att)'
    BY <1>3, <1>5, <2>1 DEF Owed, Hoping
  <2>5. HopeData'
    BY DEF HopeData, Hoping
  <2>6. HopeCall'
    BY <2>1, <2>2 DEF HopeCall, Hoping, At
  <2> QED
    BY <1>1, <1>4, <2>3, <2>4, <2>5, <2>6 DEF Hoping
<1> QED
  BY <1>6, <1>7

\* Active evidence is written before the call awaits its end.
LEMMA HopeEvidence ==
    ASSUME TypeOK, Hoping, EvidenceCollect \/ EvidenceWrite, ~Continues
    PROVE  Hoping'
<1>w. /\ Works(work) /\ HopeWork(work) /\ HopeAttempt(att) /\ HopeRecord(rec) /\ timers \subseteq {"settle"}
      /\ att \in Attempts /\ rec \in Record
  BY DEF TypeOK, Hoping, HopeData
<1>k. UNCHANGED <<call, phase, host, events>>
  BY DEF EvidenceCollect, EvidenceWrite, Keep, HostRests
<1>u. work["delegate"].on # "none" \/ At("delegate") \notin {"reported", "closing", "settled", "judged"}
  BY NothingTold
<1>1. ASSUME NEW res, Gives("P", res) PROVE Hoping'
  BY <1>1, <1>k, <1>w, EvidenceReturns DEF Gives
<1>2. CASE EvidenceCollect /\ att' = Collected(att) /\ work' = Goto(work, "P", "write") /\ UNCHANGED <<rec, lock, timers>>
  <2> DEFINE a == Collected(att)
  <2>1. a.tracked /\ HopeAttempt(a) /\ a.pending = att.pending /\ a.draft = att.draft
    BY <1>w, HopeCollected
  <2>2. att' = a /\ work' = Goto(work, "P", "write")
    BY <1>2
  <2> HIDE DEF a
  <2>3. HopePc("P", "write")
    BY DEF HopePc
  <2>4. HopeWork(work') /\ work'["P"].on = "none" /\ \A v \in Worker \ {"P"} : work'[v] = work[v]
    BY <1>w, <2>2, <2>3, HopeGoto, HopeWorkers
  <2>5. /\ Rests(work', work, "delegate") /\ Rests(work', work, "event") /\ work'["event"].fresh = work["event"].fresh
        /\ work'["S"] = work["S"]
    BY <2>4, HopeWorkers DEF Rests
  <2>6. SettlesRight(work["S"], att)'
    BY <2>1, <2>2, <2>5 DEF SettlesRight, Hoping
  <2>7. Owed(work, att)'
    BY <1>k, <2>1, <2>2, <2>4, <2>5 DEF Owed, Hoping, Rests
  <2> QED
    BY <1>2, <1>k, <1>w, <2>1, <2>2, <2>4, <2>5, <2>6, <2>7, HopeKept DEF Hoping, HopeData
<1>3. CASE EvidenceCollect
  BY <1>1, <1>2, <1>3 DEF EvidenceCollect
<1>4. CASE EvidenceWrite
  <2> DEFINE invalid == att.invalid \/ att.term.status = "reported-completed"
             r == [rec EXCEPT !.status = "unknown", !.late = FALSE, !.confirmed = FALSE,
                              !.cancel = @ /\ ~att.confirmed, !.invalid = @ \/ invalid]
             a == [att EXCEPT !.term = NoRecord, !.invalid = invalid, !.cancel = @ /\ ~att.confirmed,
                                !.confirmed = FALSE, !.missing = FALSE, !.evidence = FALSE]
  <2>1. Written(att)
    BY <1>w DEF Written, HopeAttempt, HopeRecord
  <2>2. HopeRecord(r)
    BY <1>w DEF HopeRecord, Record, Evidence
  <2>3. HopeAttempt(a) /\ a.pending = att.pending /\ a.draft = att.draft /\ a.tracked = att.tracked
    BY <1>w, NoRecordIs DEF HopeAttempt, Attempts, Evidence
  <2>4. \/ \E res : Gives("P", res)
        \/ /\ rec' = r /\ work' = Return(work, "P", "true") /\ UNCHANGED <<lock, timers>>
           /\ att' = [att EXCEPT !.term = NoRecord, !.invalid = invalid, !.cancel = @ /\ ~att.confirmed,
                                !.confirmed = FALSE, !.missing = FALSE, !.evidence = FALSE,
                                !.ids = att.ids]
    BY <1>4, <2>1 DEF EvidenceWrite
  <2>5. [att EXCEPT !.term = NoRecord, !.invalid = invalid, !.cancel = @ /\ ~att.confirmed,
                                !.confirmed = FALSE, !.missing = FALSE, !.evidence = FALSE,
                                !.ids = att.ids] = a
    BY <1>w DEF Attempts
  <2> HIDE DEF r, a
  <2> QED
    BY <1>1, <1>k, <1>u, <2>2, <2>3, <2>4, <2>5, EvidenceReturns
<1> QED
  BY <1>3, <1>4

\* An inspection that asks for a settlement.
LEMMA HopeSettle ==
    ASSUME TypeOK, Hoping, NEW a \in Attempts, HopeAttempt(a), a.tracked = att.tracked,
           a.tracked \/ work["S"].pc # "idle" => a.pending = att.pending /\ a.draft = att.draft,
           NEW x \in Inspection, x.status = "none", x.out \in {"none", "result"},
           NEW w \in Worker \ {"S", "P"}, work[w].pc # "authority", NEW pc, HopePc(w, pc), SettleAttempt(a, x, w, pc),
           w # "delegate" \/ pc \notin {"turn", "inspect", "reported"} \/ att.tracked \/ work["S"].pc = "idle"
    PROVE  /\ HopeAttempt(att') /\ HopeWork(work') /\ SettlesRight(work["S"], att)'
           /\ \A v \in Worker : work'[v].on = "S" => work'["S"].pc # "idle"
           /\ \A v \in Worker \ {w, "S"} : work'[v] = work[v]
           /\ work'[w].pc = pc /\ ~work'[w].fresh
           /\ \/ work'[w].on = "none" /\ work'[w].res = "false" /\ att' = a
              \/ work'[w].on = "S" /\ a.tracked /\ (x.out = "result" => att'.pending.out = "result")
           /\ att'.pending = a.pending \/ att'.pending.out = "result" \/ a.pending = NoInspection
<1>w. Works(work) /\ HopeWork(work) /\ w \in Worker /\ w # "S" /\ "S" \in Worker
  BY HopeWorkers DEF TypeOK, Hoping
<1>1. /\ att' \in Attempts /\ SameBut(att', a) /\ Works(work')
      /\ \A v \in Worker \ {w, "S"} : work'[v] = work[v]
      /\ work'[w].pc = pc /\ ~work'[w].fresh
      /\ \/ /\ att' = a /\ work'["S"] = work["S"]
            /\ work'[w].on = "none" /\ work'[w].res = "false"
         \/ /\ a.tracked /\ Stopped(a, x)
            /\ work'[w].on = "S" /\ work'[w].res = "none"
            /\ work["S"].pc = "idle" => work'["S"].pc = "begin" /\ work'["S"].on = "none"
            /\ work["S"].pc # "idle" => work'["S"].pc = work["S"].pc /\ work'["S"].on = work["S"].on
                                        /\ work'["S"].res = work["S"].res
            /\ \/ Replaces(a, x) /\ att'.pending = x /\ ~work'["S"].fresh
               \/ /\ ~Replaces(a, x) /\ att' = a
                  /\ work["S"].pc # "idle" => work'["S"] = work["S"]
                  /\ work["S"].pc = "idle" => ~work'["S"].fresh
  BY <1>w, SettleIs
<1> HIDE DEF SettleAttempt
<1>2. Replaces(a, x) => x.out = "result" \/ a.pending = NoInspection
  BY DEF Replaces
<1>3. ~Replaces(a, x) => x.out # "result"
  BY DEF Replaces, HopeAttempt
<1>4. HopeAttempt(att')
  BY <1>1 DEF HopeAttempt, SameBut
<1>5. HopeWork(work')
  <2>1. Steps(work', work, {w, "S"})
    BY <1>1, SameSteps
  <2>2. work'["S"].on \in {"none", "S", "P"} /\ HopePc("S", work'["S"].pc)
    BY <1>1, <1>w DEF HopeWork, HopePc
  <2>3. work'[w].on \in {"none", "S", "P"} /\ HopePc(w, work'[w].pc)
    BY <1>1
  <2> QED
    BY <1>w, <2>1, <2>2, <2>3, HopeSteps
<1>6. SettlesRight(work["S"], att)'
  <2>1. CASE work'[w].on = "none"
    <3>1. att' = a /\ work'["S"] = work["S"]
      BY <1>1, <2>1
    <3>2. /\ w = "recover" \/ work'["recover"] = work["recover"]
          /\ w = "delegate" \/ work'["delegate"] = work["delegate"]
      BY <1>1, HopeWorkers
    <3>3. att.tracked \/ work["S"].pc = "idle" \/ Forsaken'
      BY <1>1, <3>2 DEF Hoping, SettlesRight, Forsaken, At
    <3> QED
      BY <3>1, <3>3 DEF Hoping, SettlesRight
  <2>2. CASE work'[w].on # "none"
    <3>1. a.tracked /\ att'.tracked
      BY <1>1, <2>2 DEF SameBut
    <3>2. CASE ~work'["S"].fresh
      BY <3>1, <3>2 DEF SettlesRight
    <3>3. CASE work'["S"].fresh
      <4>1. att' = a /\ work'["S"] = work["S"]
        BY <1>1, <2>2, <3>3
      <4> QED
        BY <3>1, <4>1 DEF SettlesRight, Hoping
    <3> QED
      BY <3>2, <3>3
  <2> QED
    BY <2>1, <2>2
<1>7. \A v \in Worker : work'[v].on = "S" => work'["S"].pc # "idle"
  <2>1. \A v \in Worker : work[v].on = "S" => work["S"].pc # "idle"
    BY DEF Hoping, Owed
  <2>2. work["S"].pc # "idle" => work'["S"].pc # "idle"
    BY <1>1
  <2>3. work'[w].on = "S" => work'["S"].pc # "idle"
    BY <1>1
  <2>4. work'["S"].on = "S" => work'["S"].pc # "idle"
    BY <1>1, <1>w, <2>1
  <2> QED
    BY <1>1, <2>1, <2>2, <2>3, <2>4
<1>8. /\ \/ work'[w].on = "none" /\ work'[w].res = "false" /\ att' = a
         \/ work'[w].on = "S" /\ a.tracked /\ (x.out = "result" => att'.pending.out = "result")
      /\ att'.pending = a.pending \/ att'.pending.out = "result" \/ a.pending = NoInspection
  BY <1>1, <1>2, <1>3
<1> QED
  BY <1>1, <1>4, <1>5, <1>6, <1>7, <1>8

\* ... by another worker than the call.
LEMMA HopeSettles ==
    ASSUME TypeOK, Hoping, UNCHANGED <<call, phase, host, events, rec>>, timers' \subseteq {"settle"},
           NEW x \in Inspection, x.status = "none", x.out \in {"none", "result"},
           NEW w \in {"event", "recover", "settleTimer"}, work[w].on = "none", work[w].pc # "authority",
           x.out = "result" \/ (w = "event" /\ work["event"].fresh),
           SettleAttempt(att, x, w, "settled")
    PROVE  Hoping'
<1>w. w \in Worker \ {"S", "P"} /\ "delegate" \in Worker \ {w, "S"} /\ HopePc(w, "settled")
  BY HopeWorkers DEF HopePc
<1>a. att \in Attempts /\ HopeAttempt(att)
  BY DEF TypeOK, Hoping, HopeData
<1>1. /\ HopeAttempt(att') /\ HopeWork(work') /\ SettlesRight(work["S"], att)'
      /\ \A v \in Worker : work'[v].on = "S" => work'["S"].pc # "idle"
      /\ \A v \in Worker \ {w, "S"} : work'[v] = work[v]
      /\ work'[w].pc = "settled" /\ ~work'[w].fresh
      /\ \/ work'[w].on = "none" /\ work'[w].res = "false" /\ att' = att
         \/ work'[w].on = "S" /\ att.tracked /\ (x.out = "result" => att'.pending.out = "result")
      /\ att'.pending = att.pending \/ att'.pending.out = "result" \/ att.pending = NoInspection
  BY <1>w, <1>a, HopeSettle
<1> HIDE DEF SettleAttempt
<1>2. Rests(work', work, "delegate")
  BY <1>1, <1>w DEF Rests
<1>3. work["event"].on = "S" => Rests(work', work, "event")
  BY <1>1, HopeWorkers DEF Rests
<1>4. work'["event"].fresh => work["event"].fresh
  BY <1>1, HopeWorkers
<1>5. Owed(work, att)'
  <2>1. CASE att'.pending = att.pending \/ att'.pending.out = "result"
    BY <1>1, <1>2, <1>3, <1>4, <2>1, OwedKept DEF Hoping
  <2>2. CASE ~(att'.pending = att.pending \/ att'.pending.out = "result")
    <3>1. x.out # "result" /\ att.pending = NoInspection
      BY <1>1, <2>2
    <3>2. w = "event" /\ work["event"].fresh /\ work["event"].on = "none"
      BY <3>1
    <3>3. NoInspection.out = "none"
      BY DEF NoInspection
    <3>4. ~(At("delegate") \in {"reported", "closing", "settled"} /\ work["delegate"].on = "S")
      BY <3>1, <3>2, <3>3 DEF Hoping, Owed, At
    <3> QED
      BY <1>1, <1>2, <3>4 DEF Owed, Rests, At
  <2> QED
    BY <2>1, <2>2
<1> QED
  BY <1>1, <1>2, <1>5, HopeKept DEF Hoping, HopeData

\* A turn that is seen working.
LEMMA HopeMark ==
    ASSUME TypeOK, Hoping, NEW w \in {"delegate", "event", "recover", "settleTimer"},
           work[w].pc # "authority", MarkActive(w), timers \subseteq {"settle"}
    PROVE  /\ HopeAttempt(att') /\ att'.pending = NoInspection /\ HopeWork(work') /\ SettlesRight(work["S"], att)'
           /\ timers' \subseteq {"settle"} /\ rec' = rec
           /\ \A v \in Worker : work'[v].on = "S" => work'["S"].pc # "idle"
           /\ \A v \in Worker \ {w, "S", "P"} : Stale(work', work, v)
           /\ ~work'[w].fresh
           /\ \/ work["S"].pc = "idle" /\ work'[w].pc = "evident" /\ work'[w].on = "P"
              \/ work["S"].pc # "idle" /\ work'[w].pc = "active" /\ work'[w].on = "S"
<1> DEFINE U == Overtake(work)
<1>w. Works(work) /\ HopeWork(work) /\ att \in Attempts /\ HopeAttempt(att)
  BY DEF TypeOK, Hoping, HopeData
<1>p. w \in Worker /\ w \notin {"S", "P"} /\ "S" \in Worker /\ "P" \in Worker /\ HopePc(w, "active") /\ HopePc(w, "evident")
  BY HopeWorkers DEF HopePc
<1>u. Works(U) /\ HopeWork(U) /\ \A v \in Worker : Stale(U, work, v)
  BY <1>w, OvertakeIs, HopeOvertake
<1>1. /\ att' = Invalidated(att) /\ timers' = timers \ {"settle"} /\ UNCHANGED <<rec, lock>>
      /\ work' = IF U["S"].pc # "idle" THEN Awaits(U, w, "S", "active") ELSE Awaits(U, w, "P", "evident")
  BY DEF MarkActive
<1> HIDE DEF U
<1>s. U["S"].pc = work["S"].pc /\ U["S"].on = work["S"].on /\ ~U["S"].fresh /\ U["P"].on = work["P"].on
  BY <1>p, <1>u DEF Stale
<1>2. /\ HopeAttempt(att') /\ att'.pending = NoInspection /\ att'.tracked = att.tracked
  BY <1>1, <1>w, InvalidatedIs DEF HopeAttempt, NoInspection
<1>3. /\ HopeWork(work') /\ ~work'[w].fresh /\ work'["S"].pc = work["S"].pc /\ ~work'["S"].fresh
      /\ \A v \in Worker \ {w, "S", "P"} : work'[v] = U[v]
      /\ \A v \in Worker : work'[v].on = "S" => work[v].on = "S" \/ (v = w /\ work["S"].pc # "idle")
      /\ \/ work["S"].pc = "idle" /\ work'[w].pc = "evident" /\ work'[w].on = "P"
         \/ work["S"].pc # "idle" /\ work'[w].pc = "active" /\ work'[w].on = "S"
  <2>1. CASE U["S"].pc # "idle"
    <3> DEFINE V == Awaits(U, w, "S", "active")
    <3>1. /\ HopeWork(V) /\ V[w].pc = "active" /\ V[w].on = "S" /\ ~V[w].fresh
          /\ \A v \in Worker \ {w, "S"} : V[v] = U[v]
          /\ V["S"] = U["S"]
      BY <1>p, <1>u, <2>1, HopeAwaits
    <3>2. work' = V
      BY <1>1, <2>1
    <3> HIDE DEF V
    <3>3. \A v \in Worker : V[v].on = "S" => U[v].on = "S" \/ v = w
      BY <3>1
    <3> QED
      BY <1>s, <1>u, <2>1, <3>1, <3>2, <3>3 DEF Stale
  <2>2. CASE U["S"].pc = "idle"
    <3> DEFINE V == Awaits(U, w, "P", "evident")
    <3>1. /\ HopeWork(V) /\ V[w].pc = "evident" /\ V[w].on = "P" /\ ~V[w].fresh
          /\ \A v \in Worker \ {w, "P"} : V[v] = U[v]
          /\ V["P"] = U["P"] \/ V["P"].on = "none"
      BY <1>p, <1>u, HopeAwaits
    <3>2. work' = V
      BY <1>1, <2>2
    <3> HIDE DEF V
    <3>3. \A v \in Worker : V[v].on = "S" => U[v].on = "S"
      BY <3>1
    <3>4. V["S"] = U["S"]
      BY <1>p, <3>1
    <3> QED
      BY <1>s, <1>u, <2>2, <3>1, <3>2, <3>3, <3>4 DEF Stale
  <2> QED
    BY <2>1, <2>2
<1>4. SettlesRight(work["S"], att)'
  <2>1. w = "recover" \/ work'["recover"].pc = work["recover"].pc
    BY <1>3, <1>u, HopeWorkers DEF Stale
  <2>2. w = "delegate" \/ (work'["delegate"].pc = work["delegate"].pc /\ work'["delegate"].on = work["delegate"].on)
    BY <1>3, <1>u, HopeWorkers DEF Stale
  <2> QED
    BY <1>2, <1>3, <2>1, <2>2 DEF SettlesRight, Forsaken, Hoping, At
<1>5. \A v \in Worker : work'[v].on = "S" => work'["S"].pc # "idle"
  BY <1>3 DEF Hoping, Owed
<1>6. \A v \in Worker \ {w, "S", "P"} : Stale(work', work, v)
  BY <1>3, <1>u DEF Stale
<1> QED
  BY <1>1, <1>2, <1>3, <1>4, <1>5, <1>6

\* ... by another worker than the call: by the event, or while it works.
LEMMA HopeMarks ==
    ASSUME TypeOK, Hoping, UNCHANGED <<call, phase, host, events>>,
           NEW w \in {"event", "recover", "settleTimer"}, work[w].pc # "authority", MarkActive(w),
           w = "event" \/ host = "busy"
    PROVE  Hoping'
<1>t. timers \subseteq {"settle"} /\ HopeRecord(rec) /\ events \in Seq({"busy", "idle"})
  BY DEF Hoping, HopeData
<1>1. /\ HopeAttempt(att') /\ att'.pending = NoInspection /\ HopeWork(work') /\ SettlesRight(work["S"], att)'
      /\ timers' \subseteq {"settle"} /\ rec' = rec
      /\ \A v \in Worker : work'[v].on = "S" => work'["S"].pc # "idle"
      /\ \A v \in Worker \ {w, "S", "P"} : Stale(work', work, v)
      /\ \/ work["S"].pc = "idle" /\ work'[w].pc = "evident" /\ work'[w].on = "P"
         \/ work["S"].pc # "idle" /\ work'[w].pc = "active" /\ work'[w].on = "S"
  BY <1>t, HopeMark
<1> HIDE DEF MarkActive
<1>2. Rests(work', work, "delegate") /\ "delegate" \in Worker
  BY <1>1, HopeWorkers DEF Stale, Rests
<1>3. Owed(work, att)'
  <2>1. CASE At("delegate") \in {"reported", "closing", "settled"} /\ work["delegate"].on = "S"
    <3>1. host = "result"
      BY <2>1 DEF Hoping, HopeCall
    <3>2. w = "event"
      BY <3>1
    <3>3. work["S"].pc # "idle"
      BY <1>2, <2>1 DEF Hoping, Owed
    <3> QED
      BY <1>1, <3>2, <3>3 DEF Owed
  <2>2. CASE ~(At("delegate") \in {"reported", "closing", "settled"} /\ work["delegate"].on = "S")
    BY <1>1, <1>2, <2>2 DEF Owed, Rests, At
  <2> QED
    BY <2>1, <2>2
<1> QED
  BY <1>1, <1>2, <1>3, <1>t, HopeKept

\* An inspection that settles nothing, or has heard how the settlement ended.
LEMMA HopeBacks ==
    ASSUME TypeOK, Hoping, UNCHANGED <<call, phase, host, events, rec, att>>, timers' \subseteq {"settle"},
           NEW w \in {"event", "recover", "settleTimer"}, work[w].on = "none", work[w].pc # "authority",
           NEW res, work' = Back(work, w, res)
    PROVE  Hoping'
<1>w. Works(work) /\ HopeWork(work) /\ w \in Inspector \ {"flush"} /\ w \in Worker \ {"S", "P", "delegate"}
  BY HopeWorkers DEF TypeOK, Hoping, Inspector
<1>1. /\ HopeWork(work') /\ \A v \in Worker \ {w} : work'[v] = work[v]
      /\ work'[w].on = "none" /\ ~work'[w].fresh
  BY <1>w, HopeBack
<1>2. /\ Rests(work', work, "delegate") /\ work'["S"] = work["S"]
      /\ work["event"].on = "S" => Rests(work', work, "event")
      /\ work'["event"].fresh => work["event"].fresh
  BY <1>1, <1>w, HopeWorkers DEF Rests
<1>3. \A v \in Worker : work'[v].on = "S" => work'["S"].pc # "idle"
  BY <1>1, <1>2 DEF Hoping, Owed
<1>4. Recovers
  BY <1>1, HopeWorkers DEF Recovers, Forsaken, At
<1> QED
  BY <1>1, <1>2, <1>3, <1>4, HopeSame DEF Hoping, HopeData

\* ... by a worker that remembers the attempt again.
LEMMA HopeBacksAgain ==
    ASSUME TypeOK, Hoping, UNCHANGED <<call, phase, host, events, rec>>, timers' \subseteq {"settle"},
           att' = [att EXCEPT !.tracked = TRUE],
           NEW w \in {"event", "recover", "settleTimer"}, work[w].on = "none", NEW res, work' = Back(work, w, res)
    PROVE  Hoping'
<1>w. Works(work) /\ HopeWork(work) /\ w \in Inspector \ {"flush"} /\ w \in Worker \ {"S", "P", "delegate"}
  BY HopeWorkers DEF TypeOK, Hoping, Inspector
<1>1. /\ HopeWork(work') /\ \A v \in Worker \ {w} : work'[v] = work[v]
      /\ work'[w].on = "none" /\ ~work'[w].fresh
  BY <1>w, HopeBack
<1>2. /\ Rests(work', work, "delegate") /\ work'["S"] = work["S"]
      /\ work["event"].on = "S" => Rests(work', work, "event")
      /\ work'["event"].fresh => work["event"].fresh
  BY <1>1, <1>w, HopeWorkers DEF Rests
<1>3. \A v \in Worker : work'[v].on = "S" => work'["S"].pc # "idle"
  BY <1>1, <1>2 DEF Hoping, Owed
<1>4. att'.tracked /\ att'.pending = att.pending /\ att'.draft = att.draft /\ HopeAttempt(att')
  BY DEF TypeOK, Attempts, Hoping, HopeData, HopeAttempt
<1>5. SettlesRight(work["S"], att)'
  BY <1>2, <1>4 DEF SettlesRight, Hoping
<1>6. Owed(work, att)'
  BY <1>2, <1>3, <1>4, OwedKept DEF Hoping
<1> QED
  BY <1>1, <1>2, <1>4, <1>5, <1>6, HopeKept DEF Hoping, HopeData

\* ... by the call.
LEMMA HopeJudged ==
    ASSUME TypeOK, Hoping, UNCHANGED <<phase, host, events, rec, att, timers>>,
           call' = call \/ \E x : call' = [call EXCEPT !.heard = x],
           At("delegate") \in {"reconcile", "active", "evident", "settled"}, work["delegate"].on = "none",
           NEW res, work' = Back(work, "delegate", res), res = "true" => rec.status = "reported-completed"
    PROVE  Hoping'
<1>w. Works(work) /\ HopeWork(work) /\ "delegate" \in Inspector \ {"flush"} /\ "delegate" \in Worker
  BY HopeWorkers DEF TypeOK, Hoping, Inspector
<1>1. /\ HopeWork(work') /\ \A v \in Worker \ {"delegate"} : work'[v] = work[v]
      /\ work'["delegate"].on = "none" /\ work'["delegate"].pc = BackPc("delegate", res) /\ work'["delegate"].res = res
  BY <1>w, HopeBack
<1>2. work'["delegate"].pc = "judged"
  BY <1>1 DEF BackPc
<1>3. work'["S"] = work["S"] /\ work'["event"] = work["event"] /\ work'["recover"] = work["recover"]
  BY <1>1, HopeWorkers
<1>c. call'.missing = call.missing /\ call'.answer = call.answer
  BY DEF TypeOK, Calls
<1>4. HopeData'
  BY <1>c DEF HopeData, Hoping
<1>5. HopeCall'
  BY <1>2, <1>c DEF HopeCall, Hoping, At
<1>6. ToldRight(work["delegate"], rec)'
  BY <1>1, <1>2 DEF ToldRight
<1>7. SettlesRight(work["S"], att)' /\ Owed(work, att)'
  BY <1>1, <1>2, <1>3 DEF SettlesRight, Forsaken, Owed, Hoping, At
<1> QED
  BY <1>1, <1>4, <1>5, <1>6, <1>7 DEF Hoping

\* An event, recovery or timer inspects the turn.
LEMMA HopeInspects ==
    ASSUME TypeOK, Hopeful, Hoping, NEW w \in {"event", "recover", "settleTimer"}, Inspect(w)
    PROVE  Hoping'
<1>k. UNCHANGED <<call, phase, host, events>> /\ work[w].on = "none" /\ work[w].pc # "authority"
  BY DEF Inspect, HostRests, Ready
<1>t. timers \subseteq {"settle"}
  BY DEF Hoping, HopeData
<1>1. PICK x \in Seen \cup {Unknown} : Hears(x) /\ Judge(w, x, work[w].pc = "known")
  BY DEF Inspect
<1>2. /\ x \in Inspection /\ x.status = "none"
      /\ \/ x.state = "running" /\ x.out = "none" /\ host = "busy"
         \/ x.state = "unknown" /\ x.out = "none"
         \/ x.state \in {"idle", "inactive"} /\ x.out = "result" /\ host = "result"
  BY <1>1, HearsHope
<1>3. work[w].pc = "known" => w = "event"
  <2>1. w \in Worker
    BY HopeWorkers
  <2> QED
    BY <2>1 DEF Hoping, HopeWork, HopePc
<1>4. IdleSeen \in Inspection /\ IdleSeen.status = "none" /\ IdleSeen.out = "none"
  BY ConstantsAre DEF IdleSeen, NoInspection
<1>5. ASSUME NEW res, GoesBack(w, res) PROVE Hoping'
  BY <1>5, <1>k, <1>t, HopeBacks DEF GoesBack
<1>6. CASE ~work[w].fresh
  BY <1>1, <1>5, <1>6 DEF Judge
<1>7. CASE work[w].fresh /\ x.state = "running"
  <2>1. MarkActive(w) /\ host = "busy"
    BY <1>1, <1>2, <1>7 DEF Judge
  <2> QED
    BY <1>k, <2>1, HopeMarks
<1>8. CASE work[w].fresh /\ x.state = "unknown" /\ work[w].pc = "known"
  <2>1. SettleAttempt(att, IdleSeen, w, "settled") /\ UNCHANGED <<rec, lock, timers>>
    BY <1>1, <1>8 DEF Judge
  <2> QED
    BY <1>3, <1>4, <1>8, <1>k, <1>t, <2>1, HopeSettles
<1>9. CASE work[w].fresh /\ x.state \in {"unknown", "idle", "inactive"} /\ ~(x.state = "unknown" /\ work[w].pc = "known")
  <2>1. \/ /\ work' = Back(work, w, "false") /\ UNCHANGED <<rec, timers>>
           /\ att' = [att EXCEPT !.tracked = TRUE]
        \/ \E res : GoesBack(w, res)
        \/ Stopped(att, x) /\ SettleAttempt(att, x, w, "settled") /\ UNCHANGED <<rec, lock, timers>>
    <3> HIDE DEF GoesBack, SettleAttempt, Stopped
    <3> QED
      BY <1>1, <1>9 DEF Judge
  <2>2. CASE work' = Back(work, w, "false") /\ UNCHANGED <<rec, timers>> /\ att' = [att EXCEPT !.tracked = TRUE]
    BY <1>k, <1>t, <2>2, HopeBacksAgain
  <2>3. CASE Stopped(att, x) /\ SettleAttempt(att, x, w, "settled") /\ UNCHANGED <<rec, lock, timers>>
    <3>1. x.out = "result"
      BY <1>2, <2>3 DEF Stopped
    <3> QED
      BY <1>2, <1>k, <1>t, <2>3, <3>1, HopeSettles
  <2> QED
    BY <1>5, <2>1, <2>2, <2>3
<1> QED
  BY <1>2, <1>6, <1>7, <1>8, <1>9

\* The call inspects its turn again.
LEMMA HopeInspectsCall ==
    ASSUME TypeOK, Hopeful, Hoping, Inspect("delegate")
    PROVE  Hoping'
<1>k. UNCHANGED <<phase, host, events>> /\ work["delegate"].on = "none"
  BY DEF Inspect, HostRests, Ready
<1>w. /\ "delegate" \in Worker \ {"S", "P"} /\ At("delegate") = "reconcile" /\ att \in Attempts /\ HopeAttempt(att)
      /\ timers \subseteq {"settle"} /\ HopeRecord(rec) /\ events \in Seq({"busy", "idle"}) /\ call \in Calls
      /\ HopePc("delegate", "settled") /\ work["delegate"].pc # "authority"
  <2>1. At("delegate") \in {"reconcile", "known"}
    BY DEF Inspect, Ready, At
  <2> QED
    BY <2>1, HopeWorkers DEF Hoping, HopeData, HopeWork, HopePc, At, TypeOK
<1>1. PICK x \in Seen \cup {Unknown} :
        /\ Hears(x) /\ Judge("delegate", x, work["delegate"].pc = "known")
        /\ call' = [call EXCEPT !.heard = x.out]
  BY DEF Inspect
<1>2. /\ x \in Inspection /\ x.status = "none"
      /\ \/ x.state = "running" /\ x.out = "none" /\ host = "busy"
         \/ x.state = "unknown" /\ x.out = "none"
         \/ x.state \in {"idle", "inactive"} /\ x.out = "result" /\ host = "result"
  BY <1>1, HearsHope
<1>c. call'.missing = call.missing /\ call'.answer = call.answer /\ ~call'.missing
  BY <1>1, <1>w DEF Calls, Hoping, HopeData
<1>3. CASE work' = Back(work, "delegate", "false") /\ UNCHANGED <<rec, att, lock, timers>>
  BY <1>1, <1>3, <1>k, <1>w, HopeJudged
<1>4. CASE MarkActive("delegate") /\ host = "busy"
  <2>1. /\ HopeAttempt(att') /\ att'.pending = NoInspection /\ HopeWork(work') /\ SettlesRight(work["S"], att)'
        /\ timers' \subseteq {"settle"} /\ rec' = rec
        /\ \A v \in Worker : work'[v].on = "S" => work'["S"].pc # "idle"
        /\ work'["delegate"].pc \in {"active", "evident"}
    BY <1>4, <1>k, <1>w, HopeMark
  <2> HIDE DEF MarkActive
  <2>2. HopeData'
    BY <1>c, <1>k, <1>w, <2>1 DEF HopeData
  <2>3. HopeCall'
    BY <1>c, <1>w, <2>1 DEF HopeCall, Hoping, At
  <2>4. ToldRight(work["delegate"], rec)' /\ Owed(work, att)'
    BY <2>1 DEF ToldRight, Owed
  <2> QED
    BY <2>1, <2>2, <2>3, <2>4 DEF Hoping
<1>5. CASE SettleAttempt(att, x, "delegate", "settled") /\ Stopped(att, x) /\ UNCHANGED <<rec, lock, timers>>
  <2>1. x.out = "result" /\ host = "result"
    BY <1>2, <1>5 DEF Stopped
  <2>2. /\ HopeAttempt(att') /\ HopeWork(work') /\ SettlesRight(work["S"], att)'
        /\ \A v \in Worker : work'[v].on = "S" => work'["S"].pc # "idle"
        /\ work'["delegate"].pc = "settled"
        /\ \/ work'["delegate"].on = "none" /\ work'["delegate"].res = "false"
           \/ work'["delegate"].on = "S" /\ att'.pending.out = "result"
    BY <1>2, <1>5, <1>w, <2>1, HopeSettle
  <2> HIDE DEF SettleAttempt
  <2>3. HopeData'
    BY <1>5, <1>c, <1>k, <1>w, <2>2 DEF HopeData
  <2>4. HopeCall'
    BY <1>c, <1>k, <1>w, <2>1, <2>2 DEF HopeCall, Hoping, At
  <2>5. ToldRight(work["delegate"], rec)'
    BY <2>2 DEF ToldRight
  <2>6. Owed(work, att)'
    BY <2>2 DEF Owed
  <2> QED
    BY <2>2, <2>3, <2>4, <2>5, <2>6 DEF Hoping
<1>6. \/ work' = Back(work, "delegate", "false") /\ UNCHANGED <<rec, att, lock, timers>>
      \/ MarkActive("delegate") /\ x.state = "running"
      \/ SettleAttempt(att, x, "delegate", "settled") /\ Stopped(att, x) /\ UNCHANGED <<rec, lock, timers>>
  <2>1. work["delegate"].pc # "known" /\ x.state # "missing"
    BY <1>2, <1>w DEF At
  <2> QED
    BY <1>1, <2>1 DEF Judge, GoesBack
<1> QED
  BY <1>2, <1>3, <1>4, <1>5, <1>6

\* What it waited for is over.
LEMMA HopeMarked ==
    ASSUME TypeOK, Hoping, NEW w \in {"event", "recover", "settleTimer"}, Marked(w) \/ Waited(w)
    PROVE  Hoping'
<1>k. UNCHANGED <<call, phase, host, events>> /\ work[w].on = "none" /\ work[w].pc # "authority"
  BY DEF Marked, Waited, Keep, HostRests, Ready
<1>w. /\ Works(work) /\ HopeWork(work) /\ w \in Worker \ {"S", "P", "delegate"} /\ timers \subseteq {"settle"}
      /\ HopePc(w, "evident")
  BY HopeWorkers DEF TypeOK, Hoping, HopeData, HopePc
<1>1. ASSUME NEW res, GoesBack(w, res) PROVE Hoping'
  BY <1>1, <1>k, <1>w, HopeBacks DEF GoesBack
<1>2. CASE work' = Awaits(work, w, "P", "evident") /\ UNCHANGED <<rec, att, lock, timers>>
  <2>1. /\ HopeWork(work') /\ ~work'[w].fresh /\ work'[w].on = "P"
        /\ \A v \in Worker \ {w, "P"} : work'[v] = work[v]
        /\ work'["P"] = work["P"] \/ work'["P"].on = "none"
    BY <1>2, <1>w, HopeAwaits, HopeWorkers
  <2>2. /\ Rests(work', work, "delegate") /\ work'["S"] = work["S"]
        /\ work["event"].on = "S" => Rests(work', work, "event")
        /\ work'["event"].fresh => work["event"].fresh
    BY <1>k, <1>w, <2>1, HopeWorkers DEF Rests
  <2>3. \A v \in Worker : work'[v].on = "S" => work[v].on = "S"
    BY <2>1
  <2>4. \A v \in Worker : work'[v].on = "S" => work'["S"].pc # "idle"
    BY <2>2, <2>3 DEF Hoping, Owed
  <2>5. Recovers
    BY <1>k, <1>w, <2>1, HopeWorkers DEF Recovers, Forsaken, At
  <2> QED
    BY <1>2, <1>k, <1>w, <2>1, <2>2, <2>4, <2>5, HopeSame DEF Hoping, HopeData
<1>3. CASE Marked(w)
  BY <1>1, <1>2, <1>3 DEF Marked
<1>4. CASE Waited(w)
  <2>1. work[w].pc \in {"settled", "evident"}
    BY <1>4, <1>w DEF Waited, Ready, HopeWork, HopePc
  <2> QED
    BY <1>1, <1>4, <2>1 DEF Waited
<1> QED
  BY <1>3, <1>4

\* What the call waited for is over.
LEMMA HopeMarkedCall ==
    ASSUME TypeOK, Hoping, Marked("delegate") \/ Waited("delegate")
    PROVE  Hoping'
<1>k. UNCHANGED <<call, phase, host, events>> /\ work["delegate"].on = "none"
  BY DEF Marked, Waited, Keep, HostRests, Ready
<1>w. /\ Works(work) /\ HopeWork(work) /\ "delegate" \in Worker \ {"S", "P"} /\ timers \subseteq {"settle"}
      /\ HopePc("delegate", "evident")
  BY HopeWorkers DEF TypeOK, Hoping, HopeData, HopePc
<1>1. ASSUME NEW res, GoesBack("delegate", res), At("delegate") \in {"active", "evident", "settled"},
             res = "true" => rec.status = "reported-completed"
      PROVE  Hoping'
  BY <1>1, <1>k, HopeJudged DEF GoesBack
<1>2. CASE Marked("delegate") /\ work' = Awaits(work, "delegate", "P", "evident") /\ UNCHANGED <<rec, att, lock, timers>>
  <2>1. /\ HopeWork(work') /\ work'["delegate"].pc = "evident" /\ work'["delegate"].on = "P"
        /\ \A v \in Worker \ {"delegate", "P"} : work'[v] = work[v]
        /\ work'["P"] = work["P"] \/ work'["P"].on = "none"
    BY <1>2, <1>w, HopeAwaits, HopeWorkers
  <2>2. /\ work'["S"] = work["S"] /\ work'["recover"] = work["recover"]
        /\ \A v \in Worker : work'[v].on = "S" => work[v].on = "S"
    BY <2>1, HopeWorkers
  <2>3. HopeData'
    BY <1>2, <1>k DEF HopeData, Hoping
  <2>4. HopeCall'
    <3>1. At("delegate") = "active"
      BY <1>2 DEF Marked, Ready, At
    <3> QED
      BY <1>k, <2>1, <3>1 DEF HopeCall, Hoping, At
  <2>5. ToldRight(work["delegate"], rec)'
    BY <2>1 DEF ToldRight
  <2>6. SettlesRight(work["S"], att)' /\ Owed(work, att)'
    BY <1>2, <2>1, <2>2 DEF SettlesRight, Forsaken, Owed, Hoping, At
  <2> QED
    BY <2>1, <2>3, <2>4, <2>5, <2>6 DEF Hoping
<1>3. CASE Marked("delegate")
  <2>1. At("delegate") = "active"
    BY <1>3 DEF Marked, Ready, At
  <2> QED
    BY <1>1, <1>2, <1>3, <2>1 DEF Marked
<1>4. CASE Waited("delegate")
  <2>1. At("delegate") \in {"settled", "evident"}
    BY <1>4, <1>w DEF Waited, Ready, HopeWork, HopePc, At
  <2>2. CASE At("delegate") = "settled"
    <3>1. work["delegate"].res = "true" => rec.status = "reported-completed"
      BY <1>k, <2>2 DEF Hoping, ToldRight, At
    <3> QED
      BY <1>1, <1>4, <2>2, <3>1 DEF Waited, At
  <2>3. CASE At("delegate") = "evident"
    <3>1. \E res \in {"error", "false"} : GoesBack("delegate", res)
      BY <1>4, <2>3 DEF Waited, At
    <3> QED
      BY <1>1, <2>3, <3>1
  <2> QED
    BY <2>1, <2>2, <2>3
<1> QED
  BY <1>3, <1>4

\* A worker that waits for nobody goes on, is done or asks the host.
LEMMA HopeGoes ==
    ASSUME TypeOK, Hoping, UNCHANGED <<call, host, att, rec, phase>>, timers' \subseteq {"settle"},
           events' \in Seq({"busy", "idle"}), NEW w \in Worker \ {"S", "P", "delegate"}, work[w].pc # "authority",
           NEW pc, HopePc(w, pc),
           work' = Goto(work, w, pc) \/ (work' = Inspects(work, w, pc) /\ (w = "event" => phase # "flushing")),
           w = "event" => ~(At("event") = "active" /\ work["event"].on = "S")
    PROVE  Hoping'
<1>w. Works(work) /\ HopeWork(work) /\ w \in Worker /\ w # "delegate"
  BY DEF TypeOK, Hoping
<1>1. /\ work'[w].on = "none" /\ \A v \in Worker \ {w} : work'[v] = work[v]
      /\ work'[w].fresh => work' = Inspects(work, w, pc)
  <2>1. CASE work' = Goto(work, w, pc)
    BY <1>w, <2>1, GoesOn
  <2>2. CASE work' = Inspects(work, w, pc)
    BY <1>w, <2>2, InspectsIs DEF Puts
  <2> QED
    BY <2>1, <2>2
<1>2. HopeWork(work')
  BY <1>w, HopeTo
<1>3. Rests(work', work, "delegate") /\ work'["S"] = work["S"]
  BY <1>1, HopeWorkers DEF Rests
<1>4. At("event") = "active" /\ work["event"].on = "S" => Rests(work', work, "event")
  BY <1>1, HopeWorkers DEF Rests
<1>5. work'["event"].fresh => work["event"].fresh \/ phase # "flushing"
  <2>1. CASE w = "event"
    <3>1. work' = Goto(work, w, pc) => ~work'[w].fresh
      BY <1>w, GoesOn
    <3> QED
      BY <2>1, <3>1
  <2>2. CASE w # "event"
    BY <1>1, <2>2, HopeWorkers
  <2> QED
    BY <2>1, <2>2
<1>6. \A v \in Worker : work'[v].on = "S" => work'["S"].pc # "idle"
  BY <1>1, <1>3 DEF Hoping, Owed
<1>7. Recovers
  BY <1>1, HopeWorkers DEF Recovers, Forsaken, At
<1> QED
  BY <1>2, <1>3, <1>4, <1>5, <1>6, <1>7, HopeSame

\* A flush waits for the call.
LEMMA HopePhase ==
    ASSUME TypeOK, FlushRight, Hoping
    PROVE  phase \in {"serving", "flushing"}
<1>1. At("delegate") \notin Ended
  BY HopeWorkers DEF Hoping, HopeWork, HopePc, Ended, At
<1> QED
  BY <1>1 DEF FlushRight, TypeOK

\* What is left of the events.
LEMMA HopeEvents ==
    ASSUME NEW s \in Seq({"busy", "idle"}), s # <<>>
    PROVE  Head(s) \in {"busy", "idle"} /\ Tail(s) \in Seq({"busy", "idle"})
  BY HeadTailProperties

\* An event comes: one that is handled in a flush overtakes the answer.
LEMMA HopeBeginEvent ==
    ASSUME TypeOK, FlushRight, Hoping, BeginEvent
    PROVE  Hoping'
<1>w. /\ HopeAttempt(att) /\ HopeRecord(rec) /\ timers \subseteq {"settle"} /\ att \in Attempts /\ Works(work)
      /\ HopeWork(work) /\ events \in Seq({"busy", "idle"}) /\ At("event") = "idle" /\ events # <<>>
  BY DEF TypeOK, Hoping, HopeData, BeginEvent, At
<1>k. UNCHANGED <<call, phase>>
  BY DEF BeginEvent
<1>t. Head(events) \in {"busy", "idle"} /\ Tail(events) \in Seq({"busy", "idle"})
  BY <1>w, HopeEvents
<1>p. work["event"].pc # "authority" /\ \A pc \in {"late", "known"} : HopePc("event", pc)
  BY <1>w DEF HopePc, At
<1>1. CASE /\ Quiescing /\ att' = Invalidated(att) /\ work' = Overtake(work) /\ timers' = timers \ {"settle"}
           /\ Popped /\ UNCHANGED <<rec, lock>>
  <2>1. phase = "flushing"
    BY <1>1, HopePhase DEF Quiescing
  <2>2. HopeAttempt(att') /\ att'.pending = NoInspection /\ att'.tracked = att.tracked
    BY <1>1, <1>w, InvalidatedIs DEF HopeAttempt, NoInspection
  <2>3. HopeWork(work') /\ \A v \in Worker : Stale(work', work, v)
    BY <1>1, <1>w, HopeOvertake, OvertakeIs
  <2>4. SettlesRight(work["S"], att)'
    BY <2>2, <2>3, HopeWorkers DEF SettlesRight, Forsaken, Hoping, Stale, At
  <2>5. Rests(work', work, "delegate")
    BY <2>3, HopeWorkers DEF Rests, Stale
  <2>6. Owed(work, att)'
    <3>1. \A v \in Worker : work'[v].on = "S" => work'["S"].pc # "idle"
      BY <2>3, HopeWorkers DEF Hoping, Owed, Stale
    <3>2. ~work'["event"].fresh /\ phase' = "flushing"
      BY <1>k, <2>1, <2>3, HopeWorkers DEF Stale
    <3> QED
      BY <2>2, <3>1, <3>2 DEF Owed
  <2>7. host' = host /\ events' = Tail(events) /\ rec' = rec /\ timers' \subseteq {"settle"}
    BY <1>1, <1>w DEF Popped
  <2> QED
    BY <1>k, <1>t, <1>w, <2>2, <2>3, <2>4, <2>5, <2>6, <2>7, HopeKept
<1>2. CASE Dropped
  <2>1. /\ UNCHANGED <<host, rec, att, timers, work>> /\ events' = Tail(events)
    BY <1>2 DEF Dropped, Popped
  <2> QED
    BY <1>k, <1>t, <1>w, <2>1, HopeSame DEF Rests, Recovers, Forsaken, Hoping, Owed, At
<1>3. CASE ~Quiescing /\ UNCHANGED <<rec, att, lock, timers>> /\ HostRests
           /\ \E pc \in {"late", "known"} : work' = Inspects(work, "event", pc)
  <2>1. PICK pc \in {"late", "known"} : work' = Inspects(work, "event", pc)
    BY <1>3
  <2>2. phase # "flushing"
    BY <1>3 DEF Quiescing
  <2> QED
    BY <1>3, <1>k, <1>p, <1>w, <2>1, <2>2, HopeGoes, HopeWorkers DEF HostRests
<1>4. CASE MarkActive("event") /\ HostRests
  BY <1>4, <1>k, <1>p, HopeMarks DEF HostRests
<1>5. \/ /\ Quiescing /\ att' = Invalidated(att) /\ work' = Overtake(work) /\ timers' = timers \ {"settle"}
         /\ Popped /\ UNCHANGED <<rec, lock>>
      \/ Dropped
      \/ ~Quiescing /\ UNCHANGED <<rec, att, lock, timers>> /\ HostRests /\ work' = Inspects(work, "event", "late")
      \/ ~Quiescing /\ UNCHANGED <<rec, att, lock, timers>> /\ HostRests /\ work' = Inspects(work, "event", "known")
      \/ MarkActive("event") /\ HostRests
  <2>1. Head(events) # "deleted"
    BY <1>t
  <2> QED
    BY <2>1 DEF BeginEvent
<1> QED
  BY <1>1, <1>2, <1>3, <1>4, <1>5

\* A late event is ignored, or the turn is working again.
LEMMA HopeLateEvent ==
    ASSUME TypeOK, Hoping, LateEvent \/ EventHandled
    PROVE  Hoping'
<1>k. UNCHANGED <<call, phase, host>> /\ work["event"].on = "none" /\ work["event"].pc # "authority"
  BY DEF LateEvent, EventHandled, Keep, HostRests, Ready
<1>t. timers \subseteq {"settle"} /\ events \in Seq({"busy", "idle"})
  BY DEF Hoping, HopeData
<1>p. HopePc("event", "handled") /\ HopePc("event", "idle") /\ "event" \in Worker \ {"S", "P", "delegate"}
  BY HopeWorkers DEF HopePc
<1>1. CASE LateEvent
  <2>1. \/ work' = Goto(work, "event", "handled") /\ UNCHANGED <<rec, att, lock, timers>>
        \/ MarkActive("event")
    BY <1>1 DEF LateEvent
  <2>2. events' = events
    BY <1>1 DEF LateEvent, Keep, HostRests
  <2>3. CASE MarkActive("event")
    BY <1>k, <2>2, <2>3, HopeMarks
  <2>4. CASE work' = Goto(work, "event", "handled") /\ UNCHANGED <<rec, att, lock, timers>>
    BY <1>k, <1>p, <1>t, <2>2, <2>4, HopeGoes
  <2> QED
    BY <2>1, <2>3, <2>4
<1>2. CASE EventHandled
  <2>1. events' \in Seq({"busy", "idle"})
    BY <1>2, <1>t, HopeEvents DEF EventHandled
  <2>2. work' = Goto(work, "event", "idle") /\ UNCHANGED <<rec, att, lock, timers>>
    BY <1>2 DEF EventHandled
  <2> QED
    BY <1>k, <1>p, <1>t, <2>1, <2>2, HopeGoes
<1> QED
  BY <1>1, <1>2

\* The settlement is tried again.
LEMMA HopeTimer ==
    ASSUME TypeOK, Hoping, SettleTimer \/ SettleTimerEnds
    PROVE  Hoping'
<1>k. UNCHANGED <<call, phase, host, events, rec>> /\ work["settleTimer"].pc # "authority"
  BY DEF SettleTimer, SettleTimerEnds, Keep, HostRests, Ready
<1>t. /\ timers \subseteq {"settle"} /\ events \in Seq({"busy", "idle"}) /\ HopeAttempt(att)
      /\ "settleTimer" \in Worker \ {"S", "P", "delegate"} /\ "settleTimer" # "event"
      /\ HopePc("settleTimer", "idle") /\ HopePc("settleTimer", "reconcile")
  BY HopeWorkers DEF Hoping, HopeData, HopePc
<1>1. CASE work' = work /\ att' = att /\ timers' \subseteq {"settle"}
  BY <1>1, <1>k, <1>t, HopeSame DEF Rests, Recovers, Forsaken, Hoping, Owed, At
<1>2. CASE work' = Inspects(work, "settleTimer", "reconcile") /\ att' = att /\ timers' \subseteq {"settle"}
  BY <1>2, <1>k, <1>t, HopeGoes
<1>3. CASE work' = Goto(work, "settleTimer", "idle") /\ att' = att /\ timers' \subseteq {"settle"}
  BY <1>3, <1>k, <1>t, HopeGoes
<1>4. CASE SettleTimer
  <2>1. ~att.confirmed /\ timers \ {"settle"} \subseteq {"settle"}
    BY <1>t DEF HopeAttempt
  <2> QED
    BY <1>1, <1>2, <1>4, <2>1 DEF SettleTimer
<1>5. CASE SettleTimerEnds
  <2>1. timers' \subseteq {"settle"}
    BY <1>5, <1>t DEF SettleTimerEnds
  <2> QED
    BY <1>3, <1>5, <2>1 DEF SettleTimerEnds
<1> QED
  BY <1>4, <1>5

\* A recovery reads the record and forgets the attempt, but for its data ...
LEMMA HopeRecoverRead ==
    ASSUME TypeOK, Hopeful, TurnOwned, Hoping, RecoverRead, ~Continues
    PROVE  Hoping'
<1>k. UNCHANGED <<call, phase, host, events, rec, timers>> /\ At("recover") = "read"
  BY DEF RecoverRead, Keep, HostRests, Ready, At
<1>t. /\ timers \subseteq {"settle"} /\ events \in Seq({"busy", "idle"}) /\ HopeAttempt(att) /\ HopeRecord(rec)
      /\ att \in Attempts /\ rec \in Record /\ Works(work) /\ HopeWork(work)
      /\ "recover" \in Worker \ {"S", "P", "delegate"} /\ "recover" # "event"
      /\ HopePc("recover", "idle") /\ HopePc("recover", "authority")
  BY HopeWorkers DEF TypeOK, Hoping, HopeData, HopePc
<1>1. CASE work' = Goto(work, "recover", "idle") /\ UNCHANGED att
  BY <1>1, <1>k, <1>t, HopeGoes DEF At
<1> DEFINE b == IF att.tracked THEN att ELSE Attempt(rec)
           term == PersistedTerminal({rec})
           c == [b EXCEPT !.tracked = FALSE, !.ids = {rec.at}, !.cancel = rec.cancel,
                        !.confirmed = @ \/ rec.confirmed,
                        !.missing = @ \/ rec.confirmed,
                        !.invalid = rec.invalid, !.term = term]
<1>2. CASE att' = c /\ work' = Goto(work, "recover", "authority") /\ att.fg = "none"
  <2>1. b \in Attempts /\ HopeAttempt(b)
    <3>1. Attempt(rec) \in Attempts
      BY <1>t, AttemptType
    <3>2. HopeAttempt(Attempt(rec))
      BY <1>t, NoRecordIs DEF HopeAttempt, HopeRecord, Attempt, Evidence, NoInspection
    <3> QED
      BY <1>t, <3>1, <3>2
  <2>2. term.status \in Evidence
    <3>1. {rec} \in SUBSET Record
      BY <1>t
    <3>2. term = NoRecord \/ Stands({rec}, term)
      BY <3>1, PersistedTerminalIs
    <3> QED
      BY <1>t, <3>2, NoRecordIs DEF Stands, HopeRecord, Evidence
  <2>3. att.tracked => b.pending = att.pending /\ b.draft = att.draft
    OBVIOUS
  <2> HIDE DEF b, term
  <2>4. HopeAttempt(att') /\ att'.pending = b.pending /\ att'.draft = b.draft
    BY <1>2, <1>t, <2>1, <2>2 DEF HopeAttempt, HopeRecord, Attempts
  <2>5. HopeWork(work') /\ work'["recover"].pc = "authority" /\ work'["recover"].on = "none"
        /\ \A v \in Worker \ {"recover"} : work'[v] = work[v]
    BY <1>2, <1>t, HopeGoto
  <2>6. work'["S"] = work["S"] /\ work'["delegate"] = work["delegate"] /\ work'["event"] = work["event"]
    BY <2>5, HopeWorkers
  <2>7. work["S"].pc # "idle" => att.tracked
    BY <1>k DEF Hoping, SettlesRight, Forsaken
  <2>8. SettlesRight(work["S"], att)'
    <3>1. At("delegate") \notin {"turn", "inspect"}
      BY <1>2 DEF TurnOwned
    <3>2. At("delegate") = "reported" => work["delegate"].on = "S"
      BY NothingTold DEF Hoping, ToldRight, At
    <3>3. Forsaken'
      BY <2>5, <2>6, <3>1, <3>2 DEF Forsaken, At
    <3> QED
      BY <2>3, <2>4, <2>6, <2>7, <3>3 DEF SettlesRight, Hoping
  <2>9. Owed(work, att)'
    <3>0. \A v \in Worker : work'[v].on = "S" => work["S"].pc # "idle"
      BY <2>5 DEF Hoping, Owed
    <3>1. CASE att.tracked
      <4>1. att'.pending = att.pending
        BY <2>3, <2>4, <3>1
      <4> QED
        BY <1>k, <2>6, <3>0, <4>1, OwedKept DEF Rests, Hoping
    <3>2. CASE ~att.tracked
      BY <2>6, <2>7, <3>0, <3>2, HopeWorkers DEF Owed
    <3> QED
      BY <3>1, <3>2
  <2> QED
    BY <1>k, <1>t, <2>4, <2>5, <2>6, <2>8, <2>9, HopeKept DEF Rests
<1> QED
  BY <1>1, <1>2 DEF RecoverRead

\* ... and remembers it, when its authority is known ...
LEMMA HopeRecoverLocks ==
    ASSUME TypeOK, Hoping, RecoverLocks
    PROVE  Hoping'
<1>k. /\ UNCHANGED <<call, phase, host, events, rec, timers>> /\ att' = [att EXCEPT !.tracked = TRUE]
      /\ work' = Inspects(work, "recover", "reconcile")
  BY DEF RecoverLocks, Keep, HostRests
<1>w. Works(work) /\ HopeWork(work) /\ "recover" \in Worker /\ HopePc("recover", "reconcile")
  BY HopeWorkers DEF TypeOK, Hoping, HopePc
<1>1. HopeWork(work') /\ work'["recover"].on = "none" /\ \A v \in Worker \ {"recover"} : work'[v] = work[v]
  <2> DEFINE V == Inspects(work, "recover", "reconcile")
  <2>1. HopeWork(V) /\ V["recover"].on = "none" /\ \A v \in Worker \ {"recover"} : V[v] = work[v]
    BY <1>w, HopeTo
  <2> QED
    BY <1>k, <2>1
<1>2. work'["S"] = work["S"] /\ work'["delegate"] = work["delegate"] /\ work'["event"] = work["event"]
  BY <1>1, HopeWorkers
<1>3. \A v \in Worker : work'[v].on = "S" => work'["S"].pc # "idle"
  BY <1>1, <1>2 DEF Hoping, Owed
<1>4. att'.tracked /\ att'.pending = att.pending /\ att'.draft = att.draft /\ HopeAttempt(att')
  BY <1>k DEF TypeOK, Attempts, Hoping, HopeData, HopeAttempt
<1>5. SettlesRight(work["S"], att)'
  BY <1>2, <1>4 DEF SettlesRight, Hoping
<1>6. Owed(work, att)'
  BY <1>2, <1>3, <1>4, <1>k, OwedKept DEF Rests, Hoping
<1> QED
  BY <1>1, <1>2, <1>4, <1>5, <1>6, <1>k, HopeKept DEF Rests, Hoping, HopeData

\* ... of a living runtime.
LEMMA HopeRecover ==
    ASSUME TypeOK, FlushRight, Hoping, RecoverSession
    PROVE  Hoping'
<1>1. /\ UNCHANGED <<call, host, events, rec, att, timers>> /\ phase' = phase /\ work' = Goto(work, "recover", "read")
      /\ work["recover"].pc # "authority"
  BY HopePhase DEF RecoverSession, HostRests
<1>2. /\ timers \subseteq {"settle"} /\ events \in Seq({"busy", "idle"})
      /\ "recover" \in Worker \ {"S", "P", "delegate"} /\ "recover" # "event" /\ HopePc("recover", "read")
  BY HopeWorkers DEF Hoping, HopeData, HopePc
<1> QED
  BY <1>1, <1>2, HopeGoes

\* A flush that comes while the call is open would ask for a cancellation.
LEMMA HopeFlush ==
    ASSUME TypeOK, Hopeful', Hoping, Flush
    PROVE  Hoping'
<1> DEFINE U == Goto(work, "flush", "inflight")
           r == Cancelled(call, att, U)
<1>w. /\ Works(work) /\ HopeWork(work) /\ HopeAttempt(att) /\ HopeRecord(rec) /\ call \in Calls
      /\ timers \subseteq {"settle"} /\ events \in Seq({"busy", "idle"}) /\ HopePc("flush", "inflight")
  BY DEF TypeOK, Hoping, HopeData, HopePc
<1>1. /\ call' = r.c /\ att' = r.a /\ work' = r.W /\ UNCHANGED <<rec, timers, host, events>>
      /\ phase = "serving" /\ phase' = "flushing"
  BY DEF Flush, Active, HostRests
<1>2. HopeWork(U) /\ U["flush"].on = "none" /\ \A v \in Worker \ {"flush"} : U[v] = work[v]
  BY <1>w, HopeTo, HopeWorkers
<1> HIDE DEF U
<1>3. /\ U["delegate"] = work["delegate"] /\ U["S"] = work["S"] /\ U["event"] = work["event"]
      /\ U["recover"] = work["recover"]
  BY <1>2, HopeWorkers
<1>4. call' = call /\ att' = att /\ work' = U
  <2>1. U["delegate"].pc \notin {"lock", "admit", "create"}
    BY <1>3, HopeWorkers DEF Hoping, HopeWork, HopePc
  <2>2. ~call'.aborted
    BY DEF Hopeful
  <2>3. CASE ~call.open \/ call.aborted \/ U["delegate"].pc \in {"idle", "prepare", "done"}
    BY <1>1, <2>3 DEF Cancelled
  <2>4. CASE ~(~call.open \/ call.aborted \/ U["delegate"].pc \in {"idle", "prepare", "done"})
    <3>1. call' = [call EXCEPT !.aborted = TRUE, !.stop = IF @ = "none" THEN "asked" ELSE @]
      BY <1>1, <2>1, <2>4 DEF Cancelled
    <3>2. call'.aborted
      BY <1>w, <3>1 DEF Calls
    <3> QED
      BY <2>2, <3>2
  <2> QED
    BY <2>3, <2>4
<1> HIDE DEF r
<1>5. \A v \in Worker : work'[v].on = "S" => work'["S"].pc # "idle"
  BY <1>2, <1>3, <1>4 DEF Hoping, Owed
<1>6. SettlesRight(work["S"], att)' /\ Owed(work, att)'
  BY <1>1, <1>3, <1>4, <1>5, OwedKept DEF SettlesRight, Forsaken, Rests, Hoping, At
<1> QED
  BY <1>1, <1>2, <1>3, <1>4, <1>6, <1>w, HopeKept DEF Rests

\* The host takes the turn up, and brings it to its result.
LEMMA HopeHost ==
    ASSUME TypeOK, Hoping, Hopeful', HostBegins \/ HostEnds
    PROVE  Hoping'
<1>1. /\ UNCHANGED <<rec, att, call, work, timers, phase>> /\ host # "result"
      /\ \E kind \in {"busy", "idle"} : Tell(kind)
  BY DEF HostBegins, HostEnds, MemoryRests
<1>2. events' \in Seq({"busy", "idle"})
  <2>1. PICK kind \in {"busy", "idle"} : Tell(kind)
    BY <1>1
  <2>2. events' = events \/ events' = Append(events, kind)
    BY <2>1, EmitsType DEF TypeOK, Kinds
  <2>3. events \in Seq({"busy", "idle"})
    BY DEF Hoping, HopeData
  <2> QED
    BY <2>2, <2>3, AppendProperties
<1>3. SettlesRight(work["S"], att)' /\ Owed(work, att)' /\ HopeWork(work') /\ HopeAttempt(att') /\ HopeRecord(rec')
      /\ timers' \subseteq {"settle"}
  BY <1>1 DEF SettlesRight, Forsaken, Owed, Hoping, HopeData, At
<1> QED
  BY <1>1, <1>2, <1>3, HopeKept DEF Rests

\* While there is hope the call does not end.
LEMMA HopeEndless ==
    ASSUME TypeOK, Hopeful', NEW outcome, NEW retain, Ends(outcome, retain)
    PROVE  FALSE
<1>1. work' = Goto(work, "delegate", "done")
  BY DEF Ends
<1>2. work'["delegate"].pc = "done"
  BY <1>1, HopeWorkers, GoesOn DEF TypeOK
<1> QED
  BY <1>2 DEF Hopeful, At

\* What the call knows of the attempt leaves hope.
LEMMA HopeLearned ==
    ASSUME TypeOK, HopeAttempt(att), NEW c \in Calls, ~c.aborted, ~c.missing
    PROVE  LET a == Learned(c) IN
           /\ a \in Attempts /\ HopeAttempt(a) /\ a.tracked = att.tracked
           /\ a.tracked => a.pending = att.pending /\ a.draft = att.draft
<1> DEFINE child == [NoRecord EXCEPT !.at = "child", !.status = "running"]
<1>1. Learned(c) \in Attempts /\ Learned(c).tracked = att.tracked
  BY LearnedIs
<1>2. /\ Known \in Attempts /\ HopeAttempt(Known)
      /\ att.tracked => Known.pending = att.pending /\ Known.draft = att.draft
  <2>1. CASE att.tracked
    BY <2>1 DEF Known, TypeOK, Attempts, HopeAttempt
  <2>2. CASE ~att.tracked
    <3>1. Known = Attempt(child)
      BY <2>2 DEF Known
    <3>2. child \in Record /\ child.at = "child" /\ ~child.cancel /\ ~child.confirmed
      BY ChildIs
    <3> HIDE DEF child
    <3>3. Known \in Attempts
      BY <3>1, <3>2, AttemptType
    <3>4. HopeAttempt(Known)
      BY <3>1, <3>2, NoRecordIs DEF HopeAttempt, Attempt, Evidence, NoInspection
    <3> QED
      BY <2>2, <3>3, <3>4
  <2> QED
    BY <2>1, <2>2
<1> HIDE DEF Known
<1>3. HopeAttempt(Learned(c)) /\ Learned(c).pending = Known.pending /\ Learned(c).draft = Known.draft
  BY <1>2 DEF Learned, Attempts, HopeAttempt
<1> HIDE DEF Learned
<1> QED
  BY <1>1, <1>2, <1>3

\* The call learned that the turn goes on, and retains the lock, or its result.
LEMMA HopeConclude ==
    ASSUME TypeOK, Hoping, UNCHANGED <<phase, host, events>>,
           NEW c \in Calls, ~c.aborted, ~c.missing, c.retain => c.status = "unknown" /\ c.answer # "result",
           ~c.retain => c.answer = "result" /\ host = "result",
           At("delegate") \in {"turn", "inspect", "reported"}, work["delegate"].on = "none", Conclude(c)
    PROVE  Hoping'
<1> DEFINE a == Learned(c)
<1>w. /\ Works(work) /\ HopeWork(work) /\ "delegate" \in Worker \ {"S", "P"} /\ HopeRecord(rec)
      /\ timers \subseteq {"settle"} /\ events \in Seq({"busy", "idle"}) /\ HopeAttempt(att)
      /\ HopePc("delegate", "retained") /\ HopePc("delegate", "closing")
  BY HopeWorkers DEF TypeOK, Hoping, HopeData, HopePc
<1>a. /\ a \in Attempts /\ HopeAttempt(a) /\ a.tracked = att.tracked
      /\ a.tracked => a.pending = att.pending /\ a.draft = att.draft
  BY <1>w, HopeLearned
<1>s. att.tracked \/ work["S"].pc = "idle"
  BY DEF Hoping, SettlesRight, Forsaken
<1>1. call' = c /\ UNCHANGED <<rec, timers>>
  BY DEF Conclude
<1>2. c.retain => att' = a /\ work' = Goto(work, "delegate", "retained")
  BY DEF Conclude, Learned, Known
<1>3. ~c.retain => SettleAttempt(a, [IdleSeen EXCEPT !.out = "result"], "delegate", "closing")
  BY DEF Conclude, Learned, Known
<1> HIDE DEF a, Conclude, SettleAttempt
<1>4. HopeAttempt(att') => HopeData'
  BY <1>1, <1>w DEF HopeData
<1>5. CASE c.retain
  <2>1. att' = a /\ work' = Goto(work, "delegate", "retained")
    BY <1>2, <1>5
  <2>2. /\ HopeWork(work') /\ work'["delegate"].pc = "retained" /\ work'["delegate"].on = "none"
        /\ \A v \in Worker \ {"delegate"} : work'[v] = work[v]
    BY <1>w, <2>1, HopeTo
  <2>3. work'["S"] = work["S"]
    BY <2>2, HopeWorkers
  <2>4. HopeCall'
    BY <1>1, <1>5, <2>2 DEF HopeCall, At
  <2>5. ToldRight(work["delegate"], rec)'
    BY <2>2 DEF ToldRight
  <2>6. SettlesRight(work["S"], att)' /\ Owed(work, att)'
    BY <1>a, <1>s, <2>1, <2>2, <2>3 DEF SettlesRight, Owed, Hoping
  <2> QED
    BY <1>4, <1>a, <2>1, <2>2, <2>4, <2>5, <2>6 DEF Hoping
<1>6. CASE ~c.retain
  <2> DEFINE x == [IdleSeen EXCEPT !.out = "result"]
  <2>1. x \in Inspection /\ x.status = "none" /\ x.out = "result"
    BY DEF IdleSeen, NoInspection, Inspection, Statuses
  <2>2. SettleAttempt(a, x, "delegate", "closing")
    BY <1>3, <1>6
  <2> HIDE DEF x
  <2>3. /\ HopeAttempt(att') /\ HopeWork(work') /\ SettlesRight(work["S"], att)'
        /\ \A v \in Worker : work'[v].on = "S" => work'["S"].pc # "idle"
        /\ work'["delegate"].pc = "closing"
        /\ \/ work'["delegate"].on = "none" /\ work'["delegate"].res = "false"
           \/ work'["delegate"].on = "S" /\ att'.pending.out = "result"
    BY <1>a, <1>s, <1>w, <2>1, <2>2, HopeSettle DEF At
  <2>4. HopeCall'
    BY <1>1, <1>6, <2>3 DEF HopeCall, At
  <2>5. ToldRight(work["delegate"], rec)'
    BY <2>3 DEF ToldRight
  <2>6. Owed(work, att)'
    BY <2>3 DEF Owed
  <2> QED
    BY <1>4, <2>3, <2>4, <2>5, <2>6 DEF Hoping
<1> QED
  BY <1>5, <1>6

\* The turn is answered by its result, which is to be settled.
LEMMA HopeAnswered ==
    ASSUME TypeOK, Hopeful, Hopeful', Hoping, Answered
    PROVE  Hoping'
<1> DEFINE a == [att EXCEPT !.answered = TRUE, !.fg = "none"]
           c == [call EXCEPT !.answer = host]
           d == [c EXCEPT !.open = FALSE]
           x == [IdleSeen EXCEPT !.out = "result"]
<1>k. UNCHANGED <<phase, host, events>>
  BY DEF Answered, HostRests
<1>w. /\ Works(work) /\ HopeWork(work) /\ "delegate" \in Worker \ {"S", "P"} /\ HopeRecord(rec)
      /\ timers \subseteq {"settle"} /\ events \in Seq({"busy", "idle"}) /\ HopeAttempt(att)
      /\ HopePc("delegate", "reported") /\ att \in Attempts /\ call \in Calls
      /\ ~call.missing /\ host = "result" /\ At("delegate") = "turn" /\ work["delegate"].on = "none" /\ ~call.retain
  BY HopeWorkers DEF TypeOK, Hoping, HopeData, HopePc, HopeCall, Answered, Ready, Hopeful, At
<1>1. SettleAttempt(a, x, "delegate", "reported") /\ call' = d /\ UNCHANGED <<rec, lock, timers>>
  BY <1>w DEF Answered, Hopeful
<1>2. x \in Inspection /\ x.status = "none" /\ x.out = "result"
  BY DEF IdleSeen, NoInspection, Inspection, Statuses
<1>3. /\ a \in Attempts /\ HopeAttempt(a) /\ a.tracked = att.tracked /\ a.pending = att.pending /\ a.draft = att.draft
  BY <1>w DEF Attempts, HopeAttempt
<1>4. ~d.missing /\ ~d.retain
  BY <1>w DEF Calls
<1> HIDE DEF a, c, d, x, SettleAttempt
<1>s. (att.tracked \/ work["S"].pc = "idle") /\ work["delegate"].pc # "authority"
  BY <1>w DEF Hoping, SettlesRight, Forsaken, At
<1>5. /\ HopeAttempt(att') /\ HopeWork(work') /\ SettlesRight(work["S"], att)'
      /\ \A v \in Worker : work'[v].on = "S" => work'["S"].pc # "idle"
      /\ work'["delegate"].pc = "reported"
      /\ \/ work'["delegate"].on = "none" /\ work'["delegate"].res = "false"
         \/ work'["delegate"].on = "S" /\ att'.pending.out = "result"
  BY <1>1, <1>2, <1>3, <1>s, <1>w, HopeSettle
<1>6. HopeData'
  BY <1>1, <1>4, <1>5, <1>k, <1>w DEF HopeData
<1>7. HopeCall'
  BY <1>1, <1>4, <1>5, <1>k, <1>w DEF HopeCall, At
<1>8. ToldRight(work["delegate"], rec)' /\ Owed(work, att)'
  BY <1>5 DEF ToldRight, Owed
<1> QED
  BY <1>5, <1>6, <1>7, <1>8 DEF Hoping

\* The request or the settlement of its answer fails.
LEMMA HopeCaught ==
    ASSUME TypeOK, Hopeful, Hopeful', Hoping, UNCHANGED <<phase, host, events>>,
           At("delegate") \in {"turn", "reported"}, work["delegate"].on = "none", Caught("other")
    PROVE  Hoping'
<1> DEFINE a == [att EXCEPT !.fg = "reconciling"]
           c == [call EXCEPT !.status = "reported-completed"]
<1>w. /\ Works(work) /\ HopeWork(work) /\ "delegate" \in Worker \ {"S", "P"} /\ HopeRecord(rec)
      /\ timers \subseteq {"settle"} /\ events \in Seq({"busy", "idle"}) /\ HopeAttempt(att)
      /\ HopePc("delegate", "inspect") /\ att \in Attempts /\ call \in Calls
      /\ ~call.missing /\ ~call.retain /\ ~call.aborted
      /\ call.answer = "result" => host = "result"
  BY HopeWorkers DEF TypeOK, Hoping, HopeData, HopePc, HopeCall, Hopeful
<1>1. \/ Ends("uncertain", TRUE)
      \/ /\ call.answer # "result" /\ att' = a /\ work' = Inspects(work, "delegate", "inspect")
         /\ UNCHANGED <<rec, lock, timers, call>>
      \/ call.answer = "result" /\ Conclude(c)
  <2> HIDE DEF Ends, Conclude
  <2> QED
    BY <1>w DEF Caught
<1>2. CASE call.answer = "result" /\ Conclude(c)
  <2>1. c \in Calls /\ ~c.aborted /\ ~c.missing /\ ~c.retain /\ c.answer = "result"
    BY <1>2, <1>w DEF Calls, Statuses
  <2> HIDE DEF c
  <2> QED
    BY <1>2, <1>w, <2>1, HopeConclude
<1>3. CASE /\ call.answer # "result" /\ att' = a /\ work' = Inspects(work, "delegate", "inspect")
           /\ UNCHANGED <<rec, lock, timers, call>>
  <2>1. /\ HopeAttempt(a) /\ a.tracked = att.tracked /\ a.pending = att.pending /\ a.draft = att.draft
    BY <1>w DEF Attempts, HopeAttempt
  <2> HIDE DEF a
  <2>2. /\ HopeWork(work') /\ work'["delegate"].pc = "inspect" /\ work'["delegate"].on = "none"
        /\ \A v \in Worker \ {"delegate"} : work'[v] = work[v]
    BY <1>3, <1>w, HopeTo
  <2>3. work'["S"] = work["S"]
    BY <2>2, HopeWorkers
  <2>4. HopeData'
    BY <1>3, <1>w, <2>1 DEF HopeData
  <2>5. HopeCall'
    BY <1>3, <1>w, <2>2 DEF HopeCall, At
  <2>6. ToldRight(work["delegate"], rec)'
    BY <2>2 DEF ToldRight
  <2>7. SettlesRight(work["S"], att)' /\ Owed(work, att)'
    BY <1>3, <2>1, <2>2, <2>3 DEF SettlesRight, Forsaken, Owed, Hoping
  <2> QED
    BY <2>2, <2>4, <2>5, <2>6, <2>7 DEF Hoping
<1> QED
  BY <1>1, <1>2, <1>3, HopeEndless

\* The call inspects its turn, and learns its result or nothing.
LEMMA HopeInspectOwn ==
    ASSUME TypeOK, Hopeful, Hopeful', Hoping, InspectOwn
    PROVE  Hoping'
<1> DEFINE u == [call EXCEPT !.status = "unknown", !.uncertain = TRUE]
           r == [u EXCEPT !.retain = TRUE]
           s == [r EXCEPT !.over = TRUE]
           d == [call EXCEPT !.status = "reported-completed", !.answer = "result"]
<1>k. UNCHANGED <<phase, host, events>> /\ At("delegate") = "inspect" /\ work["delegate"].on = "none"
  BY DEF InspectOwn, HostRests, Ready, At
<1>w. call \in Calls /\ ~call.aborted /\ ~call.missing /\ ~call.retain /\ call.answer # "result"
  BY DEF TypeOK, Hoping, HopeData, HopeCall, Hopeful, InspectOwn, Ready, At
<1>u. u \in Calls /\ ~u.aborted /\ ~u.missing /\ u.answer # "result" /\ u.status = "unknown"
  BY <1>w DEF Calls, Statuses
<1>d. d \in Calls /\ ~d.aborted /\ ~d.missing /\ d.answer = "result" /\ ~d.retain
  BY <1>w DEF Calls, Statuses
<1> HIDE DEF u, d
<1>r. r \in Calls /\ ~r.aborted /\ ~r.missing /\ r.answer # "result" /\ r.status = "unknown" /\ r.retain
  BY <1>u DEF Calls
<1> HIDE DEF r
<1>s. s \in Calls /\ ~s.aborted /\ ~s.missing /\ s.answer # "result" /\ s.status = "unknown" /\ s.retain
  BY <1>r DEF Calls
<1> HIDE DEF s
<1>1. PICK x \in Seen \cup {Unknown} :
        /\ Hears(x)
        /\ \/ Conclude(s) \/ Ends("failed", FALSE) \/ Conclude(r) \/ x.out = "error"
           \/ x.out = "result" /\ Conclude(d)
           \/ x.out # "result" /\ x.state \notin {"unknown", "running"}
  <2> HIDE DEF Conclude, Ends
  <2> QED
    BY DEF InspectOwn, u, r, s, d
<1>2. \/ x.state \in {"running", "unknown"} /\ x.out = "none"
      \/ x.state \in {"idle", "inactive"} /\ x.out = "result" /\ host = "result"
  BY <1>1, HearsHope
<1>3. ~Ends("failed", FALSE)
  BY HopeEndless
<1>4. Conclude(s) => Hoping'
  BY <1>k, <1>s, HopeConclude
<1>5. Conclude(r) => Hoping'
  BY <1>k, <1>r, HopeConclude
<1>6. host = "result" /\ Conclude(d) => Hoping'
  BY <1>d, <1>k, HopeConclude
<1> HIDE DEF Conclude, Ends
<1> QED
  BY <1>1, <1>2, <1>3, <1>4, <1>5, <1>6

\* The call keeps the lock, and asks for the turn again.
LEMMA HopeRetainedLock ==
    ASSUME TypeOK, Hopeful, Hoping, RetainedLock
    PROVE  Hoping'
<1> DEFINE a == [att EXCEPT !.tracked = TRUE]
           r == [rec EXCEPT !.status = call.status, !.cancel = rec.cancel \/ att.cancel]
<1>k. UNCHANGED <<phase, host, events, call>>
  BY DEF RetainedLock, HostRests
<1>w. /\ Works(work) /\ HopeWork(work) /\ "delegate" \in Worker \ {"S", "P"} /\ HopeRecord(rec)
      /\ timers \subseteq {"settle"} /\ events \in Seq({"busy", "idle"}) /\ HopeAttempt(att)
      /\ HopePc("delegate", "judged") /\ HopePc("delegate", "reconcile") /\ att \in Attempts /\ rec \in Record
      /\ ~call.missing /\ call.answer # "result" /\ call.status = "unknown" /\ ~call.aborted
  BY HopeWorkers DEF TypeOK, Hoping, HopeData, HopePc, HopeCall, Hopeful, RetainedLock, Ready, At
<1>1. /\ rec' = r \/ rec' = rec
      /\ timers' = timers \cup {}
      /\ att' = a
      /\ \/ work' = Finish(work, "delegate", "judged", "false")
         \/ work' = Inspects(work, "delegate", "reconcile")
  BY <1>w DEF RetainedLock
<1>2. HopeRecord(r)
  BY <1>w DEF HopeRecord, HopeAttempt, Record, Evidence
<1>3. HopeAttempt(a) /\ a.tracked /\ a.pending = att.pending /\ a.draft = att.draft
  BY <1>w DEF Attempts, HopeAttempt
<1> HIDE DEF a, r
<1>4. /\ HopeWork(work') /\ work'["delegate"].pc \in {"judged", "reconcile"} /\ work'["delegate"].on = "none"
      /\ work'["delegate"].pc = "judged" => work'["delegate"].res # "true"
      /\ \A v \in Worker \ {"delegate"} : work'[v] = work[v]
  <2>1. CASE work' = Inspects(work, "delegate", "reconcile")
    BY <1>w, <2>1, HopeTo
  <2>2. CASE work' = Finish(work, "delegate", "judged", "false")
    <3>1. /\ Puts(work', work, "delegate") /\ work'["delegate"].pc = "judged" /\ work'["delegate"].on = "none"
          /\ work'["delegate"].res = "false"
      BY <1>w, <2>2, FinishIs
    <3>2. HopeWork(work')
      BY <1>w, <3>1, HopePuts
    <3> QED
      BY <3>1, <3>2 DEF Puts
  <2> QED
    BY <1>1, <2>1, <2>2
<1>5. work'["S"] = work["S"]
  BY <1>4, HopeWorkers
<1>6. HopeData'
  BY <1>1, <1>2, <1>3, <1>k, <1>w DEF HopeData
<1>7. HopeCall'
  BY <1>4, <1>k, <1>w DEF HopeCall, At
<1>8. ToldRight(work["delegate"], rec)'
  BY <1>4 DEF ToldRight
<1>9. SettlesRight(work["S"], att)' /\ Owed(work, att)'
  BY <1>1, <1>3, <1>4, <1>5 DEF SettlesRight, Owed, Hoping
<1> QED
  BY <1>4, <1>6, <1>7, <1>8, <1>9 DEF Hoping

\* The call is told of the settlement.
LEMMA HopeTold ==
    ASSUME TypeOK, Hopeful, Hopeful', Hoping, Reported \/ Judged \/ Closing
    PROVE  Hoping'
<1>k. UNCHANGED <<phase, host, events>>
  BY DEF Reported, Judged, Closing, HostRests
<1>1. \/ At("delegate") = "reported" /\ work["delegate"].on = "none" /\ Caught("other")
      \/ \E outcome, retain : Ends(outcome, retain)
  <2> HIDE DEF Caught, Ends
  <2>1. ASSUME Reported PROVE (At("delegate") = "reported" /\ work["delegate"].on = "none" /\ Caught("other")) \/ \E outcome, retain : Ends(outcome, retain)
    BY <2>1 DEF Reported, Ready, At
  <2>2. ASSUME Judged \/ Closing PROVE \E outcome, retain : Ends(outcome, retain)
    BY <2>2 DEF Judged, Closing, Tells
  <2> QED
    BY <2>1, <2>2
<1> QED
  BY <1>1, <1>k, HopeCaught, HopeEndless

\* The turn is sent.
LEMMA HopeSent ==
    ASSUME TypeOK, DispatchRight, FreshRight, Sent, host' = "sent", ~call.aborted, ~gone
    PROVE  Hoping'
<1>d. At("delegate") = "revalidate" /\ "delegate" \in Worker
  BY HopeWorkers DEF Sent, Ready, At
<1>1. /\ Works(work) /\ call \in Calls /\ CleanAttempt(att) /\ CleanRecord(rec) /\ CleanCall(call) /\ host = "none"
      /\ events = <<>> /\ timers = {} /\ Quiet(work)
  BY <1>d DEF TypeOK, DispatchRight, BeforeTurn, Clean
<1>2. ~call.retain /\ ~att.cancel /\ ~rec.cancel /\ att.draft = NoRecord
  BY <1>d DEF FreshRight, BeforeTurn
<1>3. /\ call' = [call EXCEPT !.sent = TRUE] /\ work' = Goto(work, "delegate", "turn")
      /\ UNCHANGED <<rec, att, timers, events>>
  BY <1>1 DEF Sent
<1>4. call'.missing = call.missing /\ call'.retain = call.retain /\ call'.answer = call.answer
  BY <1>1, <1>3 DEF Calls
<1>5. work'["delegate"].pc = "turn" /\ work'["delegate"].on = "none" /\ \A v \in Worker \ {"delegate"} : work'[v] = work[v]
  BY <1>1, <1>3, <1>d, GoesOn
<1>6. HopeData'
  <2>1. HopeAttempt(att)
    BY <1>1, <1>2, NoRecordIs DEF CleanAttempt, HopeAttempt, NoInspection, Evidence
  <2>2. HopeRecord(rec)
    BY <1>1, <1>2 DEF CleanRecord, HopeRecord, Evidence
  <2>3. <<>> \in Seq({"busy", "idle"})
    OBVIOUS
  <2> QED
    BY <1>1, <1>3, <1>4, <2>1, <2>2, <2>3 DEF HopeData, CleanCall
<1>7. HopeWork(work')
  <2>1. ASSUME NEW w \in Worker PROVE work'[w].on \in {"none", "S", "P"} /\ HopePc(w, work'[w].pc)
    <3>1. CASE w = "delegate"
      BY <1>5, <3>1 DEF HopePc
    <3>2. CASE w \in {"flush", "recover"}
      BY <1>1, <1>5, <3>2 DEF Quiet, HopePc
    <3>3. CASE w \notin {"delegate", "flush", "recover"}
      BY <1>1, <1>5, <3>3, IdleIs DEF Quiet, HopePc
    <3> QED
      BY <3>1, <3>2, <3>3
  <2> QED
    BY <2>1 DEF HopeWork
<1>8. HopeCall'
  BY <1>1, <1>2, <1>4, <1>5 DEF HopeCall, CleanCall, At
<1>9. work'["S"].pc = "idle" /\ \A w \in Worker : work'[w].on = "none"
  BY <1>1, <1>5, HopeWorkers, IdleIs DEF Quiet
<1>10. SettlesRight(work["S"], att)' /\ ToldRight(work["delegate"], rec)' /\ Owed(work, att)'
  BY <1>5, <1>9 DEF SettlesRight, ToldRight, Owed
<1> QED
  BY <1>6, <1>7, <1>8, <1>10 DEF Hoping

\* What nobody can be at while there is hope.
LEMMA HopeRefuses ==
    ASSUME TypeOK, Hoping
    PROVE  /\ ~SettleConfirm /\ ~FenceCollect /\ ~FenceWrite /\ ~FenceBuried /\ ~TombstoneLook /\ ~TombstoneCreate
           /\ ~StopBegin /\ ~StopFenced /\ ~StopCancel /\ ~StopSettled /\ ~StopFences /\ ~StopsTurn
           /\ ~CancelTimer /\ ~TombTimer /\ ~TimerEnds
           /\ \A w \in Inspector : ~Missed(w) /\ ~MissingCancel(w) /\ ~Untold(w)
           /\ ~Inspect("flush") /\ ~Marked("flush") /\ ~Waited("flush") /\ ~DeletedCancel
           /\ ~FlushNext /\ ~FlushAgain /\ ~FlushFails /\ ~FlushBegins
           /\ ~Delegate /\ ~Prepared /\ ~Locked /\ ~Admitted /\ ~Created /\ ~Attended /\ ~Sent
           /\ ~Undispatched /\ ~Predispatch /\ ~Unsent /\ ~Stopping
<1>h. timers \subseteq {"settle"} /\ \A w \in Worker : HopePc(w, work[w].pc)
  BY DEF Hoping, HopeData, HopeWork
<1>1. /\ \A w \in {"stop", "C", "M", "H", "cancelTimer", "tombTimer"} : work[w].pc = "idle"
      /\ work["S"].pc # "confirm" /\ work["flush"].pc \in {"idle", "inflight"} /\ work["event"].pc # "deleted"
      /\ work["delegate"].pc \in {"turn", "inspect", "retained", "reconcile", "active", "evident", "settled",
                                  "judged", "reported", "closing"}
  <2>1. \A w \in {"stop", "C", "M", "H", "cancelTimer", "tombTimer", "S", "flush", "event", "delegate"} : w \in Worker
    BY DEF Worker
  <2> QED
    BY <1>h, <2>1 DEF HopePc
<1>2. /\ ~SettleConfirm /\ ~FenceCollect /\ ~FenceWrite /\ ~FenceBuried /\ ~TombstoneLook /\ ~TombstoneCreate
      /\ ~StopBegin /\ ~StopFenced /\ ~StopCancel /\ ~StopSettled /\ ~StopFences /\ ~StopsTurn
  BY <1>1 DEF SettleConfirm, FenceCollect, FenceWrite, FenceBuried, TombstoneLook, TombstoneCreate,
              StopBegin, StopFenced, StopCancel, StopSettled, StopFences, StopsTurn, Ready
<1>3. ~CancelTimer /\ ~TombTimer /\ ~TimerEnds
  BY <1>1, <1>h DEF CancelTimer, TombTimer, Timer, TimerEnds, Ready
<1>4. \A w \in Inspector : ~Missed(w) /\ ~MissingCancel(w) /\ ~Untold(w)
  <2>1. ASSUME NEW w \in Inspector PROVE work[w].pc \notin {"missed", "missing", "untold"}
    <3>1. w \in Worker
      BY Workers
    <3> QED
      BY <1>h, <3>1 DEF HopePc, Inspector
  <2> QED
    BY <2>1 DEF Missed, MissingCancel, Untold, Ready
<1>5. /\ ~Inspect("flush") /\ ~Marked("flush") /\ ~Waited("flush") /\ ~DeletedCancel
      /\ ~FlushNext /\ ~FlushAgain /\ ~FlushFails /\ ~FlushBegins
  BY <1>1 DEF Inspect, Marked, Waited, DeletedCancel, FlushNext, FlushAgain, FlushFails, FlushBegins, Ready
<1>6. /\ ~Delegate /\ ~Prepared /\ ~Locked /\ ~Admitted /\ ~Created /\ ~Attended /\ ~Sent
      /\ ~Undispatched /\ ~Predispatch /\ ~Unsent /\ ~Stopping
  BY <1>1 DEF Delegate, Prepared, Locked, Admitted, Created, Attended, Sent, Undispatched, Predispatch, Unsent,
              Stopping, Ready
<1> QED
  BY <1>2, <1>3, <1>4, <1>5, <1>6

\* An abort ends all hope.
LEMMA HopeAborted ==
    ASSUME TypeOK, Hopeful', Hoping, AbortCall
    PROVE  FALSE
<1>1. call \in Calls /\ At("delegate") \notin {"idle", "prepare", "lock", "admit", "create", "done"}
  BY HopeWorkers DEF TypeOK, Hoping, HopeWork, HopePc, At
<1>2. call' = Cancelled(call, att, work).c /\ call.open /\ ~call.aborted
  BY <1>1 DEF AbortCall, At
<1>3. call' = [call EXCEPT !.aborted = TRUE, !.stop = IF @ = "none" THEN "asked" ELSE @]
  BY <1>1, <1>2 DEF Cancelled, At
<1>4. call'.aborted
  BY <1>1, <1>3 DEF Calls
<1> QED
  BY <1>4 DEF Hopeful

\* Every step, while there is hope, ...
LEMMA HopeRuns ==
    ASSUME TypeOK, FlushRight, Hopeful, Hopeful', TurnOwned, Hoping, AttemptNext, ~Crash
    PROVE  Hoping'
<1>1. CASE Continues /\ Microtask
  <2>1. ASSUME NEW w \in Inspector, Marked(w) \/ Waited(w) PROVE Hoping'
    <3>1. w # "flush"
      BY <2>1, HopeRefuses
    <3>2. w \in {"event", "recover", "settleTimer"} \/ w = "delegate"
      BY <3>1 DEF Inspector
    <3> QED
      BY <2>1, <3>2, HopeMarked, HopeMarkedCall
  <2>2. SettleBegin \/ SettleShown \/ EventHandled \/ SettleTimerEnds \/ Reported \/ Judged \/ Closing
        \/ \E w \in Inspector : Marked(w) \/ Waited(w)
    BY <1>1, HopeRefuses DEF Microtask
  <2> QED
    BY <2>1, <2>2, HopeSettleBegin, HopeSettleShown, HopeLateEvent, HopeTimer, HopeTold
<1>2. CASE ~Continues /\ Promise
  BY <1>2, HopeRefuses, HopeSettleCollect, HopeSettleWrite, HopeEvidence DEF Promise
<1>3. CASE Caller
  <2>1. Answered \/ Rejected \/ InspectOwn \/ RetainedLock
    BY <1>3, HopeRefuses DEF Caller
  <2>2. ASSUME Rejected PROVE Hoping'
    <3>1. UNCHANGED <<phase, host, events>> /\ At("delegate") = "turn" /\ work["delegate"].on = "none" /\ Caught("other")
      BY <2>2 DEF Rejected, HostRests, Ready, At
    <3> QED
      BY <3>1, HopeCaught
  <2> QED
    BY <2>1, <2>2, HopeAnswered, HopeInspectOwn, HopeRetainedLock
<1>4. CASE ~Continues /\ Others
  <2>1. ASSUME NEW w \in Inspector, Inspect(w) PROVE Hoping'
    <3>1. w # "flush"
      BY <2>1, HopeRefuses
    <3>2. w \in {"event", "recover", "settleTimer"} \/ w = "delegate"
      BY <3>1 DEF Inspector
    <3> QED
      BY <2>1, <3>2, HopeInspects, HopeInspectsCall
  <2>2. (\E w \in Inspector : Inspect(w)) \/ BeginEvent \/ LateEvent \/ RecoverRead \/ RecoverLocks \/ SettleTimer
    BY <1>4, HopeRefuses DEF Others
  <2> QED
    BY <1>4, <2>1, <2>2, HopeBeginEvent, HopeLateEvent, HopeRecoverRead, HopeRecoverLocks, HopeTimer
<1>5. CASE Host
  <2>1. ~HostRefuses /\ ~HostDeletes
    BY DEF HostRefuses, HostDeletes, Hopeful
  <2> QED
    BY <1>5, <2>1, HopeHost DEF Host
<1>6. ~Delegate /\ ~AbortCall
  BY HopeRefuses, HopeAborted
<1>7. ~Lifecycle
  BY HopePhase DEF Lifecycle
<1> QED
  BY <1>1, <1>2, <1>3, <1>4, <1>5, <1>6, <1>7, HopeFlush, HopeRecover DEF AttemptNext

\* A call that judges its attempt again is past its turn, ...
Past(W) == W["delegate"].pc \notin {"turn", "inspect"}

LEMMA PastInspects ==
    ASSUME TypeOK, Inspect("delegate") \/ Marked("delegate") \/ Waited("delegate")
    PROVE  Past(work')
<1>t. Works(work) /\ att \in Attempts /\ "delegate" \in Inspector /\ "delegate" \in Worker
  BY Workers DEF TypeOK
<1>1. ASSUME NEW res, work' = Back(work, "delegate", res) PROVE Past(work')
  BY <1>t, <1>1, GoesBackOwn DEF Past, BackPc
<1>2. ASSUME MarkActive("delegate") PROVE Past(work')
  BY <1>t, <1>2, MarkActiveIs DEF Past
<1>3. ASSUME HandleMissing(att, "delegate") PROVE Past(work')
  BY <1>t, <1>3, HandleMissingIs DEF Past, BackPc
<1>4. ASSUME NEW y \in Inspection, SettleAttempt(att, y, "delegate", "settled") PROVE Past(work')
  <2>1. work'["delegate"].pc = "settled"
    BY <1>t, <1>4, SettleOwn
  <2> QED
    BY <2>1 DEF Past
<1>5. ASSUME work' = Awaits(work, "delegate", "P", "evident") PROVE Past(work')
  <2>1. work'["delegate"].pc = "evident"
    BY <1>t, <1>5, AwaitsOwn, Workers
  <2> QED
    BY <2>1 DEF Past
<1>6. CASE Inspect("delegate")
  <2>1. PICK x \in Seen \cup {Unknown} : Judge("delegate", x, work["delegate"].pc = "known")
    BY <1>6 DEF Inspect
  <2>2. x \in Inspection
    BY SeenType, ConstantsAre DEF TypeOK
  <2> HIDE DEF MarkActive, HandleMissing, SettleAttempt
  <2> QED
    BY <1>1, <1>2, <1>3, <1>4, <2>1, <2>2, ConstantsAre DEF Judge, GoesBack
<1>7. CASE Marked("delegate")
  BY <1>1, <1>5, <1>7 DEF Marked, GoesBack
<1>8. CASE Waited("delegate")
  BY <1>1, <1>8 DEF Waited, GoesBack
<1> QED
  BY <1>6, <1>7, <1>8

\* ... and while there is hope a call that is not keeps its attempt.
LEMMA HopeOwned ==
    ASSUME TypeOK, FlushRight, Hopeful, Hopeful', Hoping, TurnOwned, AttemptNext, ~Crash
    PROVE  TurnOwned'
<1> DEFINE Mine == At("delegate")' \in {"turn", "inspect"} => att'.fg # "none"
<1>t. Works(work) /\ att \in Attempts /\ call \in Calls /\ rec \in Record /\ (rec.at = "none" => rec = NoRecord)
      /\ "delegate" \in Worker /\ "delegate" \in Inspector
  BY Workers DEF TypeOK
<1> SUFFICES Mine
  BY DEF TurnOwned
<1>d. \A w \in {"event", "flush", "recover"} : "delegate" \notin Own(w)
  BY DEF Own, Promises
<1>i. ASSUME NEW w \in Inspector \ {"delegate"}, Inspect(w) \/ Marked(w) \/ Waited(w)
      PROVE  work'["delegate"].pc = work["delegate"].pc
  <2>1. Sound(w) /\ w \in Worker
    BY <1>i, InspectorsGoing, Workers DEF Going
  <2> QED
    BY <2>1, LaterStays
<1>s. ASSUME work'["delegate"].pc = work["delegate"].pc, att'.fg = att.fg PROVE Mine
  BY <1>s DEF TurnOwned, At
<1>p. ASSUME Past(work') PROVE Mine
  BY <1>p DEF Past, At
<1>e. ASSUME work'["delegate"].pc = work["delegate"].pc,
             \/ UNCHANGED att \/ att' = Collected(att) \/ att' = Invalidated(att) \/ att' = Deleted(att)
      PROVE  Mine
  <2>1. Collected(att).fg = att.fg /\ Invalidated(att).fg = att.fg
    BY <1>t, CollectedIs, InvalidatedIs
  <2>2. Deleted(att).fg = att.fg
    BY <1>t DEF Deleted, Attempts
  <2> QED
    BY <1>e, <1>s, <2>1, <2>2
<1>l. ASSUME NEW c \in Calls, Conclude(c) PROVE Mine
  <2>1. work'["delegate"].pc \in {"retained", "closing"}
    BY <1>l, ConcludeIs DEF Calls
  <2> QED
    BY <1>p, <2>1 DEF Past
<1>r. ASSUME NEW outcome, NEW retain, Ends(outcome, retain) PROVE Mine
  BY <1>r, HopeEndless
<1>c. ASSUME NEW err, Caught(err), err \notin {"after", "disposing"} PROVE Mine
  <2> DEFINE c == [call EXCEPT !.status = "reported-completed"]
  <2>1. c \in Calls
    BY <1>t DEF Calls, Statuses
  <2>2. \/ \E outcome, retain : Ends(outcome, retain)
        \/ att' = [att EXCEPT !.fg = "reconciling"]
        \/ Conclude(c)
    BY <1>c DEF Caught
  <2>3. ASSUME att' = [att EXCEPT !.fg = "reconciling"] PROVE Mine
    <3>1. att'.fg = "reconciling"
      BY <2>3, <1>t DEF Attempts
    <3> QED
      BY <3>1
  <2> HIDE DEF c, Mine
  <2> QED
    BY <2>1, <2>2, <2>3, <1>l, <1>r
<1> HIDE DEF Mine
<1>1. CASE Continues /\ Microtask
  <2>1. CASE SettleBegin \/ SettleShown \/ EventHandled \/ SettleTimerEnds
    BY <2>1, <1>e, OthersStay DEF SettleBegin, SettleShown, SettlementFails, Gives, EventHandled, SettleTimerEnds
  <2>2. ASSUME NEW w \in Inspector, Marked(w) \/ Waited(w) PROVE Mine
    BY <2>2, <1>t, <1>e, <1>p, PastInspects, <1>i DEF Marked, Waited, GoesBack
  <2>3. CASE Reported
    BY <2>3, <1>c, <1>r DEF Reported
  <2>4. CASE Judged \/ Closing
    BY <2>4, <1>r DEF Judged, Closing, Tells
  <2> QED
    BY <1>1, <2>1, <2>2, <2>3, <2>4, HopeRefuses DEF Microtask
<1>2. CASE Promise
  <2>1. SettleCollect \/ SettleWrite \/ EvidenceCollect \/ EvidenceWrite
    BY <1>2, HopeRefuses DEF Promise
  <2>2. work'["delegate"].pc = work["delegate"].pc
    BY <2>1, OthersStay
  <2>3. att'.fg = att.fg
    <3>1. Collected(att).fg = att.fg
      BY <1>t, CollectedIs
    <3>2. ReleaseAttempt => att'.fg = att.fg
      BY <1>t, ReleaseIs
    <3>3. CASE SettleCollect
      <4>1. Collected(att) \in Attempts
        BY <1>t, CollectedIs
      <4>2. [Collected(att) EXCEPT !.draft = Candidate(Collected(att))].fg = Collected(att).fg
        BY <4>1 DEF Attempts
      <4> QED
        BY <3>1, <3>3, <4>2 DEF SettleCollect, Gives, SettlementFails
    <3>4. CASE SettleWrite
      <4> HIDE DEF ReleaseAttempt
      <4>1. \/ UNCHANGED att \/ ReleaseAttempt
            \/ \E b, v : att' = [att EXCEPT !.cancel = @ \/ b, !.term = v]
            \/ att' = [att EXCEPT !.ids = {}]
        BY <3>4 DEF SettleWrite, SettlementFails
      <4> QED
        BY <1>t, <3>2, <4>1 DEF Attempts
    <3>5. CASE EvidenceCollect
      BY <3>1, <3>5 DEF EvidenceCollect, Gives
    <3>6. CASE EvidenceWrite
      BY <1>t, <3>6 DEF EvidenceWrite, Gives, Attempts
    <3> QED
      BY <2>1, <3>3, <3>4, <3>5, <3>6
  <2> QED
    BY <1>s, <2>2, <2>3
<1>3. CASE Caller
  <2>1. CASE Answered
    <3> DEFINE a == [att EXCEPT !.answered = TRUE, !.fg = "none"]
               x == [IdleSeen EXCEPT !.out = host]
    <3>1. a \in Attempts /\ (host \in {"result", "error"} => x \in Inspection)
      BY <1>t DEF Attempts, IdleSeen, NoInspection, Inspection, Statuses
    <3>2. \/ work' = Goto(work, "delegate", "stopping") \/ work' = Goto(work, "delegate", "done")
          \/ host \in {"result", "error"} /\ SettleAttempt(a, x, "delegate", "reported")
      BY <2>1 DEF Answered
    <3> HIDE DEF a, x, SettleAttempt
    <3>3. work'["delegate"].pc \in {"stopping", "done", "reported"}
      <4>1. ASSUME NEW pc \in {"stopping", "done"}, work' = Goto(work, "delegate", pc) PROVE work'["delegate"].pc = pc
        BY <1>t, <4>1, GoesOn
      <4>2. ASSUME host \in {"result", "error"}, SettleAttempt(a, x, "delegate", "reported")
            PROVE  work'["delegate"].pc = "reported"
        BY <1>t, <3>1, <4>2, SettleOwn
      <4> QED
        BY <3>2, <4>1, <4>2
    <3> QED
      BY <1>p, <3>3 DEF Past
  <2>2. CASE Rejected
    BY <2>2, <1>c DEF Rejected
  <2>3. CASE InspectOwn
    <3> DEFINE u == [call EXCEPT !.status = "unknown", !.uncertain = TRUE]
               r == [u EXCEPT !.retain = TRUE]
               s == [r EXCEPT !.over = TRUE]
               f == [call EXCEPT !.status = "failed"]
               g == [call EXCEPT !.status = "reported-completed", !.answer = "result"]
               m == [r EXCEPT !.missing = TRUE]
    <3>1. u \in Calls /\ f \in Calls /\ g \in Calls
      BY <1>t DEF Calls, Statuses
    <3>2. r \in Calls
      BY <3>1 DEF Calls
    <3>3. s \in Calls /\ m \in Calls
      BY <3>2 DEF Calls
    <3>4. \/ Ends("failed", FALSE)
          \/ Conclude(u) \/ Conclude(r) \/ Conclude(s) \/ Conclude(f) \/ Conclude(g) \/ Conclude(m)
      BY <2>3 DEF InspectOwn
    <3> HIDE DEF u, r, s, f, g, m, Conclude, Ends
    <3> QED
      BY <1>l, <1>r, <3>1, <3>2, <3>3, <3>4
  <2>4. CASE RetainedLock
    <3> DEFINE a == [att EXCEPT !.tracked = TRUE]
    <3>1. a \in Attempts
      BY <1>t DEF Attempts
    <3>2. \/ work' = Finish(work, "delegate", "judged", "false") \/ HandleMissing(a, "delegate")
          \/ work' = Inspects(work, "delegate", "reconcile")
      BY <2>4 DEF RetainedLock
    <3> HIDE DEF a, HandleMissing
    <3>3. HandleMissing(a, "delegate") => work'["delegate"].pc \in {"judged", "missed", "missing"}
      BY <1>t, <3>1, HandleMissingIs DEF BackPc
    <3> QED
      BY <1>t, <1>p, <3>2, <3>3, FinishIs, InspectsIs DEF Past
  <2> QED
    BY <1>3, <2>1, <2>2, <2>3, <2>4, HopeRefuses DEF Caller
<1>4. CASE Others
  <2>1. ASSUME NEW w \in Inspector, Inspect(w) PROVE Mine
    <3>1. CASE w = "delegate"
      BY <1>p, <2>1, <3>1, PastInspects
    <3>2. CASE w # "delegate"
      <4>1. PICK x \in Seen \cup {Unknown} : Judge(w, x, work[w].pc = "known")
        BY <2>1 DEF Inspect
      <4>2. x \in Inspection
        BY SeenType, ConstantsAre DEF TypeOK
      <4>3. att'.fg = att.fg
        <5> DEFINE known == work[w].pc = "known"
        <5>1. known \in BOOLEAN /\ Judge(w, x, known)
          BY <4>1
        <5> HIDE DEF known
        <5> QED
          BY <5>1, <4>2, JudgeIs
      <4>4. work'["delegate"].pc = work["delegate"].pc
        BY <2>1, <3>2, <1>i
      <4> QED
        BY <1>s, <4>3, <4>4
    <3> QED
      BY <3>1, <3>2
  <2>2. CASE BeginEvent
    <3>1. att' = att \/ att' = Invalidated(att) \/ att' = Deleted(att)
      BY <2>2 DEF BeginEvent, Dropped, MarkActive
    <3>2. work'["delegate"].pc = work["delegate"].pc
      BY <1>d, <1>t, <2>2, BeginEventIs DEF Steps, Stays
    <3> QED
      BY <1>e, <3>1, <3>2
  <2>3. CASE LateEvent
    <3>1. att' = att \/ att' = Invalidated(att)
      BY <2>3 DEF LateEvent, MarkActive
    <3> QED
      BY <1>e, <2>3, <3>1, OthersStay
  <2>4. CASE RecoverRead
    <3>1. UNCHANGED att \/ att.fg = "none"
      BY <2>4 DEF RecoverRead
    <3>2. work'["delegate"].pc = work["delegate"].pc
      BY <2>4, OthersStay
    <3>3. att.fg = "none" => Mine
      BY <3>2 DEF TurnOwned, Mine, At
    <3> QED
      BY <1>e, <3>1, <3>2, <3>3
  <2>5. CASE RecoverLocks
    <3>1. att'.fg = att.fg
      BY <1>t, <2>5 DEF RecoverLocks, Attempts
    <3> QED
      BY <1>s, <2>5, <3>1, OthersStay
  <2>6. CASE SettleTimer
    <3>1. att' = att \/ SettleAttempt(att, att.pending, "settleTimer", "settled")
      BY <2>6 DEF SettleTimer
    <3>2. att.pending \in Inspection
      BY <1>t DEF Attempts
    <3>3. att'.fg = att.fg
      BY <1>t, <3>1, <3>2, SettleOwn, Workers DEF SameBut, Inspector
    <3> QED
      BY <1>s, <2>6, <3>3, OthersStay
  <2> QED
    BY <1>4, <2>1, <2>2, <2>3, <2>4, <2>5, <2>6, HopeRefuses DEF Others
<1>5. CASE Host
  BY <1>5, <1>e, OthersStay DEF Host, HostBegins, HostEnds, HostRefuses, HostDeletes, MemoryRests
<1>6. ~Delegate /\ ~AbortCall
  BY HopeRefuses, HopeAborted
<1>7. ~Lifecycle
  BY HopePhase DEF Lifecycle
<1>8. CASE Flush
  <2>1. att' = att \/ att' = [att EXCEPT !.cancel = TRUE]
    BY <1>8 DEF Flush, Cancelled
  <2>2. att'.fg = att.fg
    BY <2>1, <1>t DEF Attempts
  <2>3. "delegate" \in Worker \ {"flush", "stop", "C"}
    BY <1>t
  <2> QED
    BY <1>s, <1>8, <2>2, <2>3, FlushIs DEF Steps, Stays
<1>9. CASE RecoverSession
  <2>1. "delegate" \in Worker \ {"recover"}
    BY <1>t
  <2> QED
    BY <1>e, <1>9, <2>1, RecoverIs
<1> QED
  BY <1>1, <1>2, <1>3, <1>4, <1>5, <1>6, <1>7, <1>8, <1>9 DEF AttemptNext

\* So whoever calls for its turn owns its attempt as long as there is hope.
LEMMA TurnOwnedStep ==
    ASSUME TypeOK, PhasesRight, TurnOwned, Hope, [AttemptNext]_attemptVars
    PROVE  TurnOwned'
<1>1. CASE UNCHANGED attemptVars
  BY <1>1 DEF attemptVars, TurnOwned, Hopeful, At
<1> SUFFICES ASSUME AttemptNext, Hopeful' PROVE TurnOwned'
  BY <1>1 DEF TurnOwned
<1>2. FlushRight /\ EarlyRight /\ DispatchRight
  BY DEF PhasesRight
<1>3. ~Crash /\ (Hopeful \/ (Sent /\ host' = "sent" /\ ~call.aborted /\ ~gone))
  BY <1>2, HopeBegins
<1>4. CASE Hopeful
  BY <1>2, <1>3, <1>4, HopeOwned DEF Hope
<1>5. CASE Sent /\ host' = "sent" /\ ~call.aborted /\ ~gone
  <2>1. At("delegate") \in BeforeTurn
    BY <1>5 DEF Sent, Ready, At, BeforeTurn
  <2>2. att.fg = "pending" /\ host = "none"
    BY <1>2, <1>5, <2>1 DEF DispatchRight
  <2>3. UNCHANGED att
    BY <1>5, <2>2 DEF Sent
  <2> QED
    BY <2>2, <2>3 DEF TurnOwned
<1> QED
  BY <1>3, <1>4, <1>5

\* ... and the one that sends the turn.
LEMMA HopeStep ==
    ASSUME TypeOK, PhasesRight, FreshRight, TurnOwned, Hope, [AttemptNext]_attemptVars
    PROVE  Hope'
<1>1. CASE UNCHANGED attemptVars
  BY <1>1 DEF attemptVars, Hope, Hopeful, Hoping, HopeData, HopeWork, HopeCall, SettlesRight, Forsaken, ToldRight, Owed, At
<1> SUFFICES ASSUME AttemptNext, Hopeful' PROVE Hoping'
  BY <1>1 DEF Hope
<1>2. FlushRight /\ EarlyRight /\ DispatchRight
  BY DEF PhasesRight
<1>3. ~Crash /\ (Hopeful \/ (Sent /\ host' = "sent" /\ ~call.aborted /\ ~gone))
  BY <1>2, HopeBegins
<1>4. CASE Hopeful
  <2>1. Hoping
    BY <1>4 DEF Hope
  <2> QED
    BY <1>2, <1>3, <1>4, <2>1, HopeRuns
<1> QED
  BY <1>2, <1>3, <1>4, HopeSent

\* All of this holds at first.
LEMMA HopeInit == AttemptInit => FreshRight /\ HeardRight /\ TurnOwned /\ Hope
<1> SUFFICES ASSUME AttemptInit PROVE FreshRight /\ HeardRight /\ TurnOwned /\ Hope
  OBVIOUS
<1>1. At("delegate") = "idle"
  BY HopeWorkers, IdleIs DEF AttemptInit, At
<1>2. ~call.retain /\ call.answer = "none" /\ call.heard = "none"
  BY DEF AttemptInit, NoCall
<1> QED
  BY <1>1, <1>2 DEF AttemptInit, FreshRight, HeardRight, TurnOwned, Hope, Hopeful, BeforeTurn

\* A call that completes has its answer on record.
LEMMA HopeAnswers ==
    ASSUME TypeOK, HeardRight, Hope, Completes
    PROVE  gone \/ rec.status = "reported-completed"
<1> SUFFICES ASSUME ~gone PROVE rec.status = "reported-completed"
  OBVIOUS
<1>1. At("delegate") \in {"reported", "closing", "judged"} /\ ~call.aborted /\ host = "result"
  BY DEF Completes, HeardRight
<1>2. Hoping
  BY <1>1 DEF Hope, Hopeful
<1>3. At("delegate") = "judged" => call.answer # "result"
  BY <1>2 DEF Hoping, HopeCall
<1>4. work["delegate"].on = "none" /\ work["delegate"].res = "true"
  BY <1>1, <1>2, <1>3 DEF Completes, Hoping, ToldRight, At
<1> QED
  BY <1>1, <1>2, <1>4 DEF Hoping, ToldRight, At

\* AnswerOnRecord: a call that tells its caller of a completed turn has that
\* completion on its record, whatever else settled the attempt meanwhile.
THEOREM AnswerIsOnRecord == AttemptSpec => AnswerOnRecord
<1> DEFINE Inv == TypeOK /\ PhasesRight /\ FreshRight /\ HeardRight /\ TurnOwned /\ Hope
<1>1. AttemptInit => Inv
  BY TypesInit, PhasesInit, HopeInit
<1>2. Inv /\ [AttemptNext]_attemptVars => Inv'
  <2>1. ASSUME Inv, [AttemptNext]_attemptVars PROVE FlushRight /\ EarlyRight /\ DispatchRight
    BY <2>1 DEF PhasesRight
  <2> QED
    BY <2>1, TypesStep, PhasesStep, FreshStep, HeardStep, TurnOwnedStep, HopeStep
<1>3. Inv /\ [AttemptNext]_attemptVars
        => [call'.outcome = "completed" /\ call.outcome # "completed"
              => gone \/ rec.status = "reported-completed"]_attemptVars
  <2> SUFFICES ASSUME Inv, AttemptNext, call'.outcome = "completed", call.outcome # "completed"
               PROVE  gone \/ rec.status = "reported-completed"
    OBVIOUS
  <2>1. Ending
    <3>1. ~Grows(call')
      BY DEF Grows
    <3>2. ~Crash
      <4>1. ASSUME NEW open PROVE [NoCall EXCEPT !.open = open].outcome = "none"
        BY DEF NoCall
      <4> QED
        BY <4>1 DEF Crash
    <3> QED
      BY <3>1, <3>2, CallMoves
  <2>2. Completes
    <3>1. PICK outcome \in Outcomes : call' = Over(outcome) /\ (outcome = "completed" => Completes)
      BY <2>1 DEF Ending
    <3>2. outcome = "completed"
      BY <3>1 DEF Over, NoCall
    <3> QED
      BY <3>1, <3>2
  <2> QED
    BY <2>2, HopeAnswers
<1> HIDE DEF Inv
<1> QED
  BY <1>1, <1>2, <1>3, PTL DEF AttemptSpec, AnswerOnRecord
=============================================================================
