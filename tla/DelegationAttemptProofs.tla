---------------------- MODULE DelegationAttemptProofs ----------------------
(***************************************************************************)
(* Theorems about DelegationAttempt, for any number of disturbances: while *)
(* the turn of the child Session may be working its scopes stay locked,    *)
(* and a flush leaves no attempt and no lock behind.                       *)
(*                                                                         *)
(* The invariant follows the delegation: before its child Session is there *)
(* (EarlyRight), before the turn is sent (DispatchRight), while the turn   *)
(* may be working (TurnRight), and what a flush relies on (FlushRight).    *)
(***************************************************************************)
EXTENDS DelegationAttempt, SequenceTheorems, TLAPS

-----------------------------------------------------------------------------
(* Types *)

Statuses == {"none", "running", "unknown", "reported-completed", "failed", "cancelled"}
Record == [at : {"none", "child", "tomb"}, status : Statuses, cancel : BOOLEAN, late : BOOLEAN,
           confirmed : BOOLEAN, invalid : BOOLEAN]
Inspection == [state : {"none", "running", "missing", "idle", "inactive", "unknown"},
               out : {"none", "result", "error"}, status : Statuses]
Attempts == [tracked : BOOLEAN, fg : {"none", "pending", "reconciling"}, answered : BOOLEAN,
             ids : SUBSET {"child", "tomb"},
             cancel : BOOLEAN, confirmed : BOOLEAN, missing : BOOLEAN, evidence : BOOLEAN,
             pending : Inspection, draft : Record, term : Record, invalid : BOOLEAN]
Calls == [aborted : BOOLEAN, open : BOOLEAN, sent : BOOLEAN,
          answer : {"none", "result", "error", "quiet"}, stop : {"none", "asked", "done", "error"},
          retain : BOOLEAN, status : Statuses, missing : BOOLEAN, uncertain : BOOLEAN,
          over : BOOLEAN, heard : {"none", "result", "error"},
          outcome : {"none", "refused", "completed", "failed", "uncertain"}]

\* What a worker does: pc, on and res may be any text.
IsStep(x) == x = [f \in {"pc", "on", "res", "fresh"} |-> x[f]] /\ x.fresh \in BOOLEAN
Works(W) == W = [v \in Worker |-> W[v]] /\ \A v \in Worker : IsStep(W[v])

TypeOK ==
    /\ host \in {"none", "sent", "busy", "result", "error", "quiet"}
    /\ gone \in BOOLEAN /\ lock \in BOOLEAN
    /\ events \in Seq({"busy", "idle", "deleted"})
    /\ rec \in Record /\ (rec.at = "none" => rec = NoRecord) /\ att \in Attempts /\ call \in Calls /\ Works(work)
    /\ timers \subseteq {"settle", "cancel", "tomb"}
    /\ phase \in {"serving", "flushing", "flushed", "closed", "down"}

BeforeChild == {"idle", "prepare", "lock", "admit", "create"}
BeforeTurn == {"after", "session", "revalidate"}
Ended == {"idle", "done"}
At(w) == work[w].pc

\* A flush waits for the call and the event handler, and starts no more of them.
FlushRight ==
    /\ At("flush") # "idle" => phase = "flushing"
    /\ At("flush") \notin {"idle", "inflight"} \/ phase \in {"flushed", "closed", "down"}
         => At("delegate") \in Ended /\ At("event") = "idle"
    /\ phase = "down" => host \notin {"sent", "busy"}
    /\ lock => att.tracked \/ At("recover") = "authority" \/ At("delegate") \in {"admit", "create"}

\* Nobody but the call, a flush that waits for it and recovery is at work.
Quiet(W) ==
    /\ \A w \in Worker \ {"delegate", "flush", "recover"} : W[w] = Resting
    /\ W["flush"].pc \in {"idle", "inflight"} /\ W["recover"].pc \in {"idle", "read"}
    /\ \A w \in Worker : W[w].on = "none"

\* Before the child Session is there.
EarlyRight ==
    At("delegate") \in BeforeChild =>
      /\ host = "none" /\ ~gone /\ events = <<>> /\ rec = NoRecord /\ att = Attempt(NoRecord)
      /\ timers = {} /\ Quiet(work)
      /\ call.stop = "none" /\ ~call.missing /\ call.answer = "none" /\ call.heard = "none"
      /\ At("delegate") \in {"admit", "create"} => lock

\* Until the turn is over: what its workers, the attempt, its record and the
\* call can be at.
CalmPc(w, pc) ==
    /\ w \in {"S", "M", "settleTimer", "tombTimer"} => pc = "idle"
    /\ w = "H" => pc \in {"idle", "begin", "fenced", "cancel"}
    /\ w = "event" => pc \in {"idle", "active", "evident", "handled", "thrown"}
    /\ w = "flush" => pc \in {"idle", "inflight", "reconcile", "active", "evident", "waited"}
    /\ w = "recover" => pc \in {"idle", "read", "authority", "reconcile", "active", "evident"}
Calm(W) == \A w \in Worker : W[w].on \notin {"S", "M"} /\ CalmPc(w, W[w].pc)
CleanAttempt(a) ==
    /\ a.tracked /\ ~a.answered /\ a.pending = NoInspection /\ a.term = NoRecord
    /\ a.ids = {"child"} /\ ~a.confirmed /\ ~a.missing
CleanRecord(r) == r.at = "child" /\ ~r.confirmed /\ r.status \in {"running", "unknown"}
CleanCall(c) == c.stop # "done" /\ ~c.missing /\ c.answer = "none" /\ c.heard = "none"
Clean ==
    /\ lock /\ CleanAttempt(att) /\ CleanRecord(rec) /\ CleanCall(call)
    /\ events \in Seq({"busy"}) /\ timers \subseteq {"cancel"} /\ Calm(work)

\* Before the turn is sent.
DispatchRight ==
    At("delegate") \in BeforeTurn /\ ~gone /\ ~call.aborted =>
      /\ Clean /\ host = "none" /\ events = <<>> /\ timers = {} /\ att.fg = "pending"
      /\ Quiet(work) /\ call.stop = "none"

Runs == host \in {"sent", "busy"} /\ ~gone /\ phase \notin {"closed", "down"}
CallPc == {"turn", "stopping", "inspect", "retained", "reconcile", "active", "evident", "judged", "done"}
CalmStep(x) == x.pc \in CallPc /\ (x.pc = "judged" => x.on = "none" /\ x.res # "true")
Calling ==
    /\ CalmStep(work["delegate"])
    /\ At("delegate") = "retained" => call.status = "unknown"
    /\ At("delegate") \in {"turn", "done"} \/ host = "busy" \/ call.aborted

\* The call is over and a recovery has forgotten the attempt until it knows its
\* authority: the lock stays in the table.
Forgotten ==
    /\ lock /\ ~att.tracked /\ CleanAttempt([att EXCEPT !.tracked = TRUE]) /\ CleanRecord(rec) /\ CleanCall(call)
    /\ events \in Seq({"busy"}) /\ timers \subseteq {"cancel"} /\ Calm(work)
    /\ At("recover") = "authority" /\ At("delegate") = "done"
TurnRight == Runs => (Clean /\ Calling) \/ Forgotten

\* A call that awaits its turn is not recovered.
OwnedRight == Runs => At("delegate") = "done" \/ att.fg # "none"


-----------------------------------------------------------------------------
(* Workers *)

Promises == {"S", "P", "C", "M", "H"}

\* W with the worker w at x; the others as they were.
Puts(V, W, w) == Works(V) /\ \A v \in Worker \ {w} : V[v] = W[v]

\* Records and functions spelled out.
LEMMA IdleIs == IsStep(Resting) /\ Resting.pc = "idle" /\ Resting.on = "none" /\ Resting.res = "none" /\ ~Resting.fresh
  BY DEF Resting, IsStep

Put(V, W, w, x) == V = [W EXCEPT ![w] = x]

LEMMA PutIs ==
    ASSUME NEW W, Works(W), NEW w \in Worker, NEW x, IsStep(x), NEW V, Put(V, W, w, x)
    PROVE  Puts(V, W, w) /\ V[w] = x
  BY DEF Works, Puts, Put

LEMMA GotoIs ==
    ASSUME NEW W, Works(W), NEW w \in Worker, NEW pc
    PROVE  LET V == Goto(W, w, pc) IN
           /\ Puts(V, W, w)
           /\ V[w].pc = pc /\ V[w].on = "none" /\ V[w].res = "none" /\ ~V[w].fresh
<1> DEFINE x == [Resting EXCEPT !.pc = pc]
<1>1. IsStep(x) /\ x.pc = pc /\ x.on = "none" /\ x.res = "none" /\ ~x.fresh
  BY DEF IsStep, Resting
<1>2. Put(Goto(W, w, pc), W, w, x)
  BY DEF Put, Goto
<1> HIDE DEF x
<1> QED
  BY <1>1, <1>2, PutIs

LEMMA FinishIs ==
    ASSUME NEW W, Works(W), NEW w \in Worker, NEW pc, NEW res
    PROVE  LET V == Finish(W, w, pc, res) IN
           /\ Puts(V, W, w)
           /\ V[w].pc = pc /\ V[w].on = "none" /\ V[w].res = res /\ ~V[w].fresh
<1> DEFINE x == [Resting EXCEPT !.pc = pc, !.res = res]
<1>1. IsStep(x) /\ x.pc = pc /\ x.on = "none" /\ x.res = res /\ ~x.fresh
  BY DEF IsStep, Resting
<1>2. Put(Finish(W, w, pc, res), W, w, x)
  BY DEF Put, Finish
<1> HIDE DEF x
<1> QED
  BY <1>1, <1>2, PutIs

LEMMA InspectsIs ==
    ASSUME NEW W, Works(W), NEW w \in Worker, NEW pc
    PROVE  LET V == Inspects(W, w, pc) IN
           /\ Puts(V, W, w)
           /\ V[w].pc = pc /\ V[w].on = "none" /\ V[w].res = "none" /\ V[w].fresh
<1> DEFINE x == [Resting EXCEPT !.pc = pc, !.fresh = TRUE]
<1>1. IsStep(x) /\ x.pc = pc /\ x.on = "none" /\ x.res = "none" /\ x.fresh
  BY DEF IsStep, Resting
<1>2. Put(Inspects(W, w, pc), W, w, x)
  BY DEF Put, Inspects
<1> HIDE DEF x
<1> QED
  BY <1>1, <1>2, PutIs

\* The promise s is begun, or it is under way already.
Begun(V, W, s) ==
    IF W[s].pc = "idle" THEN V[s].pc = First[s] /\ V[s].on = "none" /\ V[s].res = "none" /\ ~V[s].fresh
    ELSE V[s] = W[s]

LEMMA AwaitsIs ==
    ASSUME NEW W, Works(W), NEW w \in Worker, NEW s \in Promises, w # s, NEW pc
    PROVE  LET V == Awaits(W, w, s, pc) IN
           /\ Works(V) /\ \A v \in Worker \ {w, s} : V[v] = W[v]
           /\ V[w].pc = pc /\ V[w].on = s /\ V[w].res = "none" /\ ~V[w].fresh
           /\ Begun(V, W, s)
<1> DEFINE x == [Resting EXCEPT !.pc = pc, !.on = s]
           y == [Resting EXCEPT !.pc = First[s]]
           V == [W EXCEPT ![w] = x]
           U == [V EXCEPT ![s] = IF V[s].pc = "idle" THEN y ELSE V[s]]
<1>1. s \in Worker
  BY DEF Promises, Worker
<1>2. IsStep(x) /\ x.pc = pc /\ x.on = s /\ x.res = "none" /\ ~x.fresh
  BY DEF IsStep, Resting
<1>3. IsStep(y) /\ y.pc = First[s] /\ y.on = "none" /\ y.res = "none" /\ ~y.fresh
  BY DEF IsStep, Resting
<1>4. W = [v \in Worker |-> W[v]]
  BY DEF Works
<1>5. Awaits(W, w, s, pc) = [W EXCEPT ![w] = x, ![s] = IF @.pc = "idle" THEN y ELSE @]
  BY DEF Awaits
<1> HIDE DEF x, y
<1>6. Awaits(W, w, s, pc) = U
  BY <1>1, <1>4, <1>5
<1>14. Put(V, W, w, x)
  BY DEF Put
<1>15. Put(U, V, s, IF V[s].pc = "idle" THEN y ELSE V[s])
  BY DEF Put
<1> HIDE DEF V, U
<1>7. Puts(V, W, w) /\ V[w] = x
  BY <1>2, <1>14, PutIs
<1>8. IsStep(V[s]) /\ V[s] = W[s] /\ Works(V)
  BY <1>1, <1>7 DEF Puts, Works
<1>9. IsStep(IF V[s].pc = "idle" THEN y ELSE V[s])
  BY <1>3, <1>8
<1>10. Puts(U, V, s) /\ U[s] = IF V[s].pc = "idle" THEN y ELSE V[s]
  BY <1>1, <1>8, <1>9, <1>15, PutIs
<1>11. Works(U) /\ \A v \in Worker \ {w, s} : U[v] = W[v]
  BY <1>7, <1>10 DEF Puts
<1>12. U[w] = x
  BY <1>7, <1>10 DEF Puts
<1>13. Begun(U, W, s)
  BY <1>3, <1>8, <1>10 DEF Begun
<1> QED
  BY <1>2, <1>6, <1>11, <1>12, <1>13

\* Who awaited s goes on with res, who did not is where it was.
Answers(V, W, v, s, res) ==
    IF W[v].on = s
    THEN V[v].pc = W[v].pc /\ V[v].on = "none" /\ V[v].res = res /\ V[v].fresh = W[v].fresh
    ELSE V[v] = W[v]

LEMMA ReturnIs ==
    ASSUME NEW W, Works(W), NEW s \in Promises, NEW res
    PROVE  LET V == Return(W, s, res) IN
           /\ Works(V) /\ V[s] = Resting
           /\ \A v \in Worker \ {s} : Answers(V, W, v, s, res)
<1> DEFINE V == Return(W, s, res)
<1>1. s \in Worker
  BY DEF Promises, Worker
<1>2. V = [v \in Worker |-> IF v = s THEN Resting
                            ELSE IF W[v].on = s THEN [W[v] EXCEPT !.on = "none", !.res = res] ELSE W[v]]
  BY DEF Return
<1> HIDE DEF V
<1>3. V = [v \in Worker |-> V[v]] /\ V[s] = Resting
  BY <1>1, <1>2
<1>4. ASSUME NEW v \in Worker \ {s}
      PROVE  Answers(V, W, v, s, res) /\ IsStep(V[v])
  <2> DEFINE x == W[v]
             y == [x EXCEPT !.on = "none", !.res = res]
  <2>1. IsStep(x)
    BY DEF Works
  <2>2. V[v] = IF x.on = s THEN y ELSE x
    BY <1>2
  <2> HIDE DEF x
  <2>3. IsStep(y) /\ y.pc = x.pc /\ y.on = "none" /\ y.res = res /\ y.fresh = x.fresh
    BY <2>1 DEF IsStep
  <2> HIDE DEF y
  <2> QED
    BY <2>1, <2>2, <2>3 DEF Answers, x
<1>5. Works(V)
  BY <1>3, <1>4, IdleIs DEF Works
<1> QED
  BY <1>3, <1>4, <1>5 DEF V

\* What v heard is not current any more.
Stale(V, W, v) == V[v].pc = W[v].pc /\ V[v].on = W[v].on /\ V[v].res = W[v].res /\ ~V[v].fresh

LEMMA OvertakeIs ==
    ASSUME NEW W, Works(W)
    PROVE  Works(Overtake(W)) /\ \A v \in Worker : Stale(Overtake(W), W, v)
<1> DEFINE V == Overtake(W)
<1>1. V = [v \in Worker |-> [W[v] EXCEPT !.fresh = FALSE]]
  BY DEF Overtake
<1> HIDE DEF V
<1>2. ASSUME NEW v \in Worker
      PROVE  Stale(V, W, v) /\ IsStep(V[v])
  <2> DEFINE x == W[v]
             y == [x EXCEPT !.fresh = FALSE]
  <2>1. IsStep(x) /\ V[v] = y
    BY <1>1 DEF Works
  <2> HIDE DEF x
  <2>2. IsStep(y) /\ y.pc = x.pc /\ y.on = x.on /\ y.res = x.res /\ ~y.fresh
    BY <2>1 DEF IsStep
  <2> HIDE DEF y
  <2> QED
    BY <2>1, <2>2 DEF Stale, x
<1>3. V = [v \in Worker |-> V[v]]
  BY <1>1
<1>4. Works(V)
  BY <1>2, <1>3 DEF Works
<1> QED
  BY <1>2, <1>4 DEF V

\* Where an inspection leaves its worker.
BackPc(w, res) ==
    IF w = "event" THEN (IF res = "error" THEN "thrown" ELSE "handled")
    ELSE IF w = "delegate" THEN "judged" ELSE IF w = "recover" THEN "idle"
    ELSE IF w = "settleTimer" THEN "expired" ELSE "waited"

LEMMA BackIs ==
    ASSUME NEW W, Works(W), NEW w \in Inspector, NEW res
    PROVE  LET V == Back(W, w, res) IN
           /\ Puts(V, W, w)
           /\ V[w].pc = BackPc(w, res) /\ V[w].on = "none" /\ ~V[w].fresh
           /\ V[w].res = IF w \in {"event", "recover"} THEN "none" ELSE res
<1> DEFINE V == Back(W, w, res)
<1>1. w \in Worker
  BY DEF Inspector, Worker
<1>2. CASE w \in {"event", "recover"}
  <2>1. V = Goto(W, w, BackPc(w, res))
    BY <1>2 DEF Back, BackPc
  <2> HIDE DEF V
  <2>2. /\ Puts(V, W, w) /\ V[w].pc = BackPc(w, res) /\ V[w].on = "none" /\ ~V[w].fresh /\ V[w].res = "none"
    BY <1>1, <2>1, GotoIs
  <2> QED
    BY <1>2, <2>2 DEF V
<1>3. CASE w \notin {"event", "recover"}
  <2>1. V = Finish(W, w, BackPc(w, res), res)
    BY <1>3 DEF Back, BackPc, Inspector
  <2> HIDE DEF V
  <2>2. /\ Puts(V, W, w) /\ V[w].pc = BackPc(w, res) /\ V[w].on = "none" /\ ~V[w].fresh /\ V[w].res = res
    BY <1>1, <2>1, FinishIs
  <2> QED
    BY <1>3, <2>2 DEF V
<1> QED
  BY <1>2, <1>3

-----------------------------------------------------------------------------
(* Records, attempts and calls *)

LEMMA ConstantsAre ==
    NoRecord \in Record /\ NoInspection \in Inspection /\ Unknown \in Inspection /\ IdleSeen \in Inspection
  BY DEF NoRecord, Record, NoInspection, Inspection, Unknown, IdleSeen, Statuses

LEMMA NoRecordIs ==
    /\ NoRecord.at = "none" /\ NoRecord.status = "none" /\ ~NoRecord.cancel /\ ~NoRecord.late
    /\ ~NoRecord.confirmed /\ ~NoRecord.invalid
  BY DEF NoRecord

\* Of what stands among the records, one of the highest rank.
Stands(records, r) ==
    /\ r \in records
    /\ r.status = "cancelled" \/ (r.status \in Terminal /\ ~((\E q \in records : q.cancel) /\ r.late))

\* The end that is chosen stands, and none that stands is stronger.
LEMMA PersistedTerminalIs ==
    ASSUME NEW records \in SUBSET Record
    PROVE  LET t == PersistedTerminal(records) IN
           \/ t = NoRecord /\ \A r \in records : ~Stands(records, r)
           \/ Stands(records, t) /\ \A r \in records : Stands(records, r) => Rank(r.status) <= Rank(t.status)
<1> DEFINE S == {r \in records : Stands(records, r)}
<1>1. PersistedTerminal(records) = IF S = {} THEN NoRecord
                                   ELSE CHOOSE r \in S : \A q \in S : Rank(q.status) <= Rank(r.status)
  <2> DEFINE T == {r \in records : r.status = "cancelled"
                             \/ (r.status \in Terminal /\ ~((\E q \in records : q.cancel) /\ r.late))}
  <2>1. S = T
    BY DEF Stands
  <2>2. PersistedTerminal(records) = IF T = {} THEN NoRecord
                                     ELSE CHOOSE r \in T : \A q \in T : Rank(q.status) <= Rank(r.status)
    BY DEF PersistedTerminal
  <2> HIDE DEF S, T
  <2> QED
    BY <2>1, <2>2
<1>2. ASSUME S # {}
      PROVE  \E r \in S : \A q \in S : Rank(q.status) <= Rank(r.status)
  <2>1. \A r \in S : Rank(r.status) \in 1 .. 3
    BY DEF Rank
  <2>2. CASE \E r \in S : Rank(r.status) = 3
    BY <2>1, <2>2
  <2>3. CASE ~(\E r \in S : Rank(r.status) = 3) /\ \E r \in S : Rank(r.status) = 2
    BY <2>1, <2>3
  <2>4. CASE ~(\E r \in S : Rank(r.status) = 3) /\ ~(\E r \in S : Rank(r.status) = 2)
    <3>1. \A r \in S : Rank(r.status) = 1
      BY <2>1, <2>4
    <3> QED
      BY <1>2, <3>1
  <2> QED
    BY <2>2, <2>3, <2>4
<1>3. CASE S = {}
  BY <1>1, <1>3
<1>4. CASE S # {}
  <2> DEFINE t == CHOOSE r \in S : \A q \in S : Rank(q.status) <= Rank(r.status)
  <2>1. PersistedTerminal(records) = t
    BY <1>1, <1>4
  <2>2. t \in S /\ \A q \in S : Rank(q.status) <= Rank(t.status)
    BY <1>2, <1>4
  <2> HIDE DEF t
  <2> QED
    BY <2>1, <2>2
<1> QED
  BY <1>3, <1>4

LEMMA PersistedTerminalType ==
    ASSUME NEW records \in SUBSET Record
    PROVE  PersistedTerminal(records) \in Record
  BY PersistedTerminalIs, ConstantsAre DEF Stands

LEMMA MergeType ==
    ASSUME NEW r \in Record, NEW c \in Record
    PROVE  MergeTerminal(r, c) \in Record /\ MergeTerminal(r, c).at = r.at
<1> DEFINE cancel == r.cancel \/ c.cancel
           adjusted == IF c.confirmed \/ (cancel /\ c.late) THEN [c EXCEPT !.status = "cancelled"] ELSE c
           known == PersistedTerminal({[r EXCEPT !.cancel = cancel], adjusted})
           winner == IF c.confirmed \/ known = NoRecord THEN adjusted ELSE known
<1>1. cancel \in BOOLEAN /\ adjusted \in Record /\ [r EXCEPT !.cancel = cancel] \in Record
  BY DEF Record, Statuses
<1>2. known \in Record
  BY <1>1, PersistedTerminalType
<1>3. MergeTerminal(r, c) = [r EXCEPT !.status = winner.status, !.late = winner.late, !.cancel = cancel,
                              !.confirmed = @ \/ c.confirmed, !.invalid = FALSE]
  BY DEF MergeTerminal
<1> HIDE DEF known, adjusted, cancel
<1>4. winner \in Record
  BY <1>1, <1>2
<1> HIDE DEF winner
<1> QED
  BY <1>1, <1>3, <1>4 DEF Record

LEMMA AttemptType ==
    ASSUME NEW r \in Record
    PROVE  Attempt(r) \in Attempts
  BY ConstantsAre DEF Attempt, Attempts, Record

\* Two attempts that differ in what an inspection is about to settle only.
SameBut(a, b) ==
    /\ a.tracked = b.tracked /\ a.fg = b.fg /\ a.answered = b.answered /\ a.ids = b.ids
    /\ a.cancel = b.cancel /\ a.confirmed = b.confirmed /\ a.missing = b.missing
    /\ a.evidence = b.evidence /\ a.draft = b.draft /\ a.term = b.term /\ a.invalid = b.invalid

\* What an attempt is after its records were read.
LEMMA CollectedIs ==
    ASSUME NEW a \in Attempts, rec \in Record, rec.at = "none" => rec = NoRecord
    PROVE  LET b == Collected(a) IN
           /\ b \in Attempts /\ b.tracked
           /\ b.fg = a.fg /\ b.answered = a.answered /\ b.evidence = a.evidence
           /\ b.pending = a.pending /\ b.draft = a.draft /\ b.invalid = a.invalid
           /\ rec = NoRecord => b.ids = a.ids
           /\ rec # NoRecord => b.ids = a.ids \cup {rec.at}
           /\ b.cancel = (a.cancel \/ rec.cancel) /\ b.confirmed = (a.confirmed \/ rec.confirmed)
           /\ b.missing = (a.missing \/ a.confirmed \/ rec.confirmed)
           /\ b.term = PersistedTerminal({rec, a.term} \ {NoRecord})
<1> DEFINE found == {rec} \ {NoRecord}
           ids == a.ids \cup {r.at : r \in found}
           term == PersistedTerminal(found \cup ({a.term} \ {NoRecord}))
           b == [a EXCEPT !.tracked = TRUE, !.ids = ids,
                  !.cancel = @ \/ rec.cancel, !.confirmed = @ \/ rec.confirmed,
                  !.missing = @ \/ a.confirmed \/ rec.confirmed, !.term = term]
<1>1. Collected(a) = b
  BY DEF Collected
<1>2. /\ rec = NoRecord => ids = a.ids
      /\ rec # NoRecord => ids = a.ids \cup {rec.at}
  OBVIOUS
<1>3. ids \in SUBSET {"child", "tomb"}
  BY <1>2 DEF Attempts, Record
<1>4. found \cup ({a.term} \ {NoRecord}) = {rec, a.term} \ {NoRecord}
  OBVIOUS
<1>5. a.term \in Record
  BY DEF Attempts
<1>6. term = PersistedTerminal({rec, a.term} \ {NoRecord})
  BY <1>4
<1>7. term \in Record
  BY <1>5, <1>6, PersistedTerminalType
<1> HIDE DEF ids, term
<1>9. rec.cancel \in BOOLEAN /\ rec.confirmed \in BOOLEAN
  BY DEF Record
<1>8. /\ b \in Attempts /\ b.tracked
      /\ b.fg = a.fg /\ b.answered = a.answered /\ b.evidence = a.evidence
      /\ b.pending = a.pending /\ b.draft = a.draft /\ b.invalid = a.invalid
      /\ b.ids = ids /\ b.cancel = (a.cancel \/ rec.cancel) /\ b.confirmed = (a.confirmed \/ rec.confirmed)
      /\ b.missing = (a.missing \/ a.confirmed \/ rec.confirmed) /\ b.term = term
  BY <1>3, <1>7, <1>9 DEF Attempts
<1> HIDE DEF b
<1> QED
  BY <1>1, <1>2, <1>6, <1>8

\* The draft that is written.
LEMMA CandidateIs ==
    ASSUME NEW a \in Attempts
    PROVE  LET d == Candidate(a) IN
           /\ d \in Record /\ d.at = "none" /\ d.cancel = a.cancel /\ d.confirmed = a.confirmed /\ ~d.invalid
           /\ d.status = IF a.confirmed THEN "cancelled"
                         ELSE IF a.term # NoRecord THEN a.term.status
                         ELSE IF a.cancel THEN "cancelled"
                         ELSE IF a.pending.status # "none" THEN a.pending.status
                         ELSE IF a.pending.out = "error" THEN "failed"
                         ELSE IF a.pending.out = "result" THEN "reported-completed" ELSE "unknown"
<1> DEFINE status == IF a.confirmed THEN "cancelled"
                     ELSE IF a.term # NoRecord THEN a.term.status
                     ELSE IF a.cancel THEN "cancelled"
                     ELSE IF a.pending.status # "none" THEN a.pending.status
                     ELSE IF a.pending.out = "error" THEN "failed"
                     ELSE IF a.pending.out = "result" THEN "reported-completed" ELSE "unknown"
           late == IF a.term # NoRecord /\ ~a.confirmed THEN a.term.late ELSE a.cancel
<1>1. status \in Statuses /\ late \in BOOLEAN
  BY DEF Attempts, Record, Inspection, Statuses
<1>2. Candidate(a) = [NoRecord EXCEPT !.status = status, !.late = late, !.cancel = a.cancel,
                                      !.confirmed = a.confirmed]
  BY DEF Candidate
<1>3. a.cancel \in BOOLEAN /\ a.confirmed \in BOOLEAN
  BY DEF Attempts
<1> HIDE DEF status, late
<1>4. /\ Candidate(a) \in Record /\ Candidate(a).at = "none" /\ ~Candidate(a).invalid
      /\ Candidate(a).cancel = a.cancel /\ Candidate(a).confirmed = a.confirmed
      /\ Candidate(a).status = status
  BY <1>1, <1>2, <1>3 DEF NoRecord, Record
<1> QED
  BY <1>4 DEF status

LEMMA ConfirmedIs ==
    ASSUME NEW a \in Attempts
    PROVE  /\ Confirmed(a) \in Attempts /\ Confirmed(a).tracked = a.tracked
           /\ ~a.missing => Confirmed(a) = a
  BY DEF Confirmed, Attempts

LEMMA MissingIs ==
    ASSUME NEW a \in Attempts
    PROVE  /\ Missing(a) \in Attempts /\ Missing(a).tracked = a.tracked
           /\ Deleted(a) \in Attempts /\ Deleted(a).tracked = a.tracked
  BY DEF Missing, Deleted, Attempts

LEMMA InvalidatedIs ==
    ASSUME NEW a \in Attempts
    PROVE  LET b == Invalidated(a) IN
           /\ b \in Attempts /\ b.evidence /\ b.pending = NoInspection
           /\ b.tracked = a.tracked /\ b.fg = a.fg /\ b.answered = a.answered /\ b.ids = a.ids
           /\ b.cancel = a.cancel /\ b.confirmed = a.confirmed /\ b.missing = a.missing
           /\ b.draft = a.draft /\ b.term = a.term /\ b.invalid = a.invalid
  BY ConstantsAre DEF Invalidated, Attempts

\* What SettleAttempt leaves: nothing, or the settlement awaited with x in it.
LEMMA SettleIs ==
    ASSUME Works(work), NEW a \in Attempts, NEW x \in Inspection,
           NEW w \in Worker, w # "S", NEW pc, SettleAttempt(a, x, w, pc)
    PROVE  /\ Works(work') /\ att' \in Attempts /\ SameBut(att', a)
           /\ \A v \in Worker \ {w, "S"} : work'[v] = work[v]
           /\ work'[w].pc = pc /\ ~work'[w].fresh
           /\ \/ /\ att' = a /\ work'["S"] = work["S"]
                 /\ work'[w].on = "none" /\ work'[w].res = "false"
              \/ /\ a.tracked /\ Stopped(a, x)
                 /\ work'[w].on = "S" /\ work'[w].res = "none"
                 /\ work["S"].pc = "idle" => work'["S"].pc = "begin" /\ work'["S"].on = "none"
                 /\ work["S"].pc # "idle" => work'["S"].pc = work["S"].pc /\ work'["S"].on = work["S"].on
                                             /\ work'["S"].res = work["S"].res
                 /\ \/ Replaces(a, x) /\ att'.pending = x /\ ~work'["S"].fresh
                    \/ /\ ~Replaces(a, x) /\ att' = a
                       /\ work["S"].pc # "idle" => work'["S"] = work["S"]
                       /\ work["S"].pc = "idle" => ~work'["S"].fresh
<1> DEFINE x0 == work["S"]
           y == [x0 EXCEPT !.fresh = FALSE]
           W == [work EXCEPT !["S"].fresh = FALSE]
<1>1. "S" \in Worker /\ "S" \in Promises /\ First["S"] = "begin"
  BY DEF Worker, Promises, First
<1>2. IsStep(x0)
  BY <1>1 DEF Works
<1>3. IsStep(y) /\ y.pc = x0.pc /\ y.on = x0.on /\ y.res = x0.res /\ ~y.fresh
  <2> HIDE DEF x0
  <2> QED
    BY <1>2 DEF IsStep
<1>4. Put(W, work, "S", y)
  BY DEF Put
<1> HIDE DEF W, y
<1>5. Puts(W, work, "S") /\ W["S"] = y
  BY <1>1, <1>3, <1>4, PutIs
<1>6. CASE ~a.tracked \/ ~Stopped(a, x) \/ (x.out = "result" /\ ~a.cancel /\ a.invalid)
  <2>1. att' = a /\ work' = Finish(work, w, pc, "false")
    BY <1>6 DEF SettleAttempt
  <2> QED
    BY <1>1, <2>1, FinishIs DEF Puts, SameBut
<1>7. CASE ~(~a.tracked \/ ~Stopped(a, x) \/ (x.out = "result" /\ ~a.cancel /\ a.invalid)) /\ Replaces(a, x)
  <2>1. att' = [a EXCEPT !.pending = x] /\ work' = Awaits(W, w, "S", pc)
    BY <1>7 DEF SettleAttempt, W
  <2>2. att' \in Attempts /\ SameBut(att', a) /\ att'.pending = x
    BY <2>1 DEF Attempts, SameBut
  <2>3. /\ Works(work') /\ \A v \in Worker \ {w, "S"} : work'[v] = W[v]
        /\ work'[w].pc = pc /\ work'[w].on = "S" /\ work'[w].res = "none" /\ ~work'[w].fresh
        /\ Begun(work', W, "S")
    BY <1>1, <1>5, <2>1, AwaitsIs DEF Puts
  <2>4. \A v \in Worker \ {w, "S"} : work'[v] = work[v]
    BY <1>5, <2>3 DEF Puts
  <2>5. /\ work["S"].pc = "idle" => work'["S"].pc = "begin" /\ work'["S"].on = "none"
        /\ work["S"].pc # "idle" => work'["S"].pc = work["S"].pc /\ work'["S"].on = work["S"].on
                                    /\ work'["S"].res = work["S"].res
        /\ ~work'["S"].fresh
    BY <1>1, <1>3, <1>5, <2>3 DEF Begun
  <2> QED
    BY <1>7, <2>2, <2>3, <2>4, <2>5
<1>8. CASE ~(~a.tracked \/ ~Stopped(a, x) \/ (x.out = "result" /\ ~a.cancel /\ a.invalid)) /\ ~Replaces(a, x)
  <2>1. att' = a /\ work' = Awaits(work, w, "S", pc)
    BY <1>8 DEF SettleAttempt
  <2>2. /\ Works(work') /\ \A v \in Worker \ {w, "S"} : work'[v] = work[v]
        /\ work'[w].pc = pc /\ work'[w].on = "S" /\ work'[w].res = "none" /\ ~work'[w].fresh
        /\ Begun(work', work, "S")
    BY <1>1, <2>1, AwaitsIs
  <2>3. /\ work["S"].pc = "idle" => work'["S"].pc = "begin" /\ work'["S"].on = "none" /\ ~work'["S"].fresh
        /\ work["S"].pc # "idle" => work'["S"] = work["S"]
    BY <1>1, <2>2 DEF Begun
  <2>4. SameBut(att', a)
    BY <2>1 DEF SameBut
  <2> QED
    BY <1>8, <2>1, <2>2, <2>3, <2>4
<1> QED
  BY <1>6, <1>7, <1>8

-----------------------------------------------------------------------------
(* Effects *)

\* v is at the same place; what it awaited may have been answered.
Stays(V, W, v) ==
    /\ V[v].pc = W[v].pc
    /\ V[v].on \in {W[v].on, "none"}
    /\ W[v].on = "none" => V[v].res = W[v].res

\* Only the workers ws go on.
Steps(V, W, ws) == Works(V) /\ \A v \in Worker \ ws : Stays(V, W, v)

LEMMA PutsSteps ==
    ASSUME NEW V, NEW W, NEW w \in Worker, Puts(V, W, w)
    PROVE  Steps(V, W, {w})
  BY DEF Puts, Steps, Stays

LEMMA SameSteps ==
    ASSUME NEW V, NEW W, NEW ws, Works(V), \A v \in Worker \ ws : V[v] = W[v]
    PROVE  Steps(V, W, ws)
  BY DEF Steps, Stays

LEMMA StepsTogether ==
    ASSUME NEW V, NEW U, NEW W, NEW ws, NEW us, Steps(V, U, ws), Steps(U, W, us)
    PROVE  Steps(V, W, ws \cup us)
<1>1. ASSUME NEW v \in Worker \ (ws \cup us)
      PROVE  Stays(V, W, v)
  <2>1. Stays(V, U, v) /\ Stays(U, W, v)
    BY DEF Steps
  <2> QED
    BY <2>1 DEF Stays
<1> QED
  BY <1>1 DEF Steps

LEMMA OvertakeSteps ==
    ASSUME NEW W, Works(W)
    PROVE  Steps(Overtake(W), W, {})
  BY OvertakeIs DEF Steps, Stays, Stale

LEMMA ReturnSteps ==
    ASSUME NEW W, Works(W), NEW s \in Promises, NEW res
    PROVE  Steps(Return(W, s, res), W, {s}) /\ Return(W, s, res)[s] = Resting
<1> DEFINE V == Return(W, s, res)
<1>1. Works(V) /\ V[s] = Resting /\ \A v \in Worker \ {s} : Answers(V, W, v, s, res)
  BY ReturnIs
<1>2. s # "none"
  BY DEF Promises
<1> HIDE DEF V
<1>3. Steps(V, W, {s})
  BY <1>1, <1>2 DEF Steps, Stays, Answers
<1> QED
  BY <1>1, <1>3 DEF V

LEMMA AwaitsSteps ==
    ASSUME NEW W, Works(W), NEW w \in Worker, NEW s \in Promises, w # s, NEW pc
    PROVE  LET V == Awaits(W, w, s, pc) IN
           /\ Steps(V, W, {w, s}) /\ V[w].pc = pc /\ V[w].on = s
           /\ W[s].pc # "idle" => Steps(V, W, {w})
           /\ W[s].pc = "idle" => V[s].pc = First[s] /\ V[s].on = "none"
<1> DEFINE V == Awaits(W, w, s, pc)
<1>1. /\ Works(V) /\ \A v \in Worker \ {w, s} : V[v] = W[v]
      /\ V[w].pc = pc /\ V[w].on = s
      /\ Begun(V, W, s)
  BY AwaitsIs
<1> HIDE DEF V
<1>2. Steps(V, W, {w, s})
  BY <1>1, SameSteps
<1>3. W[s].pc # "idle" => Steps(V, W, {w})
  BY <1>1, SameSteps DEF Begun
<1>4. W[s].pc = "idle" => V[s].pc = First[s] /\ V[s].on = "none"
  BY <1>1 DEF Begun
<1> QED
  BY <1>1, <1>2, <1>3, <1>4 DEF V

LEMMA SettleSteps ==
    ASSUME Works(work), NEW a \in Attempts, NEW x \in Inspection,
           NEW w \in Worker, w # "S", NEW pc, SettleAttempt(a, x, w, pc)
    PROVE  /\ att' \in Attempts /\ SameBut(att', a)
           /\ Steps(work', work, {w, "S"}) /\ work'[w].pc = pc
  BY SettleIs, SameSteps

-----------------------------------------------------------------------------
(* What the host and its events do *)

LEMMA SeenType ==
    ASSUME host \in {"none", "sent", "busy", "result", "error", "quiet"}
    PROVE  /\ \A x \in Seen : x \in Inspection
           /\ host = "busy" => \A x \in Seen : x.state = "running" /\ x.out = "none"
           /\ \A x \in Seen : x.status = "none" /\ (x.out # "none" => x.out = host)
  BY DEF Seen, NoInspection, Inspection, Statuses

Kinds == {"busy", "idle", "deleted"}

\* Events keep their kinds.
LEMMA EmitsType ==
    ASSUME events \in Seq(Kinds), NEW kind \in Kinds, Emits(kind) \/ Tell(kind)
    PROVE  /\ events' \in Seq(Kinds)
           /\ events' = events \/ events' = Append(events, kind)
<1>1. Append(events, kind) \in Seq(Kinds)
  OBVIOUS
<1> QED
  BY <1>1 DEF Emits, Tell

\* A turn that is cancelled is over.
LEMMA CancelTurnIs ==
    ASSUME TypeOK, NEW yes \in BOOLEAN, CancelTurn(yes)
    PROVE  /\ host' = host \/ (host \in {"sent", "busy"} /\ host' = "quiet")
           /\ yes => host' \notin {"sent", "busy"}
           /\ ~yes => UNCHANGED <<host, events>>
           /\ events' \in Seq(Kinds)
<1> USE DEF Kinds
<1>1. CASE yes
  <2>1. host' = IF host \in {"sent", "busy"} THEN "quiet" ELSE host
    BY <1>1 DEF CancelTurn
  <2>2. Emits("idle") \/ UNCHANGED events
    BY <1>1 DEF CancelTurn
  <2>3. events' \in Seq(Kinds)
    BY <2>2, EmitsType DEF TypeOK
  <2> QED
    BY <1>1, <2>1, <2>3
<1>2. CASE ~yes
  BY <1>2 DEF CancelTurn, TypeOK, Blame
<1> QED
  BY <1>1, <1>2

-----------------------------------------------------------------------------
(* The parts that actions share *)

\* The promises the code keeps, and the workers a step of anyone may begin.
LEMMA Workers ==
    /\ Promises \subseteq Worker /\ Inspector \subseteq Worker /\ Inspector \cap Promises = {}
    /\ "delegate" \in Worker /\ "stop" \in Worker /\ "event" \in Worker /\ "flush" \in Worker
    /\ "recover" \in Worker /\ "settleTimer" \in Worker /\ "cancelTimer" \in Worker /\ "tombTimer" \in Worker
    /\ "S" \in Promises /\ "P" \in Promises /\ "C" \in Promises /\ "M" \in Promises /\ "H" \in Promises
    /\ "delegate" \in Inspector /\ "event" \in Inspector /\ "recover" \in Inspector
    /\ "settleTimer" \in Inspector /\ "flush" \in Inspector
  BY DEF Promises, Worker, Inspector

\* A promise that is resolved wakes those who await it.
LEMMA GivesIs ==
    ASSUME Works(work), NEW s \in Promises, NEW res, Gives(s, res)
    PROVE  /\ Steps(work', work, {s}) /\ work'[s] = Resting
           /\ \A v \in Worker \ {s} : Answers(work', work, v, s, res)
           /\ UNCHANGED <<rec, att, lock, timers>>
  BY ReturnIs, ReturnSteps DEF Gives

LEMMA GoesOn ==
    ASSUME Works(work), NEW w \in Worker, NEW pc, work' = Goto(work, w, pc)
    PROVE  /\ Steps(work', work, {w}) /\ \A v \in Worker \ {w} : work'[v] = work[v]
           /\ work'[w].pc = pc /\ work'[w].on = "none" /\ work'[w].res = "none" /\ ~work'[w].fresh
  BY GotoIs, PutsSteps DEF Puts

LEMMA GoesBackIs ==
    ASSUME Works(work), NEW w \in Inspector, NEW res, GoesBack(w, res)
    PROVE  /\ Steps(work', work, {w}) /\ \A v \in Worker \ {w} : work'[v] = work[v]
           /\ work'[w].pc = BackPc(w, res) /\ work'[w].on = "none" /\ ~work'[w].fresh
           /\ work'[w].res = IF w \in {"event", "recover"} THEN "none" ELSE res
           /\ UNCHANGED <<rec, att, lock, timers>>
<1>1. w \in Worker
  BY Workers
<1>2. work' = Back(work, w, res) /\ UNCHANGED <<rec, att, lock, timers>>
  BY DEF GoesBack
<1> QED
  BY <1>1, <1>2, BackIs, PutsSteps DEF Puts

\* A settlement that is done lets go of the attempt and its lock.
LEMMA ReleaseIs ==
    ASSUME Works(work), att \in Attempts, ReleaseAttempt
    PROVE  /\ att' \in Attempts /\ ~att'.tracked /\ att'.fg = att.fg /\ ~lock' /\ timers' = {}
           /\ Steps(work', work, {"S"}) /\ work'["S"] = Resting
           /\ \A v \in Worker \ {"S"} :
                /\ work'[v].pc = work[v].pc
                /\ work[v].on = "S" => work'[v].on = "none" /\ work'[v].res = "true"
                /\ work[v].on # "S" => work'[v].on = work[v].on /\ work'[v].res = work[v].res
<1> DEFINE U == Overtake(work)
<1>1. /\ att' = [att EXCEPT !.tracked = FALSE, !.pending = NoInspection, !.draft = NoRecord]
      /\ ~lock' /\ timers' = {} /\ work' = Return(U, "S", "true")
  BY DEF ReleaseAttempt
<1>2. att' \in Attempts /\ ~att'.tracked /\ att'.fg = att.fg
  BY <1>1, ConstantsAre DEF Attempts
<1>3. Works(U) /\ \A v \in Worker : Stale(U, work, v)
  BY OvertakeIs
<1>4. Steps(U, work, {})
  BY OvertakeSteps
<1> HIDE DEF U
<1>5. Steps(work', U, {"S"}) /\ work'["S"] = Resting
  BY <1>1, <1>3, Workers, ReturnSteps
<1>6. Steps(work', work, {"S"})
  <2>1. {"S"} \cup {} = {"S"}
    OBVIOUS
  <2> QED
    BY <1>4, <1>5, <2>1, StepsTogether
<1>7. \A v \in Worker \ {"S"} : Answers(work', U, v, "S", "true")
  BY <1>1, <1>3, Workers, ReturnIs
<1>8. \A v \in Worker \ {"S"} :
        /\ work'[v].pc = work[v].pc
        /\ work[v].on = "S" => work'[v].on = "none" /\ work'[v].res = "true"
        /\ work[v].on # "S" => work'[v].on = work[v].on /\ work'[v].res = work[v].res
  BY <1>3, <1>7 DEF Answers, Stale
<1> QED
  BY <1>1, <1>2, <1>5, <1>6, <1>8

LEMMA SettlementFailsIs ==
    ASSUME Works(work), timers \subseteq {"settle", "cancel", "tomb"}, SettlementFails
    PROVE  /\ Steps(work', work, {"S"}) /\ work'["S"] = Resting
           /\ \A v \in Worker \ {"S"} : Answers(work', work, v, "S", "error")
           /\ timers' \subseteq {"settle", "cancel", "tomb"}
           /\ UNCHANGED <<rec, att, lock>>
  BY ReturnIs, ReturnSteps, Workers DEF SettlementFails

\* Evidence of work overtakes every inspection.
LEMMA MarkActiveIs ==
    ASSUME Works(work), att \in Attempts, NEW w \in Inspector, MarkActive(w)
    PROVE  /\ att' = Invalidated(att) /\ att' \in Attempts /\ att'.tracked = att.tracked
           /\ timers' = timers \ {"settle"} /\ UNCHANGED <<rec, lock>>
           /\ Steps(work', work, {w, "P"})
           /\ \A v \in Worker : work[v].on = "none" /\ v \notin {w, "P"} =>
                work'[v].pc = work[v].pc /\ work'[v].on = "none" /\ work'[v].res = work[v].res /\ ~work'[v].fresh
           /\ work["S"].pc = "idle" => work'[w].pc = "evident" /\ work'[w].on = "P"
           /\ work["S"].pc # "idle" => work'[w].pc = "active" /\ work'[w].on = "S"
           /\ \A v \in Worker \ {w, "P"} : Stale(work', work, v)
<1> DEFINE U == Overtake(work)
<1>1. Works(U) /\ Steps(U, work, {}) /\ \A v \in Worker : Stale(U, work, v)
  BY OvertakeIs, OvertakeSteps
<1>2. /\ att' = Invalidated(att) /\ timers' = timers \ {"settle"} /\ UNCHANGED <<rec, lock>>
      /\ work' = IF U["S"].pc # "idle" THEN Awaits(U, w, "S", "active") ELSE Awaits(U, w, "P", "evident")
  BY DEF MarkActive
<1>3. w \in Worker /\ w # "S" /\ w # "P" /\ "S" \in Worker
  BY Workers
<1>4. U["S"].pc = work["S"].pc
  BY <1>1, <1>3 DEF Stale
<1> HIDE DEF U
<1>5. CASE work["S"].pc = "idle"
  <2>1. work' = Awaits(U, w, "P", "evident")
    BY <1>2, <1>4, <1>5
  <2>2. /\ Works(work') /\ \A v \in Worker \ {w, "P"} : work'[v] = U[v]
        /\ work'[w].pc = "evident" /\ work'[w].on = "P"
    BY <1>1, <1>3, <2>1, Workers, AwaitsIs
  <2>3. Steps(work', work, {w, "P"})
    BY <1>1, <2>2 DEF Steps, Stays
  <2> QED
    BY <1>1, <1>2, <1>5, <2>2, <2>3, InvalidatedIs DEF Stale
<1>6. CASE work["S"].pc # "idle"
  <2>1. work' = Awaits(U, w, "S", "active")
    BY <1>2, <1>4, <1>6
  <2>2. /\ Works(work') /\ \A v \in Worker \ {w, "S"} : work'[v] = U[v]
        /\ work'[w].pc = "active" /\ work'[w].on = "S" /\ Begun(work', U, "S")
    BY <1>1, <1>3, <2>1, Workers, AwaitsIs
  <2>3. work'["S"] = U["S"]
    BY <1>4, <1>6, <2>2 DEF Begun
  <2>4. \A v \in Worker \ {w} : work'[v] = U[v]
    BY <2>2, <2>3
  <2>5. Steps(work', work, {w, "P"})
    BY <1>1, <2>2, <2>4 DEF Steps, Stays
  <2> QED
    BY <1>1, <1>2, <1>6, <2>2, <2>4, <2>5, InvalidatedIs DEF Stale
<1> QED
  BY <1>5, <1>6

LEMMA HandleMissingIs ==
    ASSUME Works(work), NEW a \in Attempts, NEW w \in Inspector, HandleMissing(a, w)
    PROVE  /\ att' \in Attempts /\ att'.tracked = a.tracked /\ att'.fg = a.fg
           /\ Steps(work', work, {w, "S"})
           /\ ~a.tracked => att' = a /\ work'[w].pc = BackPc(w, "false")
           /\ a.tracked => work'[w].pc \in {"missed", "missing"}
<1> w \in Worker /\ w # "S"
  BY Workers
<1>1. CASE ~a.tracked
  <2>1. att' = a /\ work' = Back(work, w, "false")
    BY <1>1 DEF HandleMissing
  <2>2. Puts(work', work, w) /\ work'[w].pc = BackPc(w, "false")
    BY <2>1, BackIs
  <2>3. Steps(work', work, {w, "S"})
    BY <2>2, SameSteps DEF Puts
  <2> QED
    BY <1>1, <2>1, <2>2, <2>3
<1>2. CASE a.tracked /\ a.confirmed
  <2>1. SettleAttempt(Missing(a), IdleSeen, w, "missed")
    BY <1>2 DEF HandleMissing
  <2>2. Missing(a) \in Attempts /\ Missing(a).tracked = a.tracked /\ Missing(a).fg = a.fg
    BY MissingIs DEF Missing, Attempts
  <2> QED
    BY <1>2, <2>1, <2>2, SettleSteps, ConstantsAre DEF SameBut
<1>3. CASE a.tracked /\ ~a.confirmed
  <2>1. att' = Missing(a) /\ work' = Goto(work, w, "missing")
    BY <1>3 DEF HandleMissing
  <2>2. Missing(a) \in Attempts /\ Missing(a).tracked = a.tracked /\ Missing(a).fg = a.fg
    BY MissingIs DEF Missing, Attempts
  <2>3. Puts(work', work, w) /\ work'[w].pc = "missing"
    BY <2>1, GotoIs
  <2>4. Steps(work', work, {w, "S"})
    BY <2>3, SameSteps DEF Puts
  <2> QED
    BY <1>3, <2>1, <2>2, <2>3, <2>4
<1> QED
  BY <1>1, <1>2, <1>3

\* What an inspection may change.
LEMMA JudgeIs ==
    ASSUME TypeOK, NEW w \in Inspector, NEW x \in Inspection, NEW known \in BOOLEAN, Judge(w, x, known)
    PROVE  /\ att' \in Attempts /\ att'.fg = att.fg
           /\ rec' = rec /\ timers' \subseteq timers
           /\ \/ att'.tracked = att.tracked /\ lock' = lock
              \/ w = "recover" /\ att'.tracked /\ lock' = TRUE
           /\ Steps(work', work, {w, "S", "P"})
<1> w \in Worker /\ w # "S"
  BY Workers
<1>t. Works(work) /\ att \in Attempts
  BY DEF TypeOK
<1>1. CASE \E res : GoesBack(w, res)
  <2>1. PICK res : GoesBack(w, res)
    BY <1>1
  <2>2. \A v \in Worker \ {w} : work'[v] = work[v]
    BY <1>t, <2>1, GoesBackIs
  <2>3. Works(work') /\ UNCHANGED <<rec, att, lock, timers>>
    BY <1>t, <2>1, GoesBackIs DEF Steps
  <2>4. Steps(work', work, {w, "S", "P"})
    BY <2>2, <2>3, SameSteps
  <2> QED
    BY <1>t, <2>3, <2>4
<1>2. CASE MarkActive(w)
  <2>1. Steps(work', work, {w, "S", "P"})
    BY <1>t, <1>2, MarkActiveIs DEF Steps
  <2>2. /\ att' = Invalidated(att) /\ att' \in Attempts /\ att'.tracked = att.tracked
        /\ timers' = timers \ {"settle"} /\ rec' = rec /\ lock' = lock
    BY <1>t, <1>2, MarkActiveIs
  <2>3. att'.fg = att.fg
    BY <1>t, <2>2, InvalidatedIs
  <2> QED
    BY <2>1, <2>2, <2>3
<1>3. CASE HandleMissing(att, w) /\ UNCHANGED <<rec, lock, timers>>
  <2>1. Steps(work', work, {w, "S", "P"})
    BY <1>t, <1>3, HandleMissingIs DEF Steps
  <2> QED
    BY <1>t, <1>3, <2>1, HandleMissingIs
<1>4. CASE \E y \in {IdleSeen, x} : SettleAttempt(att, y, w, "settled") /\ UNCHANGED <<rec, lock, timers>>
  <2>1. PICK y \in {IdleSeen, x} : SettleAttempt(att, y, w, "settled") /\ UNCHANGED <<rec, lock, timers>>
    BY <1>4
  <2>2. y \in Inspection
    BY ConstantsAre
  <2>3. att' \in Attempts /\ SameBut(att', att) /\ Steps(work', work, {w, "S"})
    BY <1>t, <2>1, <2>2, SettleSteps
  <2>4. Steps(work', work, {w, "S", "P"})
    BY <2>3 DEF Steps
  <2> QED
    BY <2>1, <2>3, <2>4 DEF SameBut
<1>5. CASE /\ work' = Back(work, w, "false") /\ lock' = TRUE /\ w = "recover"
           /\ att' = [att EXCEPT !.tracked = TRUE] /\ UNCHANGED <<rec, timers>>
  <2>1. Puts(work', work, w)
    BY <1>t, <1>5, BackIs
  <2>2. Steps(work', work, {w, "S", "P"})
    BY <2>1, SameSteps DEF Puts
  <2>3. att' \in Attempts /\ att'.tracked /\ att'.fg = att.fg
    BY <1>t, <1>5 DEF Attempts
  <2> QED
    BY <1>t, <1>5, <2>2, <2>3
<1> QED
  BY <1>1, <1>2, <1>3, <1>4, <1>5 DEF Judge

LEMMA RetainedIs ==
    ASSUME TypeOK, NEW w \in Inspector, Retained(w)
    PROVE  /\ att' \in Attempts /\ att'.tracked /\ lock' = TRUE
           /\ UNCHANGED <<rec, timers>> /\ Steps(work', work, {w, "M"})
<1> w \in Worker /\ w # "M"
  BY Workers
<1>t. Works(work) /\ att \in Attempts
  BY DEF TypeOK
<1>1. lock' = TRUE /\ att' = [att EXCEPT !.tracked = TRUE] /\ UNCHANGED <<rec, timers>>
  BY DEF Retained
<1>2. att' \in Attempts /\ att'.tracked
  BY <1>1, <1>t DEF Attempts
<1>3. CASE work' = Awaits(work, w, "M", "buried")
  BY <1>t, <1>1, <1>2, <1>3, AwaitsSteps, Workers
<1>4. CASE work' = Goto(work, w, "untold")
  BY <1>t, <1>1, <1>2, <1>4, GotoIs, SameSteps DEF Puts
<1> QED
  BY <1>3, <1>4 DEF Retained

LEMMA CallIs == NoCall \in Calls
  BY DEF NoCall, Calls, Statuses

Outcomes == {"none", "refused", "completed", "failed", "uncertain"}

LEMMA OverIs ==
    ASSUME call \in Calls, NEW outcome \in Outcomes
    PROVE  LET c == Over(outcome) IN
           /\ c \in Calls /\ ~c.aborted /\ ~c.open /\ c.answer = "none" /\ c.stop = "none"
           /\ ~c.missing /\ c.heard = "none" /\ c.outcome = outcome
<1> call.sent \in BOOLEAN
  BY DEF Calls
<1> QED
  BY DEF Over, NoCall, Calls, Statuses, Outcomes

\* The call is over.
LEMMA EndsIs ==
    ASSUME TypeOK, NEW outcome \in Outcomes, NEW retain \in BOOLEAN, Ends(outcome, retain)
    PROVE  /\ call' = Over(outcome) /\ call' \in Calls /\ lock' = (lock /\ retain)
           /\ att' \in Attempts /\ att' = [att EXCEPT !.fg = "none"] /\ att'.tracked = att.tracked
           /\ Steps(work', work, {"delegate"}) /\ work'["delegate"].pc = "done"
           /\ UNCHANGED <<rec, timers>>
<1>1. /\ call' = Over(outcome) /\ lock' = (lock /\ retain) /\ att' = [att EXCEPT !.fg = "none"]
      /\ work' = Goto(work, "delegate", "done") /\ UNCHANGED <<rec, timers>>
  BY DEF Ends
<1>2. att' \in Attempts /\ att'.tracked = att.tracked
  BY <1>1 DEF TypeOK, Attempts
<1>3. Steps(work', work, {"delegate"}) /\ work'["delegate"].pc = "done"
  BY <1>1, Workers, GoesOn DEF TypeOK
<1>4. call' \in Calls
  BY <1>1, OverIs DEF TypeOK
<1> QED
  BY <1>1, <1>2, <1>3, <1>4

LEMMA StopsChildIs ==
    ASSUME TypeOK, StopsChild
    PROVE  /\ call' \in Calls /\ call' = [call EXCEPT !.stop = IF call.stop = "none" THEN "asked" ELSE call.stop]
           /\ UNCHANGED <<rec, lock, timers>>
           /\ Steps(work', work, {"delegate", "stop", "C"}) /\ work'["delegate"].pc = "stopping"
           /\ work'["delegate"].on = "none"
           /\ call.stop # "none" => Steps(work', work, {"delegate"})
           /\ call.stop = "none" => work'["stop"].pc = "fenced" /\ work'["stop"].on = "C"
<1> DEFINE U == Goto(work, "delegate", "stopping")
<1>t. Works(work) /\ call \in Calls
  BY DEF TypeOK
<1>1. /\ call' = [call EXCEPT !.stop = IF call.stop = "none" THEN "asked" ELSE call.stop]
      /\ work' = (IF call.stop = "none" THEN Awaits(U, "stop", "C", "fenced") ELSE U)
      /\ UNCHANGED <<rec, lock, timers>>
  BY DEF StopsChild
<1>2. call' \in Calls
  BY <1>t, <1>1 DEF Calls
<1>3. /\ Works(U) /\ Steps(U, work, {"delegate"})
      /\ U["delegate"].pc = "stopping" /\ U["delegate"].on = "none"
  BY <1>t, Workers, GotoIs, PutsSteps DEF Puts
<1> HIDE DEF U
<1>4. CASE call.stop = "none"
  <2>1. work' = Awaits(U, "stop", "C", "fenced")
    BY <1>1, <1>4
  <2>2. /\ Works(work') /\ \A v \in Worker \ {"stop", "C"} : work'[v] = U[v]
        /\ work'["stop"].pc = "fenced" /\ work'["stop"].on = "C"
    BY <1>3, <2>1, Workers, AwaitsIs
  <2>3. Steps(work', U, {"stop", "C"})
    BY <2>2, SameSteps
  <2>4. Steps(work', work, {"stop", "C"} \cup {"delegate"})
    BY <1>3, <2>3, StepsTogether
  <2>5. {"stop", "C"} \cup {"delegate"} = {"delegate", "stop", "C"}
    OBVIOUS
  <2>6. work'["delegate"] = U["delegate"]
    BY <2>2, Workers
  <2> QED
    BY <1>1, <1>2, <1>3, <1>4, <2>2, <2>4, <2>5, <2>6
<1>5. CASE call.stop # "none"
  <2>1. work' = U
    BY <1>1, <1>5
  <2>2. Steps(work', work, {"delegate", "stop", "C"})
    BY <1>3, <2>1 DEF Steps
  <2> QED
    BY <1>1, <1>2, <1>3, <1>5, <2>1, <2>2
<1> QED
  BY <1>4, <1>5

\* What Conclude knows of the attempt.
Known == IF att.tracked THEN [att EXCEPT !.fg = "reconciling"]
         ELSE Attempt([NoRecord EXCEPT !.at = "child", !.status = "running"])
Learned(c) == [Known EXCEPT !.cancel = Known.cancel \/ c.aborted \/ c.missing, !.missing = Known.missing \/ c.missing,
                            !.ids = IF c.missing THEN Known.ids \ {"child"} ELSE Known.ids]

LEMMA ChildIs ==
    LET child == [NoRecord EXCEPT !.at = "child", !.status = "running"] IN
    /\ child \in Record /\ child.at = "child" /\ child.status = "running"
    /\ ~child.cancel /\ ~child.confirmed /\ ~child.invalid
  BY DEF NoRecord, Record, Statuses

LEMMA LearnedIs ==
    ASSUME TypeOK, NEW c \in Calls
    PROVE  /\ Learned(c) \in Attempts /\ Learned(c).tracked = att.tracked
           /\ Learned(c).fg = IF att.tracked THEN "reconciling" ELSE "none"
<1>1. Known \in Attempts /\ Known.tracked = att.tracked /\ Known.fg = IF att.tracked THEN "reconciling" ELSE "none"
  <2>1. CASE att.tracked
    BY <2>1 DEF Known, TypeOK, Attempts
  <2>2. CASE ~att.tracked
    <3> DEFINE child == [NoRecord EXCEPT !.at = "child", !.status = "running"]
    <3>1. child \in Record
      BY ChildIs
    <3>2. Known = Attempt(child)
      BY <2>2 DEF Known
    <3> HIDE DEF child
    <3>3. Known \in Attempts
      BY <3>1, <3>2, AttemptType
    <3>4. ~Known.tracked /\ Known.fg = "none"
      BY <3>2 DEF Attempt
    <3>5. att.tracked = Known.tracked
      BY <2>2, <3>3, <3>4 DEF Attempts, TypeOK
    <3> QED
      BY <2>2, <3>3, <3>4, <3>5
  <2> QED
    BY <2>1, <2>2
<1> HIDE DEF Known
<1>2. c.aborted \in BOOLEAN /\ c.missing \in BOOLEAN
  BY DEF Calls
<1> QED
  BY <1>1, <1>2 DEF Learned, Attempts

\* What the call makes of what it learned.
LEMMA ConcludeIs ==
    ASSUME TypeOK, NEW c \in Calls, Conclude(c)
    PROVE  /\ call' = c /\ call' \in Calls /\ att' \in Attempts /\ att'.tracked = att.tracked
           /\ UNCHANGED <<rec, lock, timers>>
           /\ SameBut(att', Learned(c))
           /\ Steps(work', work, {"delegate", "S"})
           /\ c.retain => /\ att' = Learned(c) /\ work'["delegate"].pc = "retained"
                          /\ Steps(work', work, {"delegate"}) /\ work'["delegate"].on = "none"
           /\ ~c.retain => work'["delegate"].pc = "closing"
<1>t. Works(work)
  BY DEF TypeOK
<1>1. call' = c /\ UNCHANGED <<rec, lock, timers>>
  BY DEF Conclude
<1>2. CASE c.retain
  <2>1. att' = Learned(c) /\ work' = Goto(work, "delegate", "retained")
    BY <1>2 DEF Conclude, Learned, Known
  <2>2. /\ Steps(work', work, {"delegate"}) /\ work'["delegate"].pc = "retained" /\ work'["delegate"].on = "none"
    BY <1>t, <2>1, Workers, GoesOn
  <2>3. Steps(work', work, {"delegate", "S"})
    BY <2>2 DEF Steps
  <2> QED
    BY <1>1, <1>2, <2>1, <2>2, <2>3, LearnedIs DEF SameBut
<1>3. CASE ~c.retain
  <2> DEFINE x == IF ~c.aborted /\ c.answer = "result" THEN [IdleSeen EXCEPT !.out = "result"]
                  ELSE [IdleSeen EXCEPT !.status = c.status]
  <2>1. SettleAttempt(Learned(c), x, "delegate", "closing")
    BY <1>3 DEF Conclude, Learned, Known
  <2>2. x \in Inspection
    BY DEF IdleSeen, NoInspection, Inspection, Calls, Statuses
  <2> HIDE DEF x
  <2>3. /\ att' \in Attempts /\ SameBut(att', Learned(c)) /\ Steps(work', work, {"delegate", "S"})
        /\ work'["delegate"].pc = "closing"
    BY <1>t, <2>1, <2>2, LearnedIs, Workers, SettleSteps
  <2> QED
    BY <1>1, <1>3, <2>3, LearnedIs DEF SameBut
<1> QED
  BY <1>2, <1>3

\* What an error of the call may change.
LEMMA CaughtIs ==
    ASSUME TypeOK, NEW err, Caught(err)
    PROVE  /\ call' \in Calls /\ att' \in Attempts /\ att'.tracked = att.tracked
           /\ UNCHANGED <<rec, timers>> /\ lock' \in BOOLEAN /\ (lock' => lock)
           /\ Steps(work', work, {"delegate", "stop", "C", "S"})
<1> DEFINE a == [att EXCEPT !.fg = "reconciling"]
           cancelled == [a EXCEPT !.cancel = TRUE]
           us == {"delegate", "stop", "C", "S"}
<1>t. Works(work) /\ lock \in BOOLEAN /\ call \in Calls
  BY DEF TypeOK
<1>a. a \in Attempts /\ a.tracked = att.tracked /\ cancelled \in Attempts /\ cancelled.tracked = att.tracked
  BY DEF TypeOK, Attempts
<1> HIDE DEF a, cancelled
<1>1. CASE att' = cancelled /\ (\E pc : work' = Awaits(work, "delegate", "C", pc))
           /\ UNCHANGED <<rec, lock, timers, call>>
  <2>1. PICK pc : work' = Awaits(work, "delegate", "C", pc)
    BY <1>1
  <2>2. Steps(work', work, {"delegate", "C"})
    BY <1>t, <2>1, Workers, AwaitsSteps
  <2>3. Steps(work', work, us)
    BY <2>2 DEF Steps
  <2> QED
    BY <1>t, <1>a, <1>1, <2>3
<1>2. CASE \E outcome \in Outcomes, retain \in BOOLEAN : Ends(outcome, retain)
  <2>1. PICK outcome \in Outcomes, retain \in BOOLEAN : Ends(outcome, retain)
    BY <1>2
  <2>2. Steps(work', work, us)
    BY <2>1, EndsIs DEF Steps
  <2> QED
    BY <1>t, <2>1, <2>2, EndsIs
<1>3. CASE att' = a /\ StopsChild
  <2>1. Steps(work', work, {"delegate", "stop", "C"}) /\ call' \in Calls /\ UNCHANGED <<rec, lock, timers>>
    BY <1>3, StopsChildIs
  <2>2. Steps(work', work, us)
    BY <2>1 DEF Steps
  <2> QED
    BY <1>t, <1>a, <1>3, <2>1, <2>2
<1>4. CASE att' = a /\ work' = Inspects(work, "delegate", "inspect") /\ UNCHANGED <<rec, lock, timers, call>>
  <2>1. Puts(work', work, "delegate")
    BY <1>t, <1>4, Workers, InspectsIs
  <2>2. Steps(work', work, us)
    BY <2>1 DEF Puts, Steps, Stays
  <2> QED
    BY <1>t, <1>a, <1>4, <2>2
<1>5. CASE Conclude([call EXCEPT !.status = "reported-completed"])
  <2> DEFINE c == [call EXCEPT !.status = "reported-completed"]
  <2>1. c \in Calls
    BY <1>t DEF Calls, Statuses
  <2> HIDE DEF c
  <2>2. /\ call' \in Calls /\ att' \in Attempts /\ att'.tracked = att.tracked
        /\ UNCHANGED <<rec, lock, timers>> /\ Steps(work', work, {"delegate", "S"})
    BY <1>5, <2>1, ConcludeIs DEF c
  <2>3. Steps(work', work, us)
    BY <2>2 DEF Steps
  <2> QED
    BY <1>t, <2>2, <2>3
<1> QED
  BY <1>1, <1>2, <1>3, <1>4, <1>5 DEF Caught, Outcomes, a, cancelled

\* What a signal may change.
LEMMA CancelledIs ==
    ASSUME NEW c \in Calls, NEW a \in Attempts, NEW W, Works(W)
    PROVE  LET r == Cancelled(c, a, W) IN
           /\ r.c \in Calls /\ r.a \in Attempts /\ r.a.tracked = a.tracked
           /\ Steps(r.W, W, {"stop", "C"})
<1> DEFINE r == Cancelled(c, a, W)
           us == {"stop", "C"}
<1>1. Steps(W, W, us)
  BY DEF Steps, Stays
<1>2. CASE ~c.open \/ c.aborted \/ W["delegate"].pc \in {"idle", "prepare", "done"}
  <2>1. r = [c |-> c, a |-> a, W |-> W]
    BY <1>2 DEF Cancelled
  <2> HIDE DEF r, us
  <2>2. r.c = c /\ r.a = a /\ r.W = W
    BY <2>1
  <2> QED
    BY <1>1, <2>2 DEF r, us
<1>3. CASE ~(~c.open \/ c.aborted \/ W["delegate"].pc \in {"idle", "prepare", "done"})
           /\ W["delegate"].pc \in {"lock", "admit", "create"}
  <2> DEFINE d == [c EXCEPT !.aborted = TRUE]
  <2>1. r = [c |-> d, a |-> a, W |-> W]
    BY <1>3 DEF Cancelled
  <2>2. d \in Calls
    BY DEF Calls
  <2> HIDE DEF r, us, d
  <2>3. r.c = d /\ r.a = a /\ r.W = W
    BY <2>1
  <2> QED
    BY <1>1, <2>2, <2>3 DEF r, us
<1>4. CASE ~(~c.open \/ c.aborted \/ W["delegate"].pc \in {"idle", "prepare", "done"})
           /\ W["delegate"].pc \notin {"lock", "admit", "create"}
  <2> DEFINE d == [c EXCEPT !.aborted = TRUE, !.stop = IF @ = "none" THEN "asked" ELSE @]
             b == [a EXCEPT !.cancel = TRUE]
             V == IF c.stop = "none" THEN Awaits(W, "stop", "C", "fenced") ELSE W
  <2>1. r = [c |-> d, a |-> b, W |-> V]
    BY <1>4 DEF Cancelled
  <2>2. d \in Calls /\ b \in Attempts /\ b.tracked = a.tracked
    BY DEF Calls, Attempts
  <2>3. Steps(V, W, us)
    <3>2. "stop" \in Worker /\ "C" \in Promises /\ "stop" # "C"
      BY Workers
    <3>1. Steps(Awaits(W, "stop", "C", "fenced"), W, {"stop", "C"})
      BY <3>2, AwaitsSteps
    <3> QED
      BY <1>1, <3>1
  <2> HIDE DEF r, us, d, b, V
  <2>4. r.c = d /\ r.a = b /\ r.W = V
    BY <2>1
  <2> QED
    BY <2>2, <2>3, <2>4 DEF r, us
<1> QED
  BY <1>2, <1>3, <1>4

\* What flush may change before it awaits again.
LEMMA FlushLoopIs ==
    ASSUME TypeOK, FlushLoop
    PROVE  /\ Steps(work', work, {"flush"} \cup Promises)
           /\ ~att.tracked => phase' = "flushed" /\ work'["flush"].pc = "idle"
           /\ att.tracked => /\ phase' = phase
                             /\ work'["flush"].pc \in {"waited", "reconcile", "again"}
           /\ UNCHANGED <<rec, att, lock, timers, call, host, gone, events>>
<1> DEFINE us == {"flush"} \cup Promises
<1>t. Works(work) /\ "flush" \in Worker /\ "flush" \notin Promises
  BY Workers DEF TypeOK, Promises
<1>1. UNCHANGED <<rec, att, lock, timers, call, host, gone, events>>
  BY DEF FlushLoop, HostRests, Fine
<1>2. CASE ~att.tracked
  <2>1. phase' = "flushed" /\ work' = Goto(work, "flush", "idle")
    BY <1>2 DEF FlushLoop
  <2>2. Steps(work', work, {"flush"}) /\ work'["flush"].pc = "idle"
    BY <1>t, <2>1, GoesOn
  <2> QED
    BY <1>1, <1>2, <2>1, <2>2 DEF Steps
<1>3. CASE att.tracked
  <2>1. \/ \E s \in Promises : work' = Awaits(work, "flush", s, "waited")
        \/ work' = Inspects(work, "flush", "reconcile")
        \/ work' = Goto(work, "flush", "again")
    BY <1>3 DEF FlushLoop, Promises
  <2>2. ASSUME NEW s \in Promises, work' = Awaits(work, "flush", s, "waited")
        PROVE  Steps(work', work, us) /\ work'["flush"].pc = "waited"
    <3>2. "flush" # s
      BY <1>t
    <3> DEFINE V == Awaits(work, "flush", s, "waited")
    <3>3. Works(V) /\ (\A v \in Worker \ {"flush", s} : V[v] = work[v]) /\ V["flush"].pc = "waited"
      BY <1>t, <3>2, AwaitsIs
    <3>4. work' = V
      BY <2>2
    <3> HIDE DEF V
    <3>1. Steps(work', work, {"flush", s}) /\ work'["flush"].pc = "waited"
      BY <3>3, <3>4, SameSteps
    <3> QED
      BY <3>1 DEF Steps
  <2>3. ASSUME work' = Inspects(work, "flush", "reconcile")
        PROVE  Steps(work', work, us) /\ work'["flush"].pc = "reconcile"
    BY <1>t, <2>3, InspectsIs DEF Puts, Steps, Stays
  <2>4. ASSUME work' = Goto(work, "flush", "again")
        PROVE  Steps(work', work, us) /\ work'["flush"].pc = "again"
    BY <1>t, <2>4, GotoIs DEF Puts, Steps, Stays
  <2>5. phase' = phase
    BY <1>3 DEF FlushLoop
  <2> QED
    BY <1>1, <1>3, <2>1, <2>2, <2>3, <2>4, <2>5
<1> QED
  BY <1>2, <1>3

-----------------------------------------------------------------------------
(* Actions: the types, and who goes on *)

Own(w) == {w, "stop"} \cup Promises

\* The table of locks is left, or the attempt is remembered too, or a recovery
\* forgets it until it knows its authority.
LockKept ==
    lock' => att'.tracked \/ (lock /\ att'.tracked = att.tracked) \/ work'["recover"].pc = "authority"

HostKept == /\ host' \in {"sent", "busy"} => host \in {"sent", "busy"} \/ phase # "down"
            /\ host' \in {"none", "sent", "busy", "result", "error", "quiet"} /\ gone' \in BOOLEAN /\ (gone => gone')
            /\ events' \in Seq({"busy", "idle", "deleted"})

\* A step of w that stays within its phase.
Sound(w) ==
    /\ lock' \in BOOLEAN /\ rec' \in Record /\ (rec'.at = "none" => rec' = NoRecord)
    /\ att' \in Attempts /\ call' \in Calls /\ timers' \subseteq {"settle", "cancel", "tomb"}
    /\ HostKept /\ phase' = phase
    /\ Steps(work', work, Own(w)) /\ LockKept

\* A sound step keeps the types.
LEMMA SoundTypes ==
    ASSUME TypeOK, NEW w, Sound(w)
    PROVE  TypeOK'
  BY DEF Sound, TypeOK, HostKept, Steps, Works, IsStep

LEMMA StepsMore ==
    ASSUME NEW ws, NEW w, Steps(work', work, ws), ws \subseteq Own(w)
    PROVE  Steps(work', work, Own(w))
  BY DEF Steps

LEMMA HostRestsIs ==
    ASSUME TypeOK, HostRests, Fine \/ Blame
    PROVE  HostKept
  BY DEF TypeOK, HostRests, Fine, Blame, HostKept

LEMMA KeepIs ==
    ASSUME TypeOK, Keep, Fine \/ Blame
    PROVE  HostKept /\ phase' = phase /\ call' \in Calls
  BY HostRestsIs DEF Keep, TypeOK

LEMMA MemorySame ==
    ASSUME TypeOK, UNCHANGED <<rec, att, lock, timers>>
    PROVE  /\ lock' \in BOOLEAN /\ rec' \in Record /\ (rec'.at = "none" => rec' = NoRecord)
           /\ att' \in Attempts /\ timers' \subseteq {"settle", "cancel", "tomb"} /\ LockKept
  BY DEF TypeOK, LockKept

LEMMA AwaitsOwn ==
    ASSUME Works(work), NEW w \in Worker, NEW s \in Promises, w # s, NEW pc, work' = Awaits(work, w, s, pc)
    PROVE  Steps(work', work, Own(w)) /\ work'[w].pc = pc
<1> DEFINE V == Awaits(work, w, s, pc)
<1>1. Works(V) /\ (\A v \in Worker \ {w, s} : V[v] = work[v]) /\ V[w].pc = pc
  BY AwaitsIs
<1>2. work' = V
  OBVIOUS
<1> HIDE DEF V
<1> QED
  BY <1>1, <1>2 DEF Own, Steps, Stays

LEMMA PutsOwn ==
    ASSUME NEW w \in Worker, Puts(work', work, w)
    PROVE  Steps(work', work, Own(w))
  BY DEF Own, Steps, Stays, Puts

LEMMA GotoOwn ==
    ASSUME Works(work), NEW w \in Worker, NEW pc, NEW res,
           work' \in {Goto(work, w, pc), Finish(work, w, pc, res), Inspects(work, w, pc)}
    PROVE  Steps(work', work, Own(w)) /\ work'[w].pc = pc
  BY GotoIs, FinishIs, InspectsIs, PutsOwn

LEMMA ReturnOwn ==
    ASSUME Works(work), NEW s \in Promises, NEW res, work' = Return(work, s, res), NEW w
    PROVE  Steps(work', work, Own(w))
<1>1. Steps(work', work, {s})
  BY ReturnSteps
<1> QED
  BY <1>1, StepsMore DEF Own

LEMMA GivesOwn ==
    ASSUME TypeOK, NEW s \in Promises, NEW res, Gives(s, res), Keep, Fine \/ Blame
    PROVE  Sound(s)
  BY ReturnOwn, MemorySame, KeepIs DEF Gives, Sound, TypeOK

LEMMA SettleOwn ==
    ASSUME TypeOK, NEW a \in Attempts, NEW x \in Inspection, NEW w \in Worker, w # "S", NEW pc,
           SettleAttempt(a, x, w, pc)
    PROVE  /\ att' \in Attempts /\ att'.tracked = a.tracked /\ SameBut(att', a)
           /\ Steps(work', work, Own(w)) /\ work'[w].pc = pc
<1>1. Works(work)
  BY DEF TypeOK
<1>2. /\ att' \in Attempts /\ SameBut(att', a) /\ Steps(work', work, {w, "S"}) /\ work'[w].pc = pc
  BY <1>1, SettleSteps
<1>3. {w, "S"} \subseteq Own(w)
  BY Workers DEF Own
<1> QED
  BY <1>2, <1>3, StepsMore DEF SameBut

LEMMA SettlementFailsOwn ==
    ASSUME TypeOK, SettlementFails, Keep, Fine \/ Blame
    PROVE  Sound("S")
<1>1. Works(work) /\ timers \subseteq {"settle", "cancel", "tomb"}
  BY DEF TypeOK
<1>2. Steps(work', work, {"S"}) /\ timers' \subseteq {"settle", "cancel", "tomb"} /\ UNCHANGED <<rec, att, lock>>
  BY <1>1, SettlementFailsIs
<1>3. Steps(work', work, Own("S"))
  BY <1>2, StepsMore DEF Own
<1> QED
  BY <1>2, <1>3, KeepIs DEF Sound, LockKept, TypeOK

\* Every action of a worker is sound.
LEMMA SettleBeginIs ==
    ASSUME TypeOK, SettleBegin
    PROVE  Sound("S")
<1>t. Works(work)
  BY DEF TypeOK
<1>k. Keep /\ Fine
  BY DEF SettleBegin
<1>1. CASE Gives("S", "false")
  BY <1>1, <1>k, GivesOwn, Workers
<1>2. CASE ~Gives("S", "false")
  <2>1. /\ UNCHANGED <<rec, att, lock, timers>>
        /\ \/ \E s \in {"M", "P"}, pc \in {"begin", "shown", "buried"} : work' = Awaits(work, "S", s, pc)
           \/ work' = Goto(work, "S", "collect")
    BY <1>2 DEF SettleBegin
  <2>2. Steps(work', work, Own("S"))
    BY <1>t, <2>1, AwaitsOwn, GotoOwn, Workers
  <2> QED
    BY <1>k, <2>1, <2>2, MemorySame, KeepIs DEF Sound
<1> QED
  BY <1>1, <1>2

LEMMA SettleShownIs ==
    ASSUME TypeOK, SettleShown
    PROVE  Sound("S")
<1>t. Works(work)
  BY DEF TypeOK
<1>k. Keep /\ Fine
  BY DEF SettleShown
<1>1. CASE SettlementFails
  BY <1>1, <1>k, SettlementFailsOwn
<1>2. CASE ~SettlementFails
  <2>1. /\ UNCHANGED <<rec, att, lock, timers>>
        /\ work' = Awaits(work, "S", "M", "buried") \/ work' = Goto(work, "S", "collect")
    BY <1>2 DEF SettleShown
  <2>2. Steps(work', work, Own("S"))
    BY <1>t, <2>1, AwaitsOwn, GotoOwn, Workers
  <2> QED
    BY <1>k, <2>1, <2>2, MemorySame, KeepIs DEF Sound
<1> QED
  BY <1>1, <1>2

LEMMA SettleCollectIs ==
    ASSUME TypeOK, SettleCollect
    PROVE  Sound("S")
<1>t. Works(work) /\ att \in Attempts /\ lock \in BOOLEAN
  BY DEF TypeOK
<1>k. Keep /\ (Fine \/ Blame)
  BY DEF SettleCollect
<1>1. CASE Gives("S", "false")
  BY <1>1, <1>k, GivesOwn, Workers
<1>2. CASE SettlementFails
  BY <1>2, <1>k, SettlementFailsOwn
<1>3. CASE ~Gives("S", "false") /\ ~SettlementFails
  <2> DEFINE b == Collected(att)
             d == Candidate(b)
  <2>1. /\ att.tracked /\ att' = [b EXCEPT !.draft = d] /\ UNCHANGED <<rec, lock, timers>>
        /\ work' \in {Goto(work, "S", "confirm"), Return(work, "S", "false"), Inspects(work, "S", "write")}
    BY <1>3 DEF SettleCollect
  <2>2. b \in Attempts /\ b.tracked
    BY CollectedIs DEF TypeOK
  <2>3. d \in Record
    BY <2>2, CandidateIs
  <2> HIDE DEF b, d
  <2>4. att' \in Attempts /\ att'.tracked
    BY <2>1, <2>2, <2>3 DEF Attempts
  <2>5. Steps(work', work, Own("S"))
    BY <1>t, <2>1, GotoOwn, ReturnOwn, Workers
  <2> QED
    BY <1>k, <2>1, <2>4, <2>5, KeepIs DEF Sound, LockKept, TypeOK
<1> QED
  BY <1>1, <1>2, <1>3

LEMMA SettleConfirmIs ==
    ASSUME TypeOK, SettleConfirm
    PROVE  Sound("S")
<1>t. Works(work) /\ att \in Attempts /\ rec \in Record
  BY DEF TypeOK
<1>k. Keep /\ (Fine \/ Blame)
  BY DEF SettleConfirm
<1>1. CASE SettlementFails
  BY <1>1, <1>k, SettlementFailsOwn
<1>2. CASE ~SettlementFails
  <2> DEFINE d == Candidate(att)
             ids == IF Written(att) THEN att.ids ELSE {}
             new == [rec EXCEPT !.cancel = rec.cancel \/ att.cancel, !.confirmed = TRUE]
  <2>1. /\ att' = [att EXCEPT !.draft = d, !.ids = ids] /\ UNCHANGED <<lock, timers>>
        /\ rec' = IF Written(att) THEN new ELSE rec
        /\ work' \in {Return(work, "S", "false"), Inspects(work, "S", "write")}
    BY <1>2 DEF SettleConfirm
  <2>2. d \in Record
    BY <1>t, CandidateIs
  <2>3. ids \in SUBSET {"child", "tomb"}
    BY <1>t DEF Attempts
  <2>4. new \in Record /\ new.at = rec.at
    BY <1>t DEF Record, Attempts
  <2>5. Written(att) => rec.at # "none"
    BY <1>t DEF Written, Attempts
  <2> HIDE DEF d, ids, new
  <2>6. att' \in Attempts /\ att'.tracked = att.tracked
    BY <1>t, <2>1, <2>2, <2>3 DEF Attempts
  <2>7. rec' \in Record /\ (rec'.at = "none" => rec' = NoRecord)
    BY <1>t, <2>1, <2>4, <2>5 DEF TypeOK
  <2>8. Steps(work', work, Own("S"))
    BY <1>t, <2>1, GotoOwn, ReturnOwn, Workers
  <2> QED
    BY <1>k, <2>1, <2>6, <2>7, <2>8, KeepIs DEF Sound, LockKept, TypeOK
<1> QED
  BY <1>1, <1>2

\* A record that is written stays where it is.
LEMMA WrittenIs ==
    ASSUME TypeOK, NEW new \in Record, new.at = rec.at,
           rec' = IF Written(att) THEN new ELSE rec
    PROVE  rec' \in Record /\ (rec'.at = "none" => rec' = NoRecord)
<1>1. Written(att) => rec.at # "none"
  BY DEF Written, TypeOK, Attempts
<1> QED
  BY <1>1 DEF TypeOK

LEMMA SettleWriteIs ==
    ASSUME TypeOK, SettleWrite
    PROVE  Sound("S")
<1>t. Works(work) /\ att \in Attempts /\ rec \in Record
  BY DEF TypeOK
<1>k. Keep /\ (Fine \/ Blame)
  BY DEF SettleWrite
<1>1. CASE SettlementFails
  BY <1>1, <1>k, SettlementFailsOwn
<1>2. CASE ~SettlementFails
  <2> DEFINE m == MergeTerminal(rec, att.draft)
             new == IF Written(att) THEN m ELSE rec
             told == PersistedTerminal({new} \ {NoRecord})
             more == [att EXCEPT !.cancel = att.cancel \/ new.cancel, !.term = told]
             bare == [att EXCEPT !.ids = {}]
  <2>1. /\ rec' = new
        /\ \/ work' = Return(work, "S", "false") /\ UNCHANGED <<att, lock, timers>>
           \/ att' \in {more, bare} /\ work' = Goto(work, "S", "begin") /\ UNCHANGED <<lock, timers>>
           \/ ReleaseAttempt
    BY <1>2 DEF SettleWrite
  <2>2. m \in Record /\ m.at = rec.at
    BY <1>t, MergeType DEF Attempts
  <2>3. new \in Record
    BY <1>t, <2>2
  <2>4. told \in Record
    <3>1. {new} \ {NoRecord} \in SUBSET Record
      BY <2>3
    <3> QED
      BY <3>1, PersistedTerminalType
  <2>5. rec' \in Record /\ (rec'.at = "none" => rec' = NoRecord)
    BY <2>1, <2>2, WrittenIs
  <2>6. new.cancel \in BOOLEAN
    BY <2>3 DEF Record
  <2> HIDE DEF new, told, m
  <2>7. /\ more \in Attempts /\ more.tracked = att.tracked
        /\ bare \in Attempts /\ bare.tracked = att.tracked
    BY <1>t, <2>4, <2>6 DEF Attempts
  <2> HIDE DEF more, bare
  <2>8. CASE work' = Return(work, "S", "false") /\ UNCHANGED <<att, lock, timers>>
    <3>1. Steps(work', work, Own("S"))
      BY <1>t, <2>8, ReturnOwn, Workers
    <3> QED
      BY <1>k, <2>5, <2>8, <3>1, KeepIs DEF Sound, LockKept, TypeOK
  <2>9. CASE att' \in {more, bare} /\ work' = Goto(work, "S", "begin") /\ UNCHANGED <<lock, timers>>
    <3>1. Steps(work', work, Own("S"))
      BY <1>t, <2>9, GotoOwn, Workers
    <3> QED
      BY <1>k, <2>5, <2>7, <2>9, <3>1, KeepIs DEF Sound, LockKept, TypeOK
  <2>10. CASE ReleaseAttempt
    <3>1. /\ att' \in Attempts /\ ~att'.tracked /\ ~lock' /\ timers' = {} /\ Steps(work', work, {"S"})
      BY <1>t, <2>10, ReleaseIs
    <3>2. lock' \in BOOLEAN
      BY <2>10 DEF ReleaseAttempt
    <3>3. Steps(work', work, Own("S"))
      BY <3>1, StepsMore DEF Own
    <3> QED
      BY <1>k, <2>5, <3>1, <3>2, <3>3, KeepIs DEF Sound, LockKept
  <2> QED
    BY <2>1, <2>8, <2>9, <2>10
<1> QED
  BY <1>1, <1>2

LEMMA EvidenceCollectIs ==
    ASSUME TypeOK, EvidenceCollect
    PROVE  Sound("P")
<1>t. Works(work) /\ att \in Attempts /\ lock \in BOOLEAN
  BY DEF TypeOK
<1>k. Keep /\ (Fine \/ Blame)
  BY DEF EvidenceCollect
<1>1. CASE \E res \in {"true", "error"} : Gives("P", res)
  BY <1>1, <1>k, GivesOwn, Workers
<1>2. CASE att.tracked /\ att' = Collected(att) /\ work' = Goto(work, "P", "write") /\ UNCHANGED <<rec, lock, timers>>
  <2>1. att' \in Attempts /\ att'.tracked
    BY <1>2, CollectedIs DEF TypeOK
  <2>2. Steps(work', work, Own("P"))
    BY <1>t, <1>2, GotoOwn, Workers
  <2> QED
    BY <1>k, <1>2, <2>1, <2>2, KeepIs DEF Sound, LockKept, TypeOK
<1> QED
  BY <1>1, <1>2 DEF EvidenceCollect

LEMMA EvidenceWriteIs ==
    ASSUME TypeOK, EvidenceWrite
    PROVE  Sound("P")
<1>t. Works(work) /\ att \in Attempts /\ rec \in Record
  BY DEF TypeOK
<1>k. Keep /\ (Fine \/ Blame)
  BY DEF EvidenceWrite
<1>1. CASE \E res \in {"true", "error"} : Gives("P", res)
  BY <1>1, <1>k, GivesOwn, Workers
<1>2. CASE ~(\E res \in {"true", "error"} : Gives("P", res))
  <2> DEFINE invalid == att.invalid \/ att.term.status = "reported-completed"
             ids == IF Written(att) THEN att.ids ELSE {}
             new == [rec EXCEPT !.status = "unknown", !.late = FALSE, !.confirmed = FALSE,
                                !.cancel = rec.cancel /\ ~att.confirmed, !.invalid = rec.invalid \/ invalid]
  <2>1. /\ att.tracked
        /\ rec' = (IF Written(att) THEN new ELSE rec)
        /\ att' = [att EXCEPT !.term = NoRecord, !.invalid = invalid, !.cancel = att.cancel /\ ~att.confirmed,
                              !.confirmed = FALSE, !.missing = FALSE, !.evidence = FALSE, !.ids = ids]
        /\ work' = Return(work, "P", "true") /\ UNCHANGED <<lock, timers>>
    BY <1>2 DEF EvidenceWrite
  <2>2. invalid \in BOOLEAN /\ ids \in SUBSET {"child", "tomb"} /\ att.cancel \in BOOLEAN /\ att.confirmed \in BOOLEAN
    BY <1>t DEF Attempts
  <2> HIDE DEF ids, invalid
  <2>3. new \in Record /\ new.at = rec.at
    BY <1>t, <2>2 DEF Record, Statuses
  <2> HIDE DEF new
  <2>4. rec' \in Record /\ (rec'.at = "none" => rec' = NoRecord)
    BY <2>1, <2>3, WrittenIs
  <2>5. att' \in Attempts /\ att'.tracked = att.tracked
    BY <1>t, <2>1, <2>2, ConstantsAre DEF Attempts
  <2>6. Steps(work', work, Own("P"))
    BY <1>t, <2>1, ReturnOwn, Workers
  <2> QED
    BY <1>k, <2>1, <2>4, <2>5, <2>6, KeepIs DEF Sound, LockKept, TypeOK
<1> QED
  BY <1>1, <1>2

LEMMA FenceCollectIs ==
    ASSUME TypeOK, FenceCollect
    PROVE  Sound("C")
<1>t. Works(work) /\ att \in Attempts /\ lock \in BOOLEAN
  BY DEF TypeOK
<1>k. Keep /\ (Fine \/ Blame)
  BY DEF FenceCollect
<1>1. CASE \E res \in {"false", "error"} : Gives("C", res)
  BY <1>1, <1>k, GivesOwn, Workers
<1>2. CASE att.tracked /\ att' = Collected(att) /\ work' = Goto(work, "C", "write") /\ UNCHANGED <<rec, lock, timers>>
  <2>1. att' \in Attempts /\ att'.tracked
    BY <1>2, CollectedIs DEF TypeOK
  <2>2. Steps(work', work, Own("C"))
    BY <1>t, <1>2, GotoOwn, Workers
  <2> QED
    BY <1>k, <1>2, <2>1, <2>2, KeepIs DEF Sound, LockKept, TypeOK
<1> QED
  BY <1>1, <1>2 DEF FenceCollect

LEMMA FenceWriteIs ==
    ASSUME TypeOK, FenceWrite
    PROVE  Sound("C")
<1>t. Works(work) /\ att \in Attempts /\ rec \in Record
  BY DEF TypeOK
<1>k. Keep /\ (Fine \/ Blame)
  BY DEF FenceWrite
<1>1. CASE \E res \in {"false", "error"} : Gives("C", res)
  BY <1>1, <1>k, GivesOwn, Workers
<1>2. CASE ~(\E res \in {"false", "error"} : Gives("C", res))
  <2> DEFINE new == [rec EXCEPT !.cancel = rec.cancel \/ att.cancel]
  <2>1. /\ rec' = (IF Written(att) THEN new ELSE rec)
        /\ att' = (IF Written(att) THEN att ELSE [att EXCEPT !.ids = {}])
        /\ work' \in {Return(work, "C", "true"), Awaits(work, "C", "M", "buried")} /\ UNCHANGED <<lock, timers>>
    BY <1>2 DEF FenceWrite
  <2>2. new \in Record /\ new.at = rec.at
    BY <1>t DEF Record, Attempts
  <2> HIDE DEF new
  <2>3. rec' \in Record /\ (rec'.at = "none" => rec' = NoRecord)
    BY <2>1, <2>2, WrittenIs
  <2>4. att' \in Attempts /\ att'.tracked = att.tracked
    BY <1>t, <2>1 DEF Attempts
  <2>5. Steps(work', work, Own("C"))
    BY <1>t, <2>1, ReturnOwn, AwaitsOwn, Workers
  <2> QED
    BY <1>k, <2>1, <2>3, <2>4, <2>5, KeepIs DEF Sound, LockKept, TypeOK
<1> QED
  BY <1>1, <1>2

LEMMA FenceBuriedIs ==
    ASSUME TypeOK, FenceBuried
    PROVE  Sound("C")
  BY GivesOwn, Workers DEF FenceBuried

LEMMA TombstoneLookIs ==
    ASSUME TypeOK, TombstoneLook
    PROVE  Sound("M")
<1>t. Works(work) /\ att \in Attempts /\ rec \in Record
  BY DEF TypeOK
<1>k. Keep /\ (Fine \/ Blame)
  BY DEF TombstoneLook
<1>1. CASE \E res \in {"false", "error"} : Gives("M", res)
  BY <1>1, <1>k, GivesOwn, Workers
<1>2. CASE /\ rec.at # "none" /\ att' = [att EXCEPT !.ids = @ \cup {rec.at}]
           /\ work' = Return(work, "M", "true") /\ UNCHANGED <<rec, lock, timers>>
  <2>1. att' \in Attempts /\ att'.tracked = att.tracked
    BY <1>t, <1>2 DEF Attempts, Record
  <2>2. Steps(work', work, Own("M"))
    BY <1>t, <1>2, ReturnOwn, Workers
  <2> QED
    BY <1>k, <1>2, <2>1, <2>2, KeepIs DEF Sound, LockKept, TypeOK
<1>3. CASE work' = Goto(work, "M", "create") /\ UNCHANGED <<rec, att, lock, timers>>
  BY <1>t, <1>k, <1>3, GotoOwn, Workers, MemorySame, KeepIs DEF Sound
<1> QED
  BY <1>1, <1>2, <1>3 DEF TombstoneLook

LEMMA TombstoneCreateIs ==
    ASSUME TypeOK, TombstoneCreate
    PROVE  Sound("M")
<1>t. Works(work) /\ att \in Attempts /\ rec \in Record /\ timers \subseteq {"settle", "cancel", "tomb"}
  BY DEF TypeOK
<1>k. Keep /\ (Fine \/ Blame)
  BY DEF TombstoneCreate
<1> DEFINE tomb == [NoRecord EXCEPT !.at = "tomb", !.status = "unknown", !.cancel = TRUE,
                                    !.confirmed = att.confirmed, !.invalid = att.invalid]
<1>1. tomb \in Record /\ tomb.at = "tomb"
  BY <1>t DEF NoRecord, Record, Statuses, Attempts
<1> HIDE DEF tomb
<1>2. CASE rec' \in {rec, tomb} /\ work' = Return(work, "M", "error") /\ UNCHANGED <<att, lock, timers>>
  <2>1. rec' \in Record /\ (rec'.at = "none" => rec' = NoRecord)
    BY <1>1, <1>2 DEF TypeOK
  <2>2. Steps(work', work, Own("M"))
    BY <1>t, <1>2, ReturnOwn, Workers
  <2> QED
    BY <1>k, <1>2, <2>1, <2>2, KeepIs DEF Sound, LockKept, TypeOK
<1>3. CASE /\ rec' = tomb
           /\ att' = (IF att.tracked THEN [att EXCEPT !.ids = @ \cup {"tomb"}] ELSE att)
           /\ timers' = (IF att.tracked THEN timers \ {"tomb"} ELSE timers)
           /\ work' = Return(work, "M", Boolean(att.tracked)) /\ UNCHANGED lock
  <2>1. att' \in Attempts /\ att'.tracked = att.tracked
    BY <1>t, <1>3 DEF Attempts
  <2>2. rec' \in Record /\ (rec'.at = "none" => rec' = NoRecord) /\ timers' \subseteq {"settle", "cancel", "tomb"}
    BY <1>t, <1>1, <1>3
  <2>3. Steps(work', work, Own("M"))
    BY <1>t, <1>3, ReturnOwn, Workers
  <2> QED
    BY <1>k, <1>3, <2>1, <2>2, <2>3, KeepIs DEF Sound, LockKept, TypeOK
<1> QED
  BY <1>2, <1>3 DEF TombstoneCreate, tomb

LEMMA StopBeginIs ==
    ASSUME TypeOK, StopBegin
    PROVE  Sound("H")
<1>t. Works(work) /\ att \in Attempts
  BY DEF TypeOK
<1>k. Keep /\ Fine
  BY DEF StopBegin
<1>1. CASE Gives("H", "false")
  BY <1>1, <1>k, GivesOwn, Workers
<1>2. CASE /\ att' = [att EXCEPT !.cancel = TRUE] /\ work' = Awaits(work, "H", "C", "fenced")
           /\ UNCHANGED <<rec, lock, timers>>
  <2>1. att' \in Attempts /\ att'.tracked = att.tracked
    BY <1>t, <1>2 DEF Attempts
  <2>2. Steps(work', work, Own("H"))
    BY <1>t, <1>2, AwaitsOwn, Workers
  <2> QED
    BY <1>k, <1>2, <2>1, <2>2, KeepIs DEF Sound, LockKept, TypeOK
<1> QED
  BY <1>1, <1>2 DEF StopBegin

LEMMA StopFencedIs ==
    ASSUME TypeOK, StopFenced
    PROVE  Sound("H")
<1>t. Works(work)
  BY DEF TypeOK
<1>k. Keep /\ Fine
  BY DEF StopFenced
<1>1. CASE \E res \in {"false", "error"} : Gives("H", res)
  BY <1>1, <1>k, GivesOwn, Workers
<1>2. CASE work' = Goto(work, "H", "cancel") /\ UNCHANGED <<rec, att, lock, timers>>
  BY <1>t, <1>k, <1>2, GotoOwn, Workers, MemorySame, KeepIs DEF Sound
<1> QED
  BY <1>1, <1>2 DEF StopFenced

LEMMA StopSettledIs ==
    ASSUME TypeOK, StopSettled
    PROVE  Sound("H")
  BY GivesOwn, Workers DEF StopSettled

\* The host is asked to cancel the turn.
LEMMA CancelsIs ==
    ASSUME TypeOK, NEW yes \in BOOLEAN, CancelTurn(yes), UNCHANGED gone
    PROVE  HostKept
  BY CancelTurnIs DEF TypeOK, HostKept, Kinds

LEMMA StopCancelIs ==
    ASSUME TypeOK, StopCancel
    PROVE  Sound("H")
<1>t. Works(work) /\ att \in Attempts
  BY DEF TypeOK
<1>1. PICK yes \in BOOLEAN :
        /\ CancelTurn(yes)
        /\ \/ (\E res \in {"false", "error"} : work' = Return(work, "H", res)) /\ UNCHANGED att
           \/ SettleAttempt(Confirmed(att), IdleSeen, "H", "settled")
  BY DEF StopCancel
<1>2. UNCHANGED <<gone, rec, lock, call, timers, phase>>
  BY DEF StopCancel
<1>3. HostKept
  BY <1>1, <1>2, CancelsIs
<1>4. att' \in Attempts /\ att'.tracked = att.tracked /\ Steps(work', work, Own("H"))
  BY <1>t, <1>1, ReturnOwn, SettleOwn, ConfirmedIs, ConstantsAre, Workers
<1> QED
  BY <1>2, <1>3, <1>4 DEF Sound, LockKept, TypeOK

LEMMA GoesBackOwn ==
    ASSUME TypeOK, NEW w \in Inspector, NEW res, work' = Back(work, w, res)
    PROVE  Steps(work', work, Own(w)) /\ work'[w].pc = BackPc(w, res)
<1>1. Puts(work', work, w) /\ work'[w].pc = BackPc(w, res)
  BY BackIs DEF TypeOK
<1> QED
  BY <1>1, PutsOwn, Workers

LEMMA InspectIs ==
    ASSUME TypeOK, NEW w \in Inspector, Inspect(w)
    PROVE  Sound(w)
<1>1. PICK x \in Seen \cup {Unknown} :
        /\ Hears(x) /\ Judge(w, x, work[w].pc = "known")
        /\ call' = IF w = "delegate" THEN [call EXCEPT !.heard = x.out] ELSE call
  BY DEF Inspect
<1>2. x \in Inspection
  BY SeenType, ConstantsAre DEF TypeOK
<1>3. call' \in Calls
  BY <1>1, <1>2 DEF Calls, Inspection, TypeOK
<1>4. phase' = phase /\ HostKept
  BY <1>1, HostRestsIs DEF Inspect, Hears
<1>5. /\ att' \in Attempts /\ rec' = rec /\ timers' \subseteq timers
      /\ \/ att'.tracked = att.tracked /\ lock' = lock
         \/ w = "recover" /\ att'.tracked /\ lock' = TRUE
      /\ Steps(work', work, {w, "S", "P"})
  BY <1>1, <1>2, JudgeIs
<1>6. Steps(work', work, Own(w))
  BY <1>5, StepsMore DEF Own, Promises
<1>8. lock' \in BOOLEAN /\ LockKept
  <2>1. CASE att'.tracked = att.tracked /\ lock' = lock
    BY <2>1 DEF LockKept, TypeOK
  <2>2. CASE att'.tracked /\ lock' = TRUE
    BY <2>2 DEF LockKept
  <2> QED
    BY <1>5, <2>1, <2>2
<1>9. rec' \in Record /\ (rec'.at = "none" => rec' = NoRecord) /\ timers' \subseteq {"settle", "cancel", "tomb"}
  BY <1>5 DEF TypeOK
<1> QED
  BY <1>3, <1>4, <1>5, <1>6, <1>8, <1>9 DEF Sound

LEMMA MarkedIs ==
    ASSUME TypeOK, NEW w \in Inspector, Marked(w)
    PROVE  Sound(w)
<1>t. Works(work) /\ w \in Worker /\ w # "P"
  BY Workers DEF TypeOK
<1>k. Keep /\ Fine
  BY DEF Marked
<1>1. /\ UNCHANGED <<rec, att, lock, timers>>
      /\ work' = Awaits(work, w, "P", "evident") \/ work' = Back(work, w, "false")
  BY DEF Marked, GoesBack
<1>2. Steps(work', work, Own(w))
  BY <1>t, <1>1, AwaitsOwn, GoesBackOwn, Workers
<1> QED
  BY <1>k, <1>1, <1>2, MemorySame, KeepIs DEF Sound

LEMMA WaitedIs ==
    ASSUME TypeOK, NEW w \in Inspector, Waited(w)
    PROVE  Sound(w)
<1>k. Keep /\ Fine
  BY DEF Waited
<1>1. /\ UNCHANGED <<rec, att, lock>> /\ timers' \subseteq {"settle", "cancel", "tomb"}
      /\ \E res : work' = Back(work, w, res)
  BY DEF Waited, GoesBack, TypeOK
<1>2. Steps(work', work, Own(w))
  BY <1>1, GoesBackOwn
<1> QED
  BY <1>k, <1>1, <1>2, KeepIs DEF Sound, LockKept, TypeOK

LEMMA MissedIs ==
    ASSUME TypeOK, NEW w \in Inspector, Missed(w)
    PROVE  Sound(w)
<1>k. Keep /\ Fine
  BY DEF Missed
<1>1. \E res : work' = Back(work, w, res)
  BY DEF Missed, GoesBack
<1>2. Steps(work', work, Own(w))
  BY <1>1, GoesBackOwn
<1>3. CASE UNCHANGED <<rec, att, lock, timers>>
  BY <1>k, <1>2, <1>3, MemorySame, KeepIs DEF Sound
<1>4. CASE lock' = TRUE /\ att' = [att EXCEPT !.tracked = TRUE] /\ UNCHANGED <<rec, timers>>
  <2>1. att' \in Attempts /\ att'.tracked
    BY <1>4 DEF TypeOK, Attempts
  <2> QED
    BY <1>k, <1>2, <1>4, <2>1, KeepIs DEF Sound, LockKept, TypeOK
<1> QED
  BY <1>3, <1>4 DEF Missed, GoesBack

LEMMA UntoldIs ==
    ASSUME TypeOK, NEW w \in Inspector, Untold(w)
    PROVE  Sound(w)
<1>t. Works(work) /\ att \in Attempts /\ rec \in Record
  BY DEF TypeOK
<1>k. Keep /\ (Fine \/ Blame)
  BY DEF Untold
<1>1. \E res : work' = Back(work, w, res)
  BY DEF Untold, GoesBack
<1>2. Steps(work', work, Own(w))
  BY <1>1, GoesBackOwn
<1>3. CASE UNCHANGED <<rec, att, lock, timers>>
  BY <1>k, <1>2, <1>3, MemorySame, KeepIs DEF Sound
<1>4. CASE /\ rec' = (IF Written(att) THEN [rec EXCEPT !.status = "unknown", !.cancel = TRUE] ELSE rec)
           /\ timers' = timers \cup (IF att.tracked THEN {"cancel"} ELSE {})
           /\ UNCHANGED <<att, lock>>
  <2> DEFINE new == [rec EXCEPT !.status = "unknown", !.cancel = TRUE]
  <2>1. new \in Record /\ new.at = rec.at
    BY <1>t DEF Record, Statuses
  <2>2. rec' = IF Written(att) THEN new ELSE rec
    BY <1>4
  <2> HIDE DEF new
  <2>3. rec' \in Record /\ (rec'.at = "none" => rec' = NoRecord)
    BY <2>1, <2>2, WrittenIs
  <2>4. timers' \subseteq {"settle", "cancel", "tomb"}
    BY <1>4 DEF TypeOK
  <2> QED
    BY <1>k, <1>2, <1>4, <2>3, <2>4, KeepIs DEF Sound, LockKept, TypeOK
<1> QED
  BY <1>3, <1>4 DEF Untold, GoesBack

LEMMA MissingCancelIs ==
    ASSUME TypeOK, NEW w \in Inspector, MissingCancel(w)
    PROVE  Sound(w)
<1>t. Works(work) /\ att \in Attempts /\ w \in Worker /\ w # "S"
  BY Workers DEF TypeOK
<1>1. PICK yes \in BOOLEAN :
        /\ CancelTurn(yes)
        /\ \/ SettleAttempt(Confirmed(att), IdleSeen, w, "missed") /\ UNCHANGED <<rec, lock, timers>>
           \/ Retained(w)
  BY DEF MissingCancel
<1>2. UNCHANGED <<gone, call, phase>>
  BY DEF MissingCancel
<1>3. HostKept
  BY <1>1, <1>2, CancelsIs
<1>4. CASE SettleAttempt(Confirmed(att), IdleSeen, w, "missed") /\ UNCHANGED <<rec, lock, timers>>
  <2>1. att' \in Attempts /\ att'.tracked = att.tracked /\ Steps(work', work, Own(w))
    BY <1>t, <1>4, SettleOwn, ConfirmedIs, ConstantsAre
  <2> QED
    BY <1>2, <1>3, <1>4, <2>1 DEF Sound, LockKept, TypeOK
<1>5. CASE Retained(w)
  <2>1. att' \in Attempts /\ att'.tracked /\ lock' = TRUE /\ UNCHANGED <<rec, timers>> /\ Steps(work', work, {w, "M"})
    BY <1>5, RetainedIs
  <2>2. Steps(work', work, Own(w))
    BY <2>1, StepsMore DEF Own, Promises
  <2> QED
    BY <1>2, <1>3, <2>1, <2>2 DEF Sound, LockKept, TypeOK
<1> QED
  BY <1>1, <1>4, <1>5

-----------------------------------------------------------------------------
(* The events of the child Session *)

LEMMA PoppedIs ==
    ASSUME TypeOK, events # <<>>, Popped
    PROVE  UNCHANGED <<host, gone>> /\ events' = Tail(events) /\ events' \in Seq({"busy", "idle", "deleted"})
<1>1. Tail(events) \in Seq({"busy", "idle", "deleted"})
  BY DEF TypeOK
<1> QED
  BY <1>1 DEF Popped

LEMMA BeginEventIs ==
    ASSUME TypeOK, BeginEvent
    PROVE  /\ lock' \in BOOLEAN /\ rec' \in Record /\ (rec'.at = "none" => rec' = NoRecord)
           /\ att' \in Attempts /\ call' \in Calls /\ timers' \subseteq {"settle", "cancel", "tomb"}
           /\ HostKept /\ phase' = phase /\ LockKept
           /\ Steps(work', work, Own("event"))
           /\ Quiescing => Steps(work', work, {})
<1>t. Works(work) /\ att \in Attempts /\ "event" \in Worker /\ "event" \in Inspector
  BY Workers DEF TypeOK
<1>e. events # <<>> /\ phase' = phase /\ call' \in Calls /\ Fine
  BY DEF BeginEvent, TypeOK
<1> DEFINE e == Head(events)
<1>1. CASE /\ Quiescing /\ att' = Invalidated(att) /\ work' = Overtake(work) /\ timers' = timers \ {"settle"}
           /\ Popped /\ UNCHANGED <<rec, lock>>
  <2>1. Steps(work', work, {})
    BY <1>t, <1>1, OvertakeSteps
  <2>2. Steps(work', work, Own("event"))
    BY <2>1, StepsMore
  <2>3. att' \in Attempts /\ att'.tracked = att.tracked
    BY <1>t, <1>1, InvalidatedIs
  <2>4. HostKept
    BY <1>1, <1>e, PoppedIs DEF HostKept, TypeOK, Fine
  <2> QED
    BY <1>1, <1>e, <2>1, <2>2, <2>3, <2>4 DEF LockKept, TypeOK
<1>2. CASE Dropped
  <2>1. Steps(work', work, {})
    BY <1>t, <1>2 DEF Dropped, Steps, Stays
  <2>2. Steps(work', work, Own("event"))
    BY <2>1, StepsMore
  <2>3. HostKept
    BY <1>2, <1>e, PoppedIs DEF HostKept, TypeOK, Fine, Dropped
  <2> QED
    BY <1>2, <1>e, <2>1, <2>2, <2>3, MemorySame DEF Dropped
<1>3. CASE /\ ~Quiescing /\ att' = Deleted(att) /\ work' = Goto(work, "event", "deleted")
           /\ UNCHANGED <<rec, lock, timers>> /\ HostRests
  <2>1. Steps(work', work, Own("event"))
    BY <1>t, <1>3, GotoOwn
  <2>2. att' \in Attempts /\ att'.tracked = att.tracked
    BY <1>t, <1>3, MissingIs
  <2> QED
    BY <1>3, <1>e, <2>1, <2>2, HostRestsIs DEF LockKept, TypeOK
<1>4. CASE /\ ~Quiescing /\ (\E pc \in {"late", "known"} : work' = Inspects(work, "event", pc))
           /\ UNCHANGED <<rec, att, lock, timers>> /\ HostRests
  <2>1. Steps(work', work, Own("event"))
    BY <1>t, <1>4, GotoOwn
  <2> QED
    BY <1>4, <1>e, <2>1, HostRestsIs, MemorySame
<1>5. CASE ~Quiescing /\ MarkActive("event") /\ HostRests
  <2>1. /\ att' \in Attempts /\ att'.tracked = att.tracked /\ timers' = timers \ {"settle"}
        /\ UNCHANGED <<rec, lock>> /\ Steps(work', work, {"event", "P"})
    BY <1>t, <1>5, MarkActiveIs
  <2>2. Steps(work', work, Own("event"))
    BY <2>1, StepsMore DEF Own, Promises
  <2> QED
    BY <1>5, <1>e, <2>1, <2>2, HostRestsIs DEF LockKept, TypeOK
<1> QED
  BY <1>1, <1>2, <1>3, <1>4, <1>5 DEF BeginEvent

LEMMA LateEventIs ==
    ASSUME TypeOK, LateEvent
    PROVE  Sound("event")
<1>t. Works(work) /\ att \in Attempts /\ "event" \in Worker /\ "event" \in Inspector
  BY Workers DEF TypeOK
<1>k. Keep /\ (Fine \/ Blame)
  BY DEF LateEvent, Hears
<1>1. CASE work' = Goto(work, "event", "handled") /\ UNCHANGED <<rec, att, lock, timers>>
  BY <1>t, <1>k, <1>1, GotoOwn, MemorySame, KeepIs DEF Sound
<1>2. CASE MarkActive("event")
  <2>1. /\ att' \in Attempts /\ att'.tracked = att.tracked /\ timers' = timers \ {"settle"}
        /\ UNCHANGED <<rec, lock>> /\ Steps(work', work, {"event", "P"})
    BY <1>t, <1>2, MarkActiveIs
  <2>2. Steps(work', work, Own("event"))
    BY <2>1, StepsMore DEF Own, Promises
  <2> QED
    BY <1>k, <2>1, <2>2, KeepIs DEF Sound, LockKept, TypeOK
<1> QED
  BY <1>1, <1>2 DEF LateEvent

LEMMA DeletedCancelIs ==
    ASSUME TypeOK, DeletedCancel
    PROVE  Sound("event")
<1>t. Works(work) /\ att \in Attempts /\ "event" \in Worker /\ "event" # "S" /\ "event" # "M" /\ "event" # "C"
  BY Workers DEF TypeOK
<1>1. PICK yes \in BOOLEAN :
        /\ CancelTurn(yes)
        /\ \/ SettleAttempt(Confirmed(att), IdleSeen, "event", "dropped")
           \/ (\E s \in {"M", "C"} : work' = Awaits(work, "event", s, "buried")) /\ UNCHANGED att
  BY DEF DeletedCancel
<1>2. UNCHANGED <<gone, rec, lock, call, timers, phase>>
  BY DEF DeletedCancel
<1>3. HostKept
  BY <1>1, <1>2, CancelsIs
<1>4. att' \in Attempts /\ att'.tracked = att.tracked /\ Steps(work', work, Own("event"))
  BY <1>t, <1>1, AwaitsOwn, SettleOwn, ConfirmedIs, ConstantsAre, Workers
<1> QED
  BY <1>2, <1>3, <1>4 DEF Sound, LockKept, TypeOK

LEMMA EventHandledIs ==
    ASSUME TypeOK, EventHandled
    PROVE  Sound("event")
<1>t. Works(work) /\ "event" \in Worker
  BY Workers DEF TypeOK
<1>1. /\ UNCHANGED <<host, gone, rec, att, lock, timers, call, phase>> /\ Fine
      /\ work' = Goto(work, "event", "idle")
      /\ events' = events \/ (events # <<>> /\ events' = Tail(events))
  BY DEF EventHandled
<1>2. events' \in Seq({"busy", "idle", "deleted"})
  BY <1>1 DEF TypeOK
<1>3. HostKept
  BY <1>1, <1>2 DEF HostKept, TypeOK, Fine
<1>4. Steps(work', work, Own("event"))
  BY <1>t, <1>1, GotoOwn
<1> QED
  BY <1>1, <1>3, <1>4, MemorySame DEF Sound, TypeOK

-----------------------------------------------------------------------------
(* Timers, cancellation, flush, recovery *)

LEMMA StillSteps ==
    ASSUME TypeOK, work' = work, NEW w
    PROVE  Steps(work', work, Own(w))
  BY DEF TypeOK, Steps, Stays

LEMMA SettleTimerIs ==
    ASSUME TypeOK, SettleTimer
    PROVE  Sound("settleTimer")
<1>t. Works(work) /\ att \in Attempts /\ att.pending \in Inspection /\ "settleTimer" \in Worker
  BY Workers DEF TypeOK, Attempts
<1>1. /\ UNCHANGED <<rec, lock>> /\ Keep /\ Fine /\ timers' = timers \ {"settle"}
      /\ \/ UNCHANGED <<att, work>>
         \/ SettleAttempt(att, att.pending, "settleTimer", "settled")
         \/ work' = Inspects(work, "settleTimer", "reconcile") /\ UNCHANGED att
  BY DEF SettleTimer
<1>2. att' \in Attempts /\ att'.tracked = att.tracked /\ Steps(work', work, Own("settleTimer"))
  BY <1>t, <1>1, StillSteps, SettleOwn, GotoOwn
<1> QED
  BY <1>1, <1>2, KeepIs DEF Sound, LockKept, TypeOK

LEMMA SettleTimerEndsIs ==
    ASSUME TypeOK, SettleTimerEnds
    PROVE  Sound("settleTimer")
<1>t. Works(work) /\ "settleTimer" \in Worker
  BY Workers DEF TypeOK
<1>1. /\ UNCHANGED <<rec, att, lock>> /\ Keep /\ Fine /\ timers' \subseteq timers \cup {"settle"}
      /\ work' = Goto(work, "settleTimer", "idle")
  BY DEF SettleTimerEnds
<1>2. Steps(work', work, Own("settleTimer"))
  BY <1>t, <1>1, GotoOwn
<1> QED
  BY <1>1, <1>2, KeepIs DEF Sound, LockKept, TypeOK

LEMMA TimerIs ==
    ASSUME TypeOK, NEW t \in {"cancel", "tomb"}, NEW w \in Worker, NEW s \in Promises, w # s, Timer(t, w, s)
    PROVE  Sound(w)
<1>t. Works(work)
  BY DEF TypeOK
<1>1. /\ UNCHANGED <<rec, att, lock>> /\ Keep /\ Fine /\ timers' = timers \ {t}
      /\ work' = Awaits(work, w, s, "expired") \/ work' = work
  BY DEF Timer
<1>2. Steps(work', work, Own(w))
  BY <1>t, <1>1, AwaitsOwn, StillSteps
<1> QED
  BY <1>1, <1>2, KeepIs DEF Sound, LockKept, TypeOK

LEMMA TimersAre ==
    ASSUME TypeOK
    PROVE  /\ CancelTimer => Sound("cancelTimer")
           /\ TombTimer => Sound("tombTimer")
           /\ TimerEnds => \E w \in {"cancelTimer", "tombTimer"} : Sound(w)
<1>1. CancelTimer => Sound("cancelTimer")
  BY TimerIs, Workers DEF CancelTimer
<1>2. TombTimer => Sound("tombTimer")
  BY TimerIs, Workers DEF TombTimer
<1>3. ASSUME NEW t \in {"cancel", "tomb"}, NEW w \in {"cancelTimer", "tombTimer"},
             timers' \subseteq timers \cup {t}, work' = Goto(work, w, "idle"),
             UNCHANGED <<rec, att, lock>>, Keep, Fine
      PROVE  Sound(w)
  <2>1. Steps(work', work, Own(w))
    BY <1>3, GotoOwn, Workers DEF TypeOK
  <2> QED
    BY <1>3, <2>1, KeepIs DEF Sound, LockKept, TypeOK
<1>4. ASSUME TimerEnds
      PROVE  \E w \in {"cancelTimer", "tombTimer"} : Sound(w)
  <2>1. PICK t \in {"cancel", "tomb"} :
          LET w == IF t = "cancel" THEN "cancelTimer" ELSE "tombTimer" IN
          /\ timers' = timers \cup (IF work[w].res = "error" /\ att.tracked THEN {t} ELSE {})
          /\ work' = Goto(work, w, "idle")
          /\ UNCHANGED <<rec, att, lock>> /\ Keep /\ Fine
    BY <1>4 DEF TimerEnds
  <2> QED
    BY <1>3, <2>1
<1> QED
  BY <1>1, <1>2, <1>4

LEMMA StopFencesIs ==
    ASSUME TypeOK, StopFences
    PROVE  Sound("stop")
<1>t. Works(work) /\ "stop" \in Worker /\ call \in Calls
  BY Workers DEF TypeOK
<1>1. /\ HostRests /\ Fine /\ UNCHANGED <<rec, att, lock, timers, phase>>
      /\ call' \in {call, [call EXCEPT !.stop = "error"]}
      /\ \E pc \in {"idle", "cancel"} : work' = Goto(work, "stop", pc)
  BY DEF StopFences
<1>2. call' \in Calls /\ Steps(work', work, Own("stop"))
  BY <1>t, <1>1, GotoOwn DEF Calls
<1> QED
  BY <1>1, <1>2, MemorySame, HostRestsIs DEF Sound

LEMMA StopsTurnIs ==
    ASSUME TypeOK, StopsTurn
    PROVE  Sound("stop")
<1>t. Works(work) /\ "stop" \in Worker /\ call \in Calls
  BY Workers DEF TypeOK
<1>1. PICK yes \in BOOLEAN : CancelTurn(yes) /\ call' = [call EXCEPT !.stop = IF yes THEN "done" ELSE "error"]
  BY DEF StopsTurn
<1>2. work' = Goto(work, "stop", "idle") /\ UNCHANGED <<gone, rec, att, lock, timers, phase>>
  BY DEF StopsTurn
<1>3. call' \in Calls /\ Steps(work', work, Own("stop")) /\ HostKept
  BY <1>t, <1>1, <1>2, GotoOwn, CancelsIs DEF Calls
<1> QED
  BY <1>2, <1>3, MemorySame DEF Sound

LEMMA AbortIs ==
    ASSUME TypeOK, AbortCall
    PROVE  Sound("stop") /\ Steps(work', work, {"stop", "C"})
<1>t. Works(work) /\ att \in Attempts /\ call \in Calls
  BY DEF TypeOK
<1>1. UNCHANGED <<rec, lock, timers, phase>> /\ HostKept
  BY HostRestsIs DEF AbortCall
<1>2. call' \in Calls /\ att' \in Attempts /\ att'.tracked = att.tracked /\ Steps(work', work, {"stop", "C"})
  <2>1. CASE call' = [call EXCEPT !.aborted = TRUE] /\ UNCHANGED <<att, work>>
    BY <1>t, <2>1 DEF Calls, Steps, Stays
  <2>2. CASE LET r == Cancelled(call, att, work) IN call' = r.c /\ att' = r.a /\ work' = r.W
    BY <1>t, <2>2, CancelledIs
  <2> QED
    BY <2>1, <2>2 DEF AbortCall
<1>3. Steps(work', work, Own("stop"))
  BY <1>2, StepsMore DEF Own, Promises
<1> QED
  BY <1>1, <1>2, <1>3 DEF Sound, LockKept, TypeOK

LEMMA FlushAgainIs ==
    ASSUME TypeOK, FlushAgain
    PROVE  Sound("flush")
<1>t. att \in Attempts /\ att.pending \in Inspection /\ "flush" \in Worker /\ "flush" # "S"
  BY Workers DEF TypeOK, Attempts
<1>1. SettleAttempt(att, att.pending, "flush", "settled") /\ UNCHANGED <<rec, lock, timers>> /\ Keep /\ Fine
  BY DEF FlushAgain
<1>2. att' \in Attempts /\ att'.tracked = att.tracked /\ Steps(work', work, Own("flush"))
  BY <1>t, <1>1, SettleOwn
<1> QED
  BY <1>1, <1>2, KeepIs DEF Sound, LockKept, TypeOK

LEMMA RecoverReadIs ==
    ASSUME TypeOK, RecoverRead
    PROVE  Sound("recover")
<1>t. Works(work) /\ "recover" \in Worker /\ att \in Attempts /\ rec \in Record
  BY Workers DEF TypeOK
<1>k. UNCHANGED <<rec, lock, timers>> /\ Keep /\ (Fine \/ Blame)
  BY DEF RecoverRead
<1>1. CASE work' = Goto(work, "recover", "idle") /\ UNCHANGED att
  BY <1>t, <1>k, <1>1, GotoOwn, MemorySame, KeepIs DEF Sound
<1>2. CASE ~(work' = Goto(work, "recover", "idle") /\ UNCHANGED att)
  <2> DEFINE a == IF att.tracked THEN att ELSE Attempt(rec)
             term == PersistedTerminal({rec})
             confirmed == a.confirmed \/ rec.confirmed
             missing == a.missing \/ rec.confirmed
             ids == {rec.at}
             b == [a EXCEPT !.tracked = FALSE, !.ids = ids]
  <2>1. /\ rec.at # "none" /\ work' = Goto(work, "recover", "authority")
        /\ att' = [b EXCEPT !.cancel = rec.cancel,
                            !.confirmed = confirmed, !.missing = missing,
                            !.invalid = rec.invalid, !.term = term]
    BY <1>2 DEF RecoverRead
  <2>2. a \in Attempts
    BY <1>t, AttemptType
  <2>3. term \in Record
    BY <1>t, PersistedTerminalType
  <2>4. ids \subseteq {"child", "tomb"} /\ rec.cancel \in BOOLEAN /\ rec.invalid \in BOOLEAN
    BY <1>t, <2>1 DEF Record
  <2>5. confirmed \in BOOLEAN /\ missing \in BOOLEAN
    BY <1>t, <2>2 DEF Record, Attempts
  <2> HIDE DEF a, term, confirmed, missing, ids
  <2>8. b \in Attempts
    BY <2>2, <2>4 DEF Attempts
  <2> HIDE DEF b
  <2>6. att' \in Attempts
    BY <2>1, <2>3, <2>4, <2>5, <2>8 DEF Attempts
  <2>7. Steps(work', work, Own("recover")) /\ work'["recover"].pc = "authority"
    BY <1>t, <2>1, GotoOwn
  <2> QED
    BY <1>k, <2>1, <2>6, <2>7, KeepIs DEF Sound, LockKept, TypeOK
<1> QED
  BY <1>1, <1>2

LEMMA RecoverLocksIs ==
    ASSUME TypeOK, RecoverLocks
    PROVE  Sound("recover") /\ att' = [att EXCEPT !.tracked = TRUE] /\ lock'
<1>t. Works(work) /\ "recover" \in Worker /\ att \in Attempts
  BY Workers DEF TypeOK
<1>1. /\ UNCHANGED <<rec, timers>> /\ Keep /\ Fine /\ lock' = TRUE
      /\ att' = [att EXCEPT !.tracked = TRUE] /\ work' = Inspects(work, "recover", "reconcile")
  BY DEF RecoverLocks
<1>2. att' \in Attempts /\ att'.tracked
  BY <1>t, <1>1 DEF Attempts
<1>3. Steps(work', work, Own("recover"))
  BY <1>t, <1>1, GotoOwn
<1> QED
  BY <1>1, <1>2, <1>3, KeepIs DEF Sound, LockKept, TypeOK

LEMMA HostIs ==
    ASSUME TypeOK, Host
    PROVE  Sound("stop") /\ UNCHANGED <<att, lock, call, work, timers, phase>>
<1>0. UNCHANGED <<att, lock, call, work, timers, phase>>
  BY DEF Host, HostBegins, HostEnds, HostRefuses, HostDeletes, MemoryRests
<1>1. rec' = rec \/ rec' = NoRecord
  BY DEF Host, HostBegins, HostEnds, HostRefuses, HostDeletes
<1>2. rec' \in Record /\ (rec'.at = "none" => rec' = NoRecord)
  BY <1>1, ConstantsAre DEF TypeOK
<1>3. HostKept
  <2>1. CASE HostBegins
    BY <2>1, EmitsType DEF HostBegins, HostKept, TypeOK, Kinds, Fine
  <2>2. CASE HostEnds
    BY <2>2, EmitsType DEF HostEnds, HostKept, TypeOK, Kinds, Fine
  <2>3. CASE HostRefuses
    BY <2>3 DEF HostRefuses, HostKept, TypeOK, Fine, Blame
  <2>4. CASE HostDeletes
    BY <2>4, EmitsType DEF HostDeletes, HostKept, TypeOK, Kinds, Blame
  <2> QED
    BY <2>1, <2>2, <2>3, <2>4 DEF Host
<1>4. Steps(work', work, Own("stop"))
  BY <1>0, StillSteps
<1> QED
  BY <1>0, <1>2, <1>3, <1>4 DEF Sound, LockKept, TypeOK

-----------------------------------------------------------------------------
(* delegate *)

LEMMA EndsOwn ==
    ASSUME TypeOK, NEW outcome \in Outcomes, NEW retain \in BOOLEAN, Ends(outcome, retain), HostKept, phase' = phase
    PROVE  Sound("delegate")
<1>1. /\ call' \in Calls /\ lock' = (lock /\ retain) /\ att' \in Attempts /\ att'.tracked = att.tracked
      /\ Steps(work', work, {"delegate"}) /\ UNCHANGED <<rec, timers>>
  BY EndsIs
<1>2. Steps(work', work, Own("delegate"))
  BY <1>1, StepsMore DEF Own
<1>3. lock' \in BOOLEAN /\ LockKept
  BY <1>1 DEF LockKept, TypeOK
<1> QED
  BY <1>1, <1>2, <1>3 DEF Sound, TypeOK

LEMMA CaughtOwn ==
    ASSUME TypeOK, NEW err, Caught(err), HostKept, phase' = phase
    PROVE  Sound("delegate")
<1>1. /\ call' \in Calls /\ att' \in Attempts /\ att'.tracked = att.tracked
      /\ UNCHANGED <<rec, timers>> /\ lock' \in BOOLEAN /\ (lock' => lock)
      /\ Steps(work', work, {"delegate", "stop", "C", "S"})
  BY CaughtIs
<1>2. Steps(work', work, Own("delegate"))
  BY <1>1, StepsMore DEF Own, Promises
<1> QED
  BY <1>1, <1>2 DEF Sound, LockKept, TypeOK

LEMMA ConcludeOwn ==
    ASSUME TypeOK, NEW c \in Calls, Conclude(c), HostKept, phase' = phase
    PROVE  Sound("delegate")
<1>1. /\ call' \in Calls /\ att' \in Attempts /\ att'.tracked = att.tracked
      /\ UNCHANGED <<rec, lock, timers>> /\ Steps(work', work, {"delegate", "S"})
  BY ConcludeIs
<1>2. Steps(work', work, Own("delegate"))
  BY <1>1, StepsMore DEF Own, Promises
<1> QED
  BY <1>1, <1>2 DEF Sound, LockKept, TypeOK

LEMMA TellsIs ==
    ASSUME NEW c \in Calls, NEW retain \in BOOLEAN, Tells(c, retain)
    PROVE  \E outcome \in Outcomes : Ends(outcome, retain)
  BY DEF Tells, Outcomes

LEMMA DelegateIs ==
    ASSUME TypeOK, Delegate
    PROVE  Sound("delegate") /\ work'["delegate"].pc = "prepare"
<1>1. /\ work' = Goto(work, "delegate", "prepare") /\ UNCHANGED <<rec, att, lock, timers, call, phase>>
      /\ HostRests /\ Fine
  BY DEF Delegate
<1>2. Steps(work', work, Own("delegate")) /\ work'["delegate"].pc = "prepare"
  BY <1>1, GotoOwn, Workers DEF TypeOK
<1> QED
  BY <1>1, <1>2, MemorySame, HostRestsIs DEF Sound, TypeOK

LEMMA PreparedIs ==
    ASSUME TypeOK, Prepared
    PROVE  Sound("delegate") /\ work'["delegate"].pc \in {"lock", "done"} /\ (lock' => lock) /\ att'.tracked = att.tracked
<1>1. UNCHANGED phase /\ HostKept
  BY HostRestsIs DEF Prepared
<1>2. CASE NotStarted
  BY <1>1, <1>2, EndsOwn, EndsIs DEF NotStarted, Outcomes
<1>3. CASE work' = Goto(work, "delegate", "lock") /\ UNCHANGED <<rec, att, lock, timers, call>>
  <2>1. Steps(work', work, Own("delegate")) /\ work'["delegate"].pc = "lock"
    BY <1>3, GotoOwn, Workers DEF TypeOK
  <2> QED
    BY <1>1, <1>3, <2>1, MemorySame DEF Sound, TypeOK
<1> QED
  BY <1>2, <1>3 DEF Prepared

\* The lock is taken before the attempt is made.
LEMMA LockedIs ==
    ASSUME TypeOK, Locked
    PROVE  /\ TypeOK' /\ HostKept /\ phase' = phase /\ Steps(work', work, Own("delegate"))
           /\ (work'["delegate"].pc = "admit" /\ lock' = TRUE) \/ (work'["delegate"].pc = "done" /\ ~lock')
           /\ att'.tracked = att.tracked
<1>1. UNCHANGED phase /\ HostKept
  BY HostRestsIs DEF Locked
<1>2. CASE NotStarted
  <2>1. Sound("delegate")
    BY <1>1, <1>2, EndsOwn DEF NotStarted, Outcomes
  <2>2. lock' = (lock /\ FALSE) /\ att'.tracked = att.tracked /\ work'["delegate"].pc = "done"
    BY <1>2, EndsIs DEF NotStarted, Outcomes
  <2>3. TypeOK'
    BY <2>1, SoundTypes
  <2> QED
    BY <1>1, <2>1, <2>2, <2>3 DEF Sound
<1>3. CASE lock' = TRUE /\ work' = Goto(work, "delegate", "admit") /\ UNCHANGED <<rec, att, timers, call>>
  <2>1. Steps(work', work, Own("delegate")) /\ work'["delegate"].pc = "admit"
    BY <1>3, GotoOwn, Workers DEF TypeOK
  <2>2. Works(work')
    BY <2>1 DEF Steps
  <2>3. TypeOK'
    BY <1>1, <1>3, <2>2 DEF TypeOK, HostKept, Works, IsStep
  <2> QED
    BY <1>1, <1>3, <2>1, <2>3
<1> QED
  BY <1>2, <1>3 DEF Locked

LEMMA AdmittedIs ==
    ASSUME TypeOK, Admitted
    PROVE  /\ Sound("delegate") /\ att'.tracked = att.tracked
           /\ (work'["delegate"].pc = "create" /\ lock' = lock) \/ (work'["delegate"].pc = "done" /\ ~lock')
<1>1. UNCHANGED phase /\ HostKept
  BY HostRestsIs DEF Admitted
<1>2. CASE NotStarted
  <2>1. Sound("delegate")
    BY <1>1, <1>2, EndsOwn DEF NotStarted, Outcomes
  <2>2. lock' = (lock /\ FALSE) /\ att'.tracked = att.tracked /\ work'["delegate"].pc = "done"
    BY <1>2, EndsIs DEF NotStarted, Outcomes
  <2> QED
    BY <2>1, <2>2
<1>3. CASE work' = Goto(work, "delegate", "create") /\ UNCHANGED <<rec, att, lock, timers, call>>
  <2>1. Steps(work', work, Own("delegate")) /\ work'["delegate"].pc = "create"
    BY <1>3, GotoOwn, Workers DEF TypeOK
  <2> QED
    BY <1>1, <1>3, <2>1, MemorySame DEF Sound, TypeOK
<1> QED
  BY <1>2, <1>3 DEF Admitted

LEMMA CreatedIs ==
    ASSUME TypeOK, Created
    PROVE  /\ Sound("delegate")
           /\ (work'["delegate"].pc = "after" /\ att'.tracked) \/ (work'["delegate"].pc = "done" /\ ~lock')
<1> DEFINE child == [NoRecord EXCEPT !.at = "child", !.status = "running"]
<1>1. UNCHANGED <<timers, phase>> /\ HostKept
  BY HostRestsIs DEF Created
<1>2. child \in Record /\ child.at = "child"
  BY ChildIs
<1>3. CASE /\ rec' \in {rec, child} /\ call' = Over("refused")
           /\ lock' = FALSE /\ work' = Goto(work, "delegate", "done") /\ UNCHANGED att
  <2> HIDE DEF child
  <2>1. Steps(work', work, Own("delegate")) /\ work'["delegate"].pc = "done"
    BY <1>3, GotoOwn, Workers DEF TypeOK
  <2>2. rec' \in Record /\ (rec'.at = "none" => rec' = NoRecord)
    BY <1>2, <1>3 DEF TypeOK
  <2>3. call' \in Calls
    BY <1>3, OverIs DEF TypeOK, Outcomes
  <2> QED
    BY <1>1, <1>3, <2>1, <2>2, <2>3 DEF Sound, LockKept, TypeOK
<1>4. CASE /\ rec' = child /\ att' = [Attempt(child) EXCEPT !.tracked = TRUE, !.fg = "pending"]
           /\ work' = Goto(work, "delegate", "after") /\ UNCHANGED <<lock, call>>
  <2> HIDE DEF child
  <2> DEFINE a == Attempt(child)
  <2>1. a \in Attempts
    BY <1>2, AttemptType
  <2>2. att' = [a EXCEPT !.tracked = TRUE, !.fg = "pending"]
    BY <1>4
  <2> HIDE DEF a
  <2>3. att' \in Attempts /\ att'.tracked
    BY <2>1, <2>2 DEF Attempts
  <2>4. Steps(work', work, Own("delegate")) /\ work'["delegate"].pc = "after"
    BY <1>4, GotoOwn, Workers DEF TypeOK
  <2> QED
    BY <1>1, <1>2, <1>4, <2>3, <2>4 DEF Sound, LockKept, TypeOK
<1> QED
  BY <1>3, <1>4 DEF Created

LEMMA AttendedIs ==
    ASSUME TypeOK, Attended
    PROVE  Sound("delegate")
<1>t. Works(work) /\ att \in Attempts /\ call \in Calls /\ "delegate" \in Worker
  BY Workers DEF TypeOK
<1>1. UNCHANGED phase /\ HostKept
  BY HostRestsIs DEF Attended
<1>2. CASE \E err : Caught(err)
  BY <1>1, <1>2, CaughtOwn
<1>3. CASE /\ att' = [att EXCEPT !.cancel = @ \/ call.aborted]
           /\ work' = Goto(work, "delegate", "session") /\ UNCHANGED <<rec, lock, timers, call>>
  <2>1. att' \in Attempts /\ att'.tracked = att.tracked
    BY <1>t, <1>3 DEF Attempts, Calls
  <2>2. Steps(work', work, Own("delegate"))
    BY <1>t, <1>3, GotoOwn
  <2> QED
    BY <1>1, <1>3, <2>1, <2>2 DEF Sound, LockKept, TypeOK
<1>4. CASE StopsChild /\ UNCHANGED att
  <2>1. call' \in Calls /\ UNCHANGED <<rec, lock, timers>> /\ Steps(work', work, {"delegate", "stop", "C"})
    BY <1>4, StopsChildIs
  <2>2. Steps(work', work, Own("delegate"))
    BY <2>1, StepsMore DEF Own, Promises
  <2> QED
    BY <1>1, <1>4, <2>1, <2>2, MemorySame DEF Sound
<1>5. CASE work' = Goto(work, "delegate", "revalidate") /\ UNCHANGED <<rec, att, lock, timers, call>>
  <2>1. Steps(work', work, Own("delegate"))
    BY <1>t, <1>5, GotoOwn
  <2> QED
    BY <1>1, <1>5, <2>1, MemorySame DEF Sound, TypeOK
<1> QED
  BY <1>2, <1>3, <1>4, <1>5 DEF Attended

LEMMA SentIs ==
    ASSUME TypeOK, Sent
    PROVE  Sound("delegate")
<1>1. UNCHANGED <<gone, events, phase>> /\ Fine
  BY DEF Sent
<1>2. CASE (\E err : Caught(err)) /\ UNCHANGED host
  <2>1. HostKept
    BY <1>1, <1>2 DEF HostKept, Fine, TypeOK
  <2> QED
    BY <1>1, <1>2, <2>1, CaughtOwn
<1>3. CASE /\ Active /\ host' = "sent" /\ call' = [call EXCEPT !.sent = TRUE]
           /\ work' = Goto(work, "delegate", "turn") /\ UNCHANGED <<rec, att, lock, timers>>
  <2>1. HostKept
    BY <1>1, <1>3 DEF HostKept, Fine, TypeOK, Active
  <2>2. call' \in Calls
    BY <1>3 DEF TypeOK, Calls
  <2>3. Steps(work', work, Own("delegate"))
    BY <1>3, GotoOwn, Workers DEF TypeOK
  <2> QED
    BY <1>1, <1>3, <2>1, <2>2, <2>3, MemorySame DEF Sound
<1> QED
  BY <1>2, <1>3 DEF Sent

LEMMA AnsweredIs ==
    ASSUME TypeOK, Answered
    PROVE  Sound("delegate")
<1> DEFINE a == [att EXCEPT !.answered = TRUE, !.fg = "none"]
           c == [call EXCEPT !.answer = host]
           d == [c EXCEPT !.open = FALSE]
           x == [IdleSeen EXCEPT !.out = host]
<1>t. Works(work) /\ "delegate" \in Worker /\ "delegate" # "S" /\ host \in {"result", "error", "quiet"}
  BY Workers DEF TypeOK, Answered
<1>1. UNCHANGED phase /\ HostKept
  BY HostRestsIs DEF Answered
<1>2. a \in Attempts /\ a.tracked = att.tracked
  BY DEF TypeOK, Attempts
<1>3. c \in Calls /\ d \in Calls
  BY <1>t DEF TypeOK, Calls
<1>4. host # "quiet" => x \in Inspection
  BY <1>t DEF IdleSeen, NoInspection, Inspection, Statuses
<1> HIDE DEF a, c, d, x
<1>5. CASE att' = a /\ call' = c /\ work' = Goto(work, "delegate", "stopping") /\ UNCHANGED <<rec, lock, timers>>
  <2>1. Steps(work', work, Own("delegate"))
    BY <1>t, <1>5, GotoOwn
  <2> QED
    BY <1>1, <1>2, <1>3, <1>5, <2>1 DEF Sound, LockKept, TypeOK
<1>6. CASE /\ att' = a /\ lock' = lock /\ work' = Goto(work, "delegate", "done")
           /\ call' = Over("uncertain") /\ UNCHANGED <<rec, timers>>
  <2>1. Steps(work', work, Own("delegate"))
    BY <1>t, <1>6, GotoOwn
  <2>2. call' \in Calls
    BY <1>6, OverIs DEF TypeOK, Outcomes
  <2> QED
    BY <1>1, <1>2, <1>6, <2>1, <2>2 DEF Sound, LockKept, TypeOK
<1>7. CASE host # "quiet" /\ SettleAttempt(a, x, "delegate", "reported") /\ call' = d /\ UNCHANGED <<rec, lock, timers>>
  <2>1. att' \in Attempts /\ att'.tracked = att.tracked /\ Steps(work', work, Own("delegate"))
    BY <1>t, <1>2, <1>4, <1>7, SettleOwn
  <2> QED
    BY <1>1, <1>3, <1>7, <2>1 DEF Sound, LockKept, TypeOK
<1> QED
  BY <1>5, <1>6, <1>7 DEF Answered, a, c, d, x

LEMMA RejectedIs ==
    ASSUME TypeOK, Rejected
    PROVE  Sound("delegate")
<1>1. UNCHANGED phase /\ HostKept /\ Caught("other")
  BY HostRestsIs DEF Rejected
<1> QED
  BY <1>1, CaughtOwn

LEMMA ReportedIs ==
    ASSUME TypeOK, Reported
    PROVE  Sound("delegate")
<1>1. UNCHANGED phase /\ HostKept
  BY HostRestsIs DEF Reported
<1>2. CASE Caught("other")
  BY <1>1, <1>2, CaughtOwn
<1>3. CASE \E outcome \in Outcomes, retain \in BOOLEAN : Ends(outcome, retain)
  BY <1>1, <1>3, EndsOwn
<1> QED
  BY <1>2, <1>3 DEF Reported, Outcomes

LEMMA UndispatchedIs ==
    ASSUME TypeOK, Undispatched
    PROVE  Sound("delegate")
<1>1. UNCHANGED phase
  BY DEF Undispatched
<1>2. CASE Ends("uncertain", TRUE) /\ HostRests /\ Fine
  BY <1>1, <1>2, HostRestsIs, EndsOwn DEF Outcomes
<1>3. ASSUME NEW yes \in BOOLEAN, CancelTurn(yes) /\ UNCHANGED gone, Ends("uncertain", TRUE)
      PROVE  Sound("delegate")
  BY <1>1, <1>3, CancelsIs, EndsOwn DEF Outcomes
<1>4. ASSUME NEW yes \in BOOLEAN, CancelTurn(yes) /\ UNCHANGED gone,
             SettleAttempt(att, [IdleSeen EXCEPT !.status = "cancelled"], "delegate", "unmade"),
             UNCHANGED <<rec, lock, timers, call>>
      PROVE  Sound("delegate")
  <2> DEFINE x == [IdleSeen EXCEPT !.status = "cancelled"]
  <2>1. x \in Inspection
    BY DEF IdleSeen, NoInspection, Inspection, Statuses
  <2>2. SettleAttempt(att, x, "delegate", "unmade")
    BY <1>4
  <2> HIDE DEF x
  <2>3. att' \in Attempts /\ att'.tracked = att.tracked /\ Steps(work', work, Own("delegate"))
    BY <2>1, <2>2, SettleOwn, Workers DEF TypeOK
  <2> QED
    BY <1>1, <1>4, <2>3, CancelsIs DEF Sound, LockKept, TypeOK
<1> QED
  BY <1>2, <1>3, <1>4 DEF Undispatched

LEMMA PredispatchIs ==
    ASSUME TypeOK, Predispatch
    PROVE  Sound("delegate")
<1>1. UNCHANGED phase /\ HostKept
  BY HostRestsIs DEF Predispatch
<1>2. CASE Ends("failed", TRUE)
  BY <1>1, <1>2, EndsOwn DEF Outcomes
<1>3. CASE SettleAttempt(att, IdleSeen, "delegate", "unsent") /\ UNCHANGED <<rec, lock, timers, call>>
  <2>1. att' \in Attempts /\ att'.tracked = att.tracked /\ Steps(work', work, Own("delegate"))
    BY <1>3, ConstantsAre, SettleOwn, Workers DEF TypeOK
  <2> QED
    BY <1>1, <1>3, <2>1 DEF Sound, LockKept, TypeOK
<1> QED
  BY <1>2, <1>3 DEF Predispatch

LEMMA UnsentIs ==
    ASSUME TypeOK, Unsent
    PROVE  Sound("delegate")
<1>1. UNCHANGED phase /\ HostKept
  BY HostRestsIs DEF Unsent
<1>2. \E outcome \in Outcomes, retain \in BOOLEAN : Ends(outcome, retain)
  BY DEF Unsent, Outcomes
<1> QED
  BY <1>1, <1>2, EndsOwn

LEMMA StoppingIs ==
    ASSUME TypeOK, Stopping
    PROVE  Sound("delegate")
<1>1. UNCHANGED phase /\ HostKept
  BY HostRestsIs DEF Stopping
<1>2. CASE Ends("uncertain", TRUE)
  BY <1>1, <1>2, EndsOwn DEF Outcomes
<1> DEFINE c == [call EXCEPT !.status = "cancelled"]
           d == [call EXCEPT !.status = "unknown", !.retain = TRUE, !.uncertain = TRUE]
<1>3. c \in Calls /\ d \in Calls
  BY DEF TypeOK, Calls, Statuses
<1>4. CASE Conclude(c) \/ Conclude(d)
  <2> HIDE DEF c, d
  <2> QED
    BY <1>1, <1>3, <1>4, ConcludeOwn
<1> QED
  BY <1>2, <1>4 DEF Stopping

LEMMA InspectOwnIs ==
    ASSUME TypeOK, InspectOwn
    PROVE  Sound("delegate")
<1>1. UNCHANGED phase /\ HostKept
  BY HostRestsIs DEF InspectOwn, Hears
<1> DEFINE uncertain == [call EXCEPT !.status = "unknown", !.uncertain = TRUE]
           retained == [uncertain EXCEPT !.retain = TRUE]
           over == [retained EXCEPT !.over = TRUE]
           missing == [retained EXCEPT !.missing = TRUE]
           failed == [call EXCEPT !.status = "failed"]
           done == [call EXCEPT !.status = "reported-completed", !.answer = "result"]
<1>2. {uncertain, retained, over, missing, failed, done} \subseteq Calls
  <2>1. call \in Calls
    BY DEF TypeOK
  <2>2. uncertain \in Calls /\ failed \in Calls /\ done \in Calls
    BY <2>1 DEF Calls, Statuses
  <2> HIDE DEF uncertain, failed, done
  <2>3. retained \in Calls
    BY <2>2 DEF Calls
  <2> HIDE DEF retained
  <2>4. over \in Calls /\ missing \in Calls
    BY <2>3 DEF Calls
  <2> HIDE DEF over, missing
  <2> QED
    BY <2>2, <2>3, <2>4
<1>3. \/ Ends("failed", FALSE)
      \/ \E c \in {uncertain, retained, over, missing, failed, done} : Conclude(c)
  BY DEF InspectOwn
<1> HIDE DEF uncertain, retained, over, missing, failed, done
<1> QED
  BY <1>1, <1>2, <1>3, EndsOwn, ConcludeOwn DEF Outcomes

LEMMA RetainedLockIs ==
    ASSUME TypeOK, RetainedLock
    PROVE  Sound("delegate")
<1>t. Works(work) /\ att \in Attempts /\ rec \in Record /\ call \in Calls /\ "delegate" \in Worker
  BY Workers DEF TypeOK
<1> DEFINE a == [att EXCEPT !.tracked = TRUE]
           new == [rec EXCEPT !.status = call.status, !.cancel = rec.cancel \/ att.cancel]
<1>1. UNCHANGED <<lock, call, phase>> /\ HostKept
  BY HostRestsIs DEF RetainedLock
<1>2. a \in Attempts /\ a.tracked
  BY <1>t DEF Attempts
<1>3. new \in Record /\ new.at = rec.at
  BY <1>t DEF Attempts, Record, Calls
<1>4. rec' = rec \/ (rec.at = "child" /\ rec' = new)
  BY DEF RetainedLock
<1>5. \/ att' = a /\ work' = Finish(work, "delegate", "judged", "false")
      \/ HandleMissing(a, "delegate")
      \/ att' = a /\ work' = Inspects(work, "delegate", "reconcile")
  BY DEF RetainedLock
<1>6. timers' \subseteq {"settle", "cancel", "tomb"}
  BY DEF RetainedLock, TypeOK
<1> HIDE DEF a, new
<1>7. rec' \in Record /\ (rec'.at = "none" => rec' = NoRecord)
  BY <1>3, <1>4 DEF TypeOK
<1>8. att' \in Attempts /\ att'.tracked /\ Steps(work', work, Own("delegate"))
  <2>1. CASE HandleMissing(a, "delegate")
    <3>1. att' \in Attempts /\ att'.tracked = a.tracked /\ Steps(work', work, {"delegate", "S"})
      BY <1>t, <1>2, <2>1, HandleMissingIs, Workers
    <3>2. Steps(work', work, Own("delegate"))
      BY <3>1, StepsMore DEF Own, Promises
    <3> QED
      BY <1>2, <3>1, <3>2
  <2>2. CASE att' = a /\ work' = Finish(work, "delegate", "judged", "false")
    BY <1>t, <1>2, <2>2, GotoOwn
  <2>3. CASE att' = a /\ work' = Inspects(work, "delegate", "reconcile")
    BY <1>t, <1>2, <2>3, GotoOwn
  <2> QED
    BY <1>5, <2>1, <2>2, <2>3
<1> QED
  BY <1>1, <1>6, <1>7, <1>8 DEF Sound, LockKept, TypeOK

LEMMA JudgedIs ==
    ASSUME TypeOK, Judged
    PROVE  Sound("delegate")
<1>1. UNCHANGED phase /\ HostKept
  BY HostRestsIs DEF Judged
<1> DEFINE c == IF work["delegate"].res = "true" /\ call.heard # "none"
                THEN [call EXCEPT !.answer = call.heard, !.uncertain = FALSE] ELSE call
<1>2. c \in Calls
  <2> DEFINE h == call.heard
  <2>1. call \in Calls /\ h \in {"none", "result", "error"}
    BY DEF TypeOK, Calls
  <2> HIDE DEF h
  <2>2. [call EXCEPT !.answer = h, !.uncertain = FALSE] \in Calls
    BY <2>1 DEF Calls
  <2> QED
    BY <2>1, <2>2 DEF h
<1>3. Ends("failed", TRUE) \/ \E retain \in BOOLEAN : Tells(c, retain)
  BY DEF Judged
<1> HIDE DEF c
<1>4. \E outcome \in Outcomes, retain \in BOOLEAN : Ends(outcome, retain)
  BY <1>2, <1>3, TellsIs DEF Outcomes
<1> QED
  BY <1>1, <1>4, EndsOwn

LEMMA ClosingIs ==
    ASSUME TypeOK, Closing
    PROVE  Sound("delegate")
<1>1. UNCHANGED phase /\ HostKept
  BY HostRestsIs DEF Closing
<1>2. Ends("uncertain", TRUE) \/ Tells(call, FALSE)
  BY DEF Closing
<1>3. \E outcome \in Outcomes, retain \in BOOLEAN : Ends(outcome, retain)
  BY <1>2, TellsIs DEF TypeOK, Outcomes
<1> QED
  BY <1>1, <1>3, EndsOwn

-----------------------------------------------------------------------------
(* Actions that change the phase *)

LEMMA TypesAgain ==
    ASSUME TypeOK, HostKept, lock' \in BOOLEAN, rec' \in Record, rec'.at = "none" => rec' = NoRecord,
           att' \in Attempts, call' \in Calls, Works(work'), timers' \subseteq {"settle", "cancel", "tomb"},
           phase' \in {"serving", "flushing", "flushed", "closed", "down"}
    PROVE  TypeOK'
  BY DEF TypeOK, HostKept, Works, IsStep

LEMMA FlushIs ==
    ASSUME TypeOK, Flush
    PROVE  /\ TypeOK' /\ HostKept /\ phase = "serving" /\ phase' = "flushing"
           /\ lock' = lock /\ att'.tracked = att.tracked
           /\ Steps(work', work, {"flush", "stop", "C"}) /\ work'["flush"].pc = "inflight"
<1> DEFINE U == Goto(work, "flush", "inflight")
<1>t. Works(work) /\ att \in Attempts /\ call \in Calls /\ "flush" \in Worker
  BY Workers DEF TypeOK
<1>1. /\ phase = "serving" /\ phase' = "flushing" /\ UNCHANGED <<rec, lock, timers>>
      /\ LET r == Cancelled(call, att, U) IN call' = r.c /\ att' = r.a /\ work' = r.W
  BY DEF Flush, Active
<1>2. HostKept
  BY HostRestsIs DEF Flush
<1>3. Works(U) /\ Puts(U, work, "flush") /\ U["flush"].pc = "inflight"
  BY <1>t, GotoIs DEF Puts
<1> HIDE DEF U
<1>4. call' \in Calls /\ att' \in Attempts /\ att'.tracked = att.tracked /\ Steps(work', U, {"stop", "C"})
  BY <1>t, <1>1, <1>3, CancelledIs
<1>5. Steps(work', work, {"flush", "stop", "C"})
  <2>1. Steps(U, work, {"flush"})
    BY <1>t, <1>3, PutsSteps
  <2>2. Steps(work', work, {"stop", "C"} \cup {"flush"})
    BY <1>4, <2>1, StepsTogether
  <2>3. {"stop", "C"} \cup {"flush"} = {"flush", "stop", "C"}
    OBVIOUS
  <2> QED
    BY <2>2, <2>3
<1>6. work'["flush"].pc = "inflight"
  BY <1>t, <1>3, <1>4 DEF Steps, Stays
<1>7. TypeOK'
  BY <1>1, <1>2, <1>4, TypesAgain DEF Steps, TypeOK
<1> QED
  BY <1>1, <1>2, <1>4, <1>5, <1>6, <1>7

LEMMA FlushLoopTypes ==
    ASSUME TypeOK, FlushLoop
    PROVE  TypeOK' /\ HostKept
<1>1. /\ Works(work') /\ phase' \in {"flushed", phase}
      /\ UNCHANGED <<rec, att, lock, timers, call, host, gone, events>>
  BY FlushLoopIs DEF Steps
<1>2. HostKept
  BY <1>1 DEF HostKept, TypeOK
<1> QED
  BY <1>1, <1>2, TypesAgain DEF TypeOK

LEMMA FlushFailsIs ==
    ASSUME TypeOK, FlushFails
    PROVE  /\ TypeOK' /\ HostKept /\ phase' = "serving" /\ UNCHANGED <<rec, att, lock, timers, call>>
           /\ Steps(work', work, {"flush"}) /\ work'["flush"].pc = "idle"
<1>1. /\ phase' = "serving" /\ work' = Goto(work, "flush", "idle") /\ UNCHANGED <<rec, att, lock, timers, call>>
      /\ HostKept
  BY HostRestsIs DEF FlushFails
<1>2. Steps(work', work, {"flush"}) /\ work'["flush"].pc = "idle"
  BY <1>1, GoesOn, Workers DEF TypeOK
<1>3. TypeOK'
  BY <1>1, <1>2, TypesAgain DEF Steps, TypeOK
<1> QED
  BY <1>1, <1>2, <1>3

LEMMA LifecycleIs ==
    ASSUME TypeOK, Lifecycle
    PROVE  /\ TypeOK' /\ HostKept /\ phase = "flushed" /\ phase' \in {"serving", "closed"}
           /\ UNCHANGED <<rec, call, work>>
           /\ \/ phase' = "serving" /\ UNCHANGED <<att, lock, timers>>
              \/ phase' = "closed" /\ ~lock' /\ ~att'.tracked
<1>1. /\ phase = "flushed" /\ UNCHANGED <<rec, call, work>> /\ HostKept
      /\ \/ phase' = "serving" /\ UNCHANGED <<att, lock, timers>>
         \/ phase' = "closed" /\ lock' = FALSE /\ timers' = {} /\ att' = [att EXCEPT !.tracked = FALSE]
  BY HostRestsIs DEF Lifecycle
<1>2. att' = [att EXCEPT !.tracked = FALSE] => att' \in Attempts /\ ~att'.tracked
  BY DEF TypeOK, Attempts
<1>3. TypeOK'
  BY <1>1, <1>2, TypesAgain DEF TypeOK
<1> QED
  BY <1>1, <1>2, <1>3

LEMMA CrashIs ==
    ASSUME TypeOK, Crash
    PROVE  /\ TypeOK' /\ phase' = "down" /\ host' \notin {"sent", "busy"}
           /\ UNCHANGED <<gone, rec>> /\ events' = <<>> /\ timers' = {} /\ ~lock' /\ att' = Attempt(NoRecord)
           /\ call'.stop = "none" /\ ~call'.missing /\ call'.answer = "none" /\ call'.heard = "none"
           /\ host = "none" => host' = "none"
           /\ \A w \in Worker \ {"delegate"} : work'[w] = Resting
           /\ work'["delegate"].on = "none"
           /\ work'["delegate"].pc = IF work["delegate"].pc = "idle" THEN "idle" ELSE "done"
<1> DEFINE over == [Resting EXCEPT !.pc = "done"]
           open == work["delegate"].pc = "idle"
           c == [NoCall EXCEPT !.open = open]
<1>1. /\ phase' = "down" /\ att' = Attempt(NoRecord) /\ lock' = FALSE /\ timers' = {}
      /\ call' = c /\ events' = <<>>
      /\ host' = IF host \in {"sent", "busy"} THEN "quiet" ELSE host
      /\ UNCHANGED <<gone, rec>>
      /\ work' = [w \in Worker |-> IF w = "delegate" /\ work[w].pc # "idle" THEN over ELSE Resting]
  BY DEF Crash, Blame
<1>2. IsStep(over) /\ over.pc = "done" /\ over.on = "none"
  BY DEF IsStep, Resting
<1>3. open \in BOOLEAN
  OBVIOUS
<1> HIDE DEF over, open
<1>4. c \in Calls /\ c.stop = "none" /\ ~c.missing /\ c.answer = "none" /\ c.heard = "none"
  BY <1>3 DEF NoCall, Calls, Statuses
<1> HIDE DEF c
<1>5. /\ \A w \in Worker \ {"delegate"} : work'[w] = Resting
      /\ work'["delegate"] = IF work["delegate"].pc # "idle" THEN over ELSE Resting
  BY <1>1, Workers
<1>6. Works(work')
  <2>1. \A w \in Worker : IsStep(work'[w])
    BY <1>2, <1>5, IdleIs
  <2>2. work' = [v \in Worker |-> work'[v]]
    BY <1>1
  <2> QED
    BY <2>1, <2>2 DEF Works
<1>7. att' \in Attempts
  BY <1>1, AttemptType, ConstantsAre
<1>8. HostKept
  <2>1. host' \notin {"sent", "busy"} /\ host' \in {"none", "sent", "busy", "result", "error", "quiet"}
    BY <1>1 DEF TypeOK
  <2>2. events' \in Seq({"busy", "idle", "deleted"})
    BY <1>1
  <2> QED
    BY <1>1, <2>1, <2>2 DEF HostKept, TypeOK
<1>9. rec' \in Record /\ (rec'.at = "none" => rec' = NoRecord)
  BY <1>1 DEF TypeOK
<1>10. lock' \in BOOLEAN /\ call' \in Calls /\ timers' \subseteq {"settle", "cancel", "tomb"}
  BY <1>1, <1>4
<1>11. TypeOK'
  BY <1>1, <1>6, <1>7, <1>8, <1>9, <1>10, TypesAgain
<1> QED
  BY <1>1, <1>2, <1>4, <1>5, <1>11, IdleIs

LEMMA RecoverIs ==
    ASSUME TypeOK, RecoverSession
    PROVE  /\ TypeOK' /\ UNCHANGED <<host, gone, events, rec, att, lock, timers, call>>
           /\ phase' = (IF phase = "down" THEN "serving" ELSE phase)
           /\ Steps(work', work, {"recover"}) /\ \A v \in Worker \ {"recover"} : work'[v] = work[v]
           /\ work'["recover"].pc = "read" /\ work'["recover"].on = "none"
<1>1. /\ UNCHANGED <<host, gone, events, rec, att, lock, timers, call>>
      /\ phase' = (IF phase = "down" THEN "serving" ELSE phase)
      /\ work' = Goto(work, "recover", "read")
  BY DEF RecoverSession, HostRests
<1>2. /\ Steps(work', work, {"recover"}) /\ \A v \in Worker \ {"recover"} : work'[v] = work[v]
      /\ work'["recover"].pc = "read" /\ work'["recover"].on = "none"
  BY <1>1, GoesOn, Workers DEF TypeOK
<1>4. Works(work') /\ phase' \in {"serving", "flushing", "flushed", "closed", "down"}
  BY <1>1, <1>2 DEF TypeOK, Steps
<1>3. TypeOK'
  BY <1>1, <1>4 DEF TypeOK, Works, IsStep
<1> QED
  BY <1>1, <1>2, <1>3

-----------------------------------------------------------------------------
(* The types hold *)

\* The types hold at first.
LEMMA TypesInit == AttemptInit => TypeOK
<1> SUFFICES ASSUME AttemptInit PROVE TypeOK
  OBVIOUS
<1>1. Works(work)
  <2>1. work = [w \in Worker |-> Resting]
    BY DEF AttemptInit
  <2>2. \A w \in Worker : work[w] = Resting
    BY <2>1
  <2> QED
    BY <2>1, <2>2, IdleIs DEF Works
<1>2. rec = NoRecord /\ att = Attempt(NoRecord) /\ call = NoCall
  BY DEF AttemptInit
<1>3. rec \in Record /\ att \in Attempts /\ call \in Calls
  BY <1>2, ConstantsAre, CallIs, AttemptType
<1>4. events \in Seq({"busy", "idle", "deleted"})
  BY DEF AttemptInit
<1> QED
  BY <1>1, <1>2, <1>3, <1>4 DEF AttemptInit, TypeOK

\* The actions that stay within their phase, by who goes on.
LEMMA SoundSteps ==
    ASSUME TypeOK
    PROVE  /\ Microtask => \/ \E w \in Worker : Sound(w)
                           \/ FlushNext \/ FlushFails
           /\ Promise => \E w \in Worker : Sound(w)
           /\ Caller => (\E w \in Worker : Sound(w)) \/ Locked
           /\ Others => (\E w \in Worker : Sound(w)) \/ BeginEvent \/ FlushBegins
<1>1. ASSUME Microtask
      PROVE  (\E w \in Worker : Sound(w)) \/ FlushNext \/ FlushFails
  BY <1>1, Workers, SettleBeginIs, SettleShownIs, FenceBuriedIs, StopBeginIs, StopFencedIs, StopSettledIs,
     MarkedIs, WaitedIs, MissedIs, EventHandledIs, SettleTimerEndsIs, TimersAre, StopFencesIs, FlushAgainIs,
     ReportedIs, PredispatchIs, UnsentIs, JudgedIs, ClosingIs DEF Microtask
<1>2. ASSUME Promise
      PROVE  \E w \in Worker : Sound(w)
  BY <1>2, Workers, SettleCollectIs, SettleConfirmIs, SettleWriteIs, EvidenceCollectIs, EvidenceWriteIs,
     FenceCollectIs, FenceWriteIs, TombstoneLookIs, TombstoneCreateIs, StopCancelIs DEF Promise
<1>3. ASSUME Caller
      PROVE  (\E w \in Worker : Sound(w)) \/ Locked
  BY <1>3, Workers, PreparedIs, AdmittedIs, CreatedIs, AttendedIs, SentIs, AnsweredIs, RejectedIs,
     UndispatchedIs, StoppingIs, InspectOwnIs, RetainedLockIs DEF Caller
<1>4. ASSUME Others
      PROVE  (\E w \in Worker : Sound(w)) \/ BeginEvent \/ FlushBegins
  BY <1>4, Workers, InspectIs, MissingCancelIs, UntoldIs, LateEventIs, DeletedCancelIs, StopsTurnIs,
     RecoverReadIs, RecoverLocksIs, SettleTimerIs, TimersAre DEF Others
<1> QED
  BY <1>1, <1>2, <1>3, <1>4

\* Every step keeps the types.
LEMMA TypesStep ==
    ASSUME TypeOK, [AttemptNext]_attemptVars
    PROVE  TypeOK'
<1>1. CASE UNCHANGED attemptVars
  BY <1>1 DEF attemptVars, TypeOK, Works, IsStep
<1>2. CASE \E w \in Worker : Sound(w)
  BY <1>2, SoundTypes
<1>3. CASE FlushNext \/ FlushBegins
  BY <1>3, FlushLoopTypes DEF FlushNext, FlushBegins
<1>4. CASE FlushFails
  BY <1>4, FlushFailsIs
<1>5. CASE Locked
  BY <1>5, LockedIs
<1>6. CASE BeginEvent
  BY <1>6, BeginEventIs, TypesAgain DEF Steps, TypeOK
<1>7. CASE Host
  BY <1>7, HostIs, SoundTypes
<1>8. CASE Delegate \/ AbortCall
  BY <1>8, DelegateIs, AbortIs, SoundTypes
<1>9. CASE Flush
  BY <1>9, FlushIs
<1>10. CASE Lifecycle
  BY <1>10, LifecycleIs
<1>11. CASE Crash
  BY <1>11, CrashIs
<1>12. CASE RecoverSession
  BY <1>12, RecoverIs
<1> QED
  BY <1>1, <1>2, <1>3, <1>4, <1>5, <1>6, <1>7, <1>8, <1>9, <1>10, <1>11, <1>12, SoundSteps DEF AttemptNext

-----------------------------------------------------------------------------
(* A flush and what it leaves *)

\* w, which is under way, goes on.
Goes(w) ==
    /\ w = "delegate" => At(w) \notin Ended \cup {"admit", "create"}
    /\ w \in {"event", "recover"} => At(w) # "idle"
    /\ w = "recover" /\ At(w) = "authority" => att'.tracked
    /\ w = "flush" => At(w) \notin {"idle", "inflight"}

\* Only a call, recovery or a timer that finds no child make an attempt remembered.
Remembers(w) ==
    w \notin {"delegate", "event", "flush", "recover"} =>
      (att'.tracked => att.tracked \/ Revives)

Going(w) == Sound(w) /\ Goes(w) /\ Remembers(w)

\* A worker that has begun goes on; it begins nothing of a flush.
LEMMA GoingOwn ==
    ASSUME NEW w \in {"delegate", "event", "flush", "recover"}, NEW pc, Sound(w), Ready(w, pc),
           pc \notin {"idle", "done", "admit", "create", "inflight", "authority"}
    PROVE  Going(w)
  BY DEF Going, Goes, Remembers, Ready, Ended, At

LEMMA GoingOther ==
    ASSUME NEW w, w \notin {"delegate", "event", "flush", "recover"}, Sound(w),
           att'.tracked => att.tracked \/ Revives
    PROVE  Going(w)
  BY DEF Going, Goes, Remembers

LEMMA SettlementGoing ==
    ASSUME TypeOK
    PROVE  SettleBegin \/ SettleShown \/ SettleCollect \/ SettleConfirm \/ SettleWrite => Going("S")
<1>a. att \in Attempts /\ Works(work)
  BY DEF TypeOK
<1>1. ASSUME SettleBegin PROVE Going("S")
  <2>1. att' = att
    BY <1>1 DEF SettleBegin, Gives
  <2> QED
    BY <1>1, <2>1, SettleBeginIs, GoingOther
<1>2. ASSUME SettleShown PROVE Going("S")
  <2>1. att' = att
    BY <1>2 DEF SettleShown, SettlementFails
  <2> QED
    BY <1>2, <2>1, SettleShownIs, GoingOther
<1>3. ASSUME SettleCollect PROVE Going("S")
  <2>1. att'.tracked => att.tracked
    BY <1>3 DEF SettleCollect, Gives, SettlementFails
  <2> QED
    BY <1>3, <2>1, SettleCollectIs, GoingOther
<1>4. ASSUME SettleConfirm PROVE Going("S")
  <2> DEFINE d == Candidate(att)
  <2> HIDE DEF d
  <2>1. \/ att' = att
        \/ att' = [att EXCEPT !.draft = d, !.ids = IF Written(att) THEN att.ids ELSE {}]
    BY <1>4 DEF SettleConfirm, SettlementFails, d
  <2>2. att'.tracked => att.tracked
    BY <1>a, <2>1 DEF Attempts
  <2> QED
    BY <1>4, <2>2, SettleConfirmIs, GoingOther
<1>5. ASSUME SettleWrite PROVE Going("S")
  <2>1. \/ att' = att \/ \E c, t : att' = [att EXCEPT !.cancel = c, !.term = t]
        \/ att' = [att EXCEPT !.ids = {}]
        \/ ReleaseAttempt
    BY <1>5 DEF SettleWrite, SettlementFails
  <2>2. att'.tracked => att.tracked
    BY <1>a, <2>1, ReleaseIs DEF Attempts
  <2> QED
    BY <1>5, <2>2, SettleWriteIs, GoingOther
<1> QED
  BY <1>1, <1>2, <1>3, <1>4, <1>5

LEMMA PromisesGoing ==
    ASSUME TypeOK
    PROVE  /\ EvidenceCollect \/ EvidenceWrite => Going("P")
           /\ FenceCollect \/ FenceWrite \/ FenceBuried => Going("C")
           /\ TombstoneLook \/ TombstoneCreate => Going("M")
           /\ StopBegin \/ StopFenced \/ StopCancel \/ StopSettled => Going("H")
<1>a. att \in Attempts /\ Works(work)
  BY DEF TypeOK
<1>1. ASSUME EvidenceCollect PROVE Going("P")
  <2>1. att'.tracked => att.tracked
    BY <1>1 DEF EvidenceCollect, Gives
  <2> QED
    BY <1>1, <2>1, EvidenceCollectIs, GoingOther
<1>2. ASSUME EvidenceWrite PROVE Going("P")
  <2>1. att'.tracked => att.tracked
    BY <1>2 DEF EvidenceWrite, Gives
  <2> QED
    BY <1>2, <2>1, EvidenceWriteIs, GoingOther
<1>3. ASSUME FenceCollect PROVE Going("C")
  <2>1. att'.tracked => att.tracked
    BY <1>3 DEF FenceCollect, Gives
  <2> QED
    BY <1>3, <2>1, FenceCollectIs, GoingOther
<1>4. ASSUME FenceWrite PROVE Going("C")
  <2>1. att'.tracked => att.tracked
    BY <1>4 DEF FenceWrite, Gives
  <2> QED
    BY <1>4, <2>1, FenceWriteIs, GoingOther
<1>5. ASSUME FenceBuried PROVE Going("C")
  <2>1. att' = att
    BY <1>5 DEF FenceBuried, Gives
  <2> QED
    BY <1>5, <2>1, FenceBuriedIs, GoingOther
<1>6. ASSUME TombstoneLook PROVE Going("M")
  <2>1. att'.tracked => att.tracked
    BY <1>6 DEF TombstoneLook, Gives
  <2> QED
    BY <1>6, <2>1, TombstoneLookIs, GoingOther
<1>7. ASSUME TombstoneCreate PROVE Going("M")
  <2>1. att'.tracked => att.tracked
    BY <1>7 DEF TombstoneCreate
  <2> QED
    BY <1>7, <2>1, TombstoneCreateIs, GoingOther
<1>8. ASSUME StopBegin PROVE Going("H")
  <2>1. att'.tracked => att.tracked
    BY <1>8 DEF StopBegin, Gives
  <2> QED
    BY <1>8, <2>1, StopBeginIs, GoingOther
<1>9. ASSUME StopFenced PROVE Going("H")
  <2>1. att' = att
    BY <1>9 DEF StopFenced, Gives
  <2> QED
    BY <1>9, <2>1, StopFencedIs, GoingOther
<1>10. ASSUME StopCancel PROVE Going("H")
  <2>1. att' = att \/ att.tracked
    BY <1>10 DEF StopCancel
  <2> QED
    BY <1>10, <2>1, StopCancelIs, GoingOther
<1>11. ASSUME StopSettled PROVE Going("H")
  <2>1. att' = att
    BY <1>11 DEF StopSettled, Gives
  <2> QED
    BY <1>11, <2>1, StopSettledIs, GoingOther
<1> QED
  BY <1>1, <1>2, <1>3, <1>4, <1>5, <1>6, <1>7, <1>8, <1>9, <1>10, <1>11

LEMMA InspectorsGoing ==
    ASSUME TypeOK, NEW w \in Inspector,
           Inspect(w) \/ Marked(w) \/ Waited(w) \/ Missed(w) \/ MissingCancel(w) \/ Untold(w)
    PROVE  Going(w)
<1>1. Sound(w)
  BY InspectIs, MarkedIs, WaitedIs, MissedIs, MissingCancelIs, UntoldIs
<1>2. PICK pc \in {"reconcile", "known", "active", "settled", "evident", "buried", "missing", "missed", "untold"} :
        Ready(w, pc)
  BY DEF Inspect, Marked, Waited, Missed, MissingCancel, Untold
<1>3. CASE w # "settleTimer"
  BY <1>1, <1>2, <1>3, GoingOwn DEF Inspector
<1>4. CASE w = "settleTimer"
  <2>1. att'.tracked => att.tracked \/ Revives
    <3>1. CASE Inspect(w)
      <4>1. PICK x \in Seen \cup {Unknown} : Judge(w, x, work[w].pc = "known")
        BY <3>1 DEF Inspect
      <4>2. x \in Inspection
        BY SeenType, ConstantsAre DEF TypeOK
      <4> HIDE DEF Judge
      <4>3. att'.tracked = att.tracked
        BY <1>4, <4>1, <4>2, JudgeIs
      <4> QED
        BY <4>3
    <3>2. CASE Marked(w) \/ Waited(w) \/ Untold(w)
      <4>1. att' = att
        BY <3>2 DEF Marked, Waited, Untold, GoesBack
      <4> QED
        BY <4>1
    <3>3. CASE Missed(w)
      <4>1. \E res : work' = Back(work, w, res)
        BY <3>3 DEF Missed, GoesBack
      <4>2. work'[w].pc = "expired" /\ work[w].pc = "missed"
        BY <1>4, <3>3, <4>1, GoesBackOwn DEF BackPc, Missed, Ready
      <4> QED
        BY <1>4, <4>2 DEF Revives
    <3>4. CASE MissingCancel(w)
      <4>1. work[w].pc = "missing" /\ w \in Worker /\ Works(work)
        BY <3>4, Workers DEF MissingCancel, Ready, TypeOK
      <4>2. CASE Retained(w)
        <5>1. work' = Awaits(work, w, "M", "buried") \/ work' = Goto(work, w, "untold")
          BY <4>2 DEF Retained
        <5>2. work'[w].pc \in {"buried", "untold"}
          BY <1>4, <4>1, <5>1, AwaitsOwn, GotoOwn, Workers
        <5> QED
          BY <1>4, <4>1, <5>2 DEF Revives
      <4>3. CASE SettleAttempt(Confirmed(att), IdleSeen, w, "missed")
        <5>1. Confirmed(att) \in Attempts /\ IdleSeen \in Inspection /\ w # "S"
          BY <1>4, <4>1, ConfirmedIs, ConstantsAre DEF TypeOK
        <5>2. work'[w].pc = "missed"
          BY <4>1, <4>3, <5>1, SettleOwn
        <5> QED
          BY <1>4, <4>1, <5>2 DEF Revives
      <4> HIDE DEF Retained, SettleAttempt
      <4> QED
        BY <3>4, <4>2, <4>3 DEF MissingCancel
    <3> QED
      BY <3>1, <3>2, <3>3, <3>4
  <2> QED
    BY <1>1, <1>4, <2>1, GoingOther
<1> QED
  BY <1>3, <1>4

LEMMA OthersGoing ==
    ASSUME TypeOK
    PROVE  /\ LateEvent \/ DeletedCancel \/ EventHandled => Going("event")
           /\ FlushAgain => Going("flush")
           /\ RecoverRead \/ RecoverLocks => Going("recover")
           /\ SettleTimer \/ SettleTimerEnds => Going("settleTimer")
           /\ CancelTimer => Going("cancelTimer")
           /\ TombTimer => Going("tombTimer")
           /\ TimerEnds => Going("cancelTimer") \/ Going("tombTimer")
           /\ StopFences \/ StopsTurn \/ AbortCall => Going("stop")
<1>a. att \in Attempts /\ Works(work)
  BY DEF TypeOK
<1>1. ASSUME LateEvent \/ DeletedCancel \/ EventHandled PROVE Going("event")
  <2>1. \E pc \in {"late", "deleted", "handled", "dropped", "thrown"} : Ready("event", pc)
    BY <1>1 DEF LateEvent, DeletedCancel, EventHandled
  <2> QED
    BY <1>1, <2>1, LateEventIs, DeletedCancelIs, EventHandledIs, GoingOwn
<1>2. ASSUME FlushAgain PROVE Going("flush")
  BY <1>2, FlushAgainIs, GoingOwn DEF FlushAgain
<1>3. ASSUME RecoverRead \/ RecoverLocks PROVE Going("recover")
  <2>1. CASE RecoverRead
    BY <2>1, RecoverReadIs, GoingOwn DEF RecoverRead
  <2>2. CASE RecoverLocks
    <3>1. att'.tracked /\ At("recover") = "authority" /\ Sound("recover")
      BY <1>a, <2>2, RecoverLocksIs DEF RecoverLocks, Ready, At, Attempts
    <3> QED
      BY <3>1 DEF Going, Goes, Remembers
  <2> QED
    BY <1>3, <2>1, <2>2
<1>4. ASSUME SettleTimer PROVE Going("settleTimer")
  <2>1. att' = att \/ att.tracked
    BY <1>4 DEF SettleTimer
  <2> QED
    BY <1>4, <2>1, SettleTimerIs, GoingOther
<1>5. ASSUME SettleTimerEnds PROVE Going("settleTimer")
  BY <1>5, SettleTimerEndsIs, GoingOther DEF SettleTimerEnds
<1>6. ASSUME CancelTimer PROVE Going("cancelTimer")
  BY <1>6, TimersAre, GoingOther DEF CancelTimer, Timer
<1>7. ASSUME TombTimer PROVE Going("tombTimer")
  BY <1>7, TimersAre, GoingOther DEF TombTimer, Timer
<1>8. ASSUME TimerEnds PROVE Going("cancelTimer") \/ Going("tombTimer")
  <2>1. att' = att
    BY <1>8 DEF TimerEnds
  <2>2. PICK w \in {"cancelTimer", "tombTimer"} : Sound(w)
    BY <1>8, TimersAre
  <2> QED
    BY <2>1, <2>2, GoingOther
<1>9. ASSUME StopFences PROVE Going("stop")
  BY <1>9, StopFencesIs, GoingOther DEF StopFences
<1>10. ASSUME StopsTurn PROVE Going("stop")
  BY <1>10, StopsTurnIs, GoingOther DEF StopsTurn
<1>11. ASSUME AbortCall PROVE Going("stop")
  <2>1. att'.tracked = att.tracked
    <3>1. CASE UNCHANGED <<att, work>>
      BY <3>1
    <3>2. CASE att' = Cancelled(call, att, work).a
      BY <1>a, <3>2, CancelledIs DEF TypeOK
    <3> QED
      BY <1>11, <3>1, <3>2 DEF AbortCall
  <2> QED
    BY <1>11, <2>1, AbortIs, GoingOther
<1> QED
  BY <1>1, <1>2, <1>3, <1>4, <1>5, <1>6, <1>7, <1>8, <1>9, <1>10, <1>11

LEMMA CallGoing ==
    ASSUME TypeOK, Caller \/ Reported \/ Predispatch \/ Unsent \/ Judged \/ Closing
    PROVE  Going("delegate") \/ Locked \/ Admitted \/ Created
<1>1. ASSUME Prepared PROVE Going("delegate")
  BY <1>1, PreparedIs, GoingOwn DEF Prepared
<1>2. ASSUME Attended PROVE Going("delegate")
  <2>1. \E pc \in {"after", "session"} : Ready("delegate", pc)
    BY <1>2 DEF Attended
  <2> QED
    BY <1>2, <2>1, AttendedIs, GoingOwn
<1>3. ASSUME Sent PROVE Going("delegate")
  BY <1>3, SentIs, GoingOwn DEF Sent
<1>4. ASSUME Answered PROVE Going("delegate")
  BY <1>4, AnsweredIs, GoingOwn DEF Answered
<1>5. ASSUME Rejected PROVE Going("delegate")
  BY <1>5, RejectedIs, GoingOwn DEF Rejected
<1>6. ASSUME Undispatched PROVE Going("delegate")
  BY <1>6, UndispatchedIs, GoingOwn DEF Undispatched
<1>7. ASSUME Stopping PROVE Going("delegate")
  BY <1>7, StoppingIs, GoingOwn DEF Stopping
<1>8. ASSUME InspectOwn PROVE Going("delegate")
  BY <1>8, InspectOwnIs, GoingOwn DEF InspectOwn
<1>9. ASSUME RetainedLock PROVE Going("delegate")
  BY <1>9, RetainedLockIs, GoingOwn DEF RetainedLock
<1>10. ASSUME Reported PROVE Going("delegate")
  BY <1>10, ReportedIs, GoingOwn DEF Reported
<1>11. ASSUME Predispatch PROVE Going("delegate")
  BY <1>11, PredispatchIs, GoingOwn DEF Predispatch
<1>12. ASSUME Unsent PROVE Going("delegate")
  <2>1. \E pc \in {"unmade", "unsent"} : Ready("delegate", pc)
    BY <1>12 DEF Unsent
  <2> QED
    BY <1>12, <2>1, UnsentIs, GoingOwn
<1>13. ASSUME Judged PROVE Going("delegate")
  BY <1>13, JudgedIs, GoingOwn DEF Judged
<1>14. ASSUME Closing PROVE Going("delegate")
  BY <1>14, ClosingIs, GoingOwn DEF Closing
<1> QED
  BY <1>1, <1>2, <1>3, <1>4, <1>5, <1>6, <1>7, <1>8, <1>9, <1>10, <1>11, <1>12, <1>13, <1>14 DEF Caller

\* Every step of a worker, but the few that FlushRight looks into.
LEMMA GoingSteps ==
    ASSUME TypeOK, Microtask \/ Promise \/ Caller \/ Others \/ AbortCall
    PROVE  \/ \E w \in Worker : Going(w)
           \/ FlushNext \/ FlushFails \/ FlushBegins \/ Locked \/ Admitted \/ Created \/ BeginEvent
<1>1. ASSUME Microtask
      PROVE  (\E w \in Worker : Going(w)) \/ FlushNext \/ FlushFails \/ Locked \/ Admitted \/ Created
  BY <1>1, Workers, SettlementGoing, PromisesGoing, InspectorsGoing, OthersGoing, CallGoing DEF Microtask
<1>2. ASSUME Promise
      PROVE  \E w \in Worker : Going(w)
  BY <1>2, Workers, SettlementGoing, PromisesGoing DEF Promise
<1>3. ASSUME Others
      PROVE  (\E w \in Worker : Going(w)) \/ BeginEvent \/ FlushBegins
  BY <1>3, Workers, InspectorsGoing, OthersGoing DEF Others
<1>4. ASSUME Caller \/ AbortCall
      PROVE  (\E w \in Worker : Going(w)) \/ Locked \/ Admitted \/ Created
  BY <1>4, Workers, OthersGoing, CallGoing
<1> QED
  BY <1>1, <1>2, <1>3, <1>4

\* A worker that goes on leaves what flush relies on.
LEMMA FlushKeeps ==
    ASSUME TypeOK, FlushRight, NEW w \in Worker, Going(w)
    PROVE  FlushRight'
<1>1. \A v \in {"delegate", "event", "flush", "recover"} : v # w => work'[v].pc = work[v].pc
  <2>1. ASSUME NEW v \in {"delegate", "event", "flush", "recover"}, v # w
        PROVE  work'[v].pc = work[v].pc
    <3>1. v \in Worker \ Own(w)
      BY <2>1, Workers DEF Own, Promises
    <3> QED
      BY <3>1 DEF Going, Sound, Steps, Stays
  <2> QED
    BY <2>1
<1>2. phase' = phase
      /\ (host' \in {"sent", "busy"} => host \in {"sent", "busy"} \/ phase # "down")
  BY DEF Going, Sound, HostKept
<1>3. (At("flush") # "idle" => phase = "flushing")'
  BY <1>1, <1>2 DEF FlushRight, At, Going, Goes
<1>4. ASSUME (At("flush") \notin {"idle", "inflight"} \/ phase \in {"flushed", "closed", "down"})'
      PROVE  (At("delegate") \in Ended /\ At("event") = "idle")'
  <2>1. At("flush") \notin {"idle", "inflight"} \/ phase \in {"flushed", "closed", "down"}
    BY <1>1, <1>2, <1>4 DEF At, Going, Goes
  <2>2. At("delegate") \in Ended /\ At("event") = "idle"
    BY <2>1 DEF FlushRight
  <2>3. w \notin {"delegate", "event"}
    BY <2>2 DEF Going, Goes
  <2> QED
    BY <1>1, <2>2, <2>3 DEF At
<1>5. (phase = "down" => host \notin {"sent", "busy"})'
  BY <1>2 DEF FlushRight
<1>6. (lock => att.tracked \/ At("recover") = "authority" \/ At("delegate") \in {"admit", "create"})'
  BY <1>1, <1>2 DEF FlushRight, At, Going, Goes, Sound, LockKept
<1> QED
  BY <1>3, <1>4, <1>5, <1>6 DEF FlushRight

\* Every step keeps what flush relies on.
LEMMA FlushStep ==
    ASSUME TypeOK, FlushRight, [AttemptNext]_attemptVars
    PROVE  FlushRight'
<1>u. /\ "delegate" \in Worker /\ "event" \in Worker /\ "flush" \in Worker /\ "recover" \in Worker
      /\ "delegate" \notin Promises \cup {"stop"} /\ "event" \notin Promises \cup {"stop"}
      /\ "flush" \notin Promises \cup {"stop"} /\ "recover" \notin Promises \cup {"stop"}
  BY Workers DEF Promises
<1>1. CASE UNCHANGED attemptVars
  BY <1>1 DEF attemptVars, FlushRight, At
<1>2. CASE \E w \in Worker : Going(w)
  BY <1>2, FlushKeeps
<1>3. ASSUME FlushNext \/ FlushBegins PROVE FlushRight'
  <2>1. FlushLoop /\ At("delegate") \in Ended /\ At("event") = "idle" /\ At("flush") # "idle"
    BY <1>3 DEF FlushNext, FlushBegins, FlushRight, Ready, At, Ended
  <2>2. Steps(work', work, {"flush"} \cup Promises)
    BY <2>1, FlushLoopIs
  <2>3. \A v \in {"delegate", "event", "recover"} : work'[v].pc = work[v].pc
    BY <1>u, <2>2 DEF Steps, Stays
  <2>4. /\ ~att.tracked => phase' = "flushed" /\ work'["flush"].pc = "idle"
        /\ att.tracked => phase' = phase
        /\ UNCHANGED <<att, lock, host>>
    BY <2>1, FlushLoopIs
  <2>5. phase = "flushing"
    BY <2>1 DEF FlushRight
  <2> QED
    BY <2>1, <2>3, <2>4, <2>5 DEF FlushRight, At
<1>4. ASSUME FlushFails PROVE FlushRight'
  <2>1. /\ phase' = "serving" /\ UNCHANGED <<att, lock>> /\ HostKept
        /\ work'["flush"].pc = "idle" /\ work'["recover"].pc = work["recover"].pc
        /\ work'["delegate"].pc = work["delegate"].pc
    BY <1>4, <1>u, FlushFailsIs DEF Steps, Stays
  <2> QED
    BY <2>1 DEF FlushRight, At, HostKept
<1>5. ASSUME Locked PROVE FlushRight'
  <2>1. /\ At("delegate") = "lock" /\ phase' = phase /\ HostKept /\ att'.tracked = att.tracked
        /\ work'["delegate"].pc = "admit" \/ ~lock'
    BY <1>5, LockedIs DEF Locked, Ready, At
  <2>2. \A v \in {"flush", "recover"} : work'[v].pc = work[v].pc
    BY <1>5, <1>u, LockedIs DEF Own, Steps, Stays
  <2> QED
    BY <2>1, <2>2 DEF FlushRight, At, HostKept, Ended
<1>6. ASSUME Admitted \/ Created PROVE FlushRight'
  <2>1. /\ At("delegate") \in {"admit", "create"} /\ Sound("delegate")
        /\ work'["delegate"].pc = "create" \/ att'.tracked \/ ~lock'
    BY <1>6, AdmittedIs, CreatedIs DEF Admitted, Created, Ready, At
  <2>2. \A v \in {"flush", "recover"} : work'[v].pc = work[v].pc
    BY <2>1, <1>u DEF Own, Sound, Steps, Stays
  <2>3. phase' = phase /\ HostKept
    BY <2>1 DEF Sound
  <2> QED
    BY <2>1, <2>2, <2>3 DEF FlushRight, At, HostKept, Ended
<1>7. ASSUME BeginEvent PROVE FlushRight'
  <2>1. phase' = phase /\ HostKept /\ LockKept /\ phase \notin {"closed", "down"}
    BY <1>7, BeginEventIs DEF BeginEvent
  <2>2. \A v \in {"delegate", "flush", "recover"} : work'[v].pc = work[v].pc
    BY <1>7, <1>u, BeginEventIs DEF Own, Steps, Stays
  <2>3. Quiescing => work'["event"].pc = work["event"].pc
    BY <1>7, <1>u, BeginEventIs DEF Steps, Stays
  <2>4. phase = "serving" \/ Quiescing
    BY <2>1 DEF TypeOK, Quiescing
  <2> QED
    BY <2>1, <2>2, <2>3, <2>4 DEF FlushRight, At, HostKept, LockKept
<1>8. ASSUME Delegate PROVE FlushRight'
  <2>1. /\ phase' = phase /\ phase = "serving" /\ HostKept /\ LockKept /\ At("delegate") = "idle"
    BY <1>8, DelegateIs DEF Delegate, Active, Sound, At
  <2>2. \A v \in {"event", "flush", "recover"} : work'[v].pc = work[v].pc
    BY <1>8, <1>u, DelegateIs DEF Sound, Own, Steps, Stays
  <2> QED
    BY <2>1, <2>2 DEF FlushRight, At, HostKept, LockKept
<1>9. ASSUME Host PROVE FlushRight'
  <2>1. UNCHANGED <<att, lock, call, work, timers, phase>> /\ HostKept
    BY <1>9, HostIs DEF Sound
  <2> QED
    BY <2>1 DEF FlushRight, At, HostKept
<1>10. ASSUME Flush PROVE FlushRight'
  <2>1. /\ phase' = "flushing" /\ phase = "serving" /\ HostKept /\ lock' = lock /\ att'.tracked = att.tracked
        /\ work'["flush"].pc = "inflight"
    BY <1>10, FlushIs
  <2>2. \A v \in {"delegate", "event", "recover"} : work'[v].pc = work[v].pc
    BY <1>10, <1>u, FlushIs, Workers DEF Steps, Stays
  <2> QED
    BY <2>1, <2>2 DEF FlushRight, At, HostKept
<1>11. CASE Lifecycle
  BY <1>11, LifecycleIs DEF FlushRight, At, HostKept
<1>12. ASSUME Crash PROVE FlushRight'
  <2>1. \A v \in {"event", "flush", "recover"} : work'[v] = Resting
    BY <1>12, <1>u, CrashIs
  <2>2. work'["delegate"].pc \in Ended
    BY <1>12, CrashIs DEF Ended
  <2> QED
    BY <1>12, <2>1, <2>2, CrashIs, IdleIs DEF FlushRight, At
<1>13. ASSUME RecoverSession PROVE FlushRight'
  <2>1. \A v \in {"delegate", "event", "flush"} : work'[v] = work[v]
    BY <1>13, <1>u, RecoverIs
  <2>2. UNCHANGED <<host, att, lock>> /\ phase' = (IF phase = "down" THEN "serving" ELSE phase)
    BY <1>13, RecoverIs
  <2>3. At("recover") = "idle"
    BY <1>13 DEF RecoverSession, At
  <2> QED
    BY <2>1, <2>2, <2>3 DEF FlushRight, At
<1> QED
  BY <1>1, <1>2, <1>3, <1>4, <1>5, <1>6, <1>7, <1>8, <1>9, <1>10, <1>11, <1>12, <1>13, GoingSteps DEF AttemptNext

\* Nothing is left of a flush: who could bring an attempt back has ended.
Settled == phase \in {"flushed", "closed"} /\ ~meddled => At("recover") = "idle" /\ ~att.tracked

\* After a flush nobody remembers the attempt again, but for what meddles.
LEMMA SettledStep ==
    ASSUME TypeOK, FlushRight, FlushRight', Settled, [AttemptNext]_attemptVars
    PROVE  Settled'
<1> SUFFICES ASSUME phase' \in {"flushed", "closed"}, ~meddled'
             PROVE  work'["recover"].pc = "idle" /\ ~att'.tracked
  BY DEF Settled, At
<1>1. CASE UNCHANGED attemptVars
  BY <1>1 DEF attemptVars, Settled, At
<1> SUFFICES ASSUME AttemptNext PROVE work'["recover"].pc = "idle" /\ ~att'.tracked
  BY <1>1
<1>r. ~meddled /\ ~Revives /\ work'["recover"].pc = "idle"
  BY DEF AttemptNext
<1>2. ASSUME NEW w \in Worker, Going(w) PROVE ~att'.tracked
  <2>1. phase' = phase
    BY <1>2 DEF Going, Sound
  <2>2. ~att.tracked /\ At("recover") = "idle"
    BY <1>r, <2>1 DEF Settled
  <2>3. At("delegate") \in Ended /\ At("event") = "idle" /\ At("flush") = "idle" /\ At("recover") = "idle"
    BY <2>1, <2>2 DEF FlushRight
  <2>4. w \notin {"delegate", "event", "flush", "recover"}
    BY <1>2, <2>3 DEF Going, Goes
  <2> QED
    BY <1>2, <1>r, <2>2, <2>4 DEF Going, Remembers, At
<1>3. ASSUME FlushNext \/ FlushBegins PROVE ~att'.tracked
  <2>1. FlushLoop /\ phase = "flushing"
    BY <1>3 DEF FlushNext, FlushBegins, FlushRight, Ready, At
  <2> QED
    BY <2>1, FlushLoopIs
<1>4. CASE FlushFails
  BY <1>4, FlushFailsIs
<1>5. CASE Locked
  BY <1>5, LockedIs DEF Locked, Ready, FlushRight, At, Ended
<1>6. ASSUME Admitted \/ Created PROVE ~att'.tracked
  BY <1>6, AdmittedIs, CreatedIs DEF Admitted, Created, Ready, FlushRight, At, Ended, Sound
<1>7. ASSUME BeginEvent PROVE ~att'.tracked
  <2>1. phase' = phase
    BY <1>7, BeginEventIs
  <2>2. ~att.tracked /\ Quiescing
    BY <1>7, <1>r, <2>1 DEF Settled, Quiescing, BeginEvent
  <2>3. att' = att
    BY <1>7, <2>2 DEF BeginEvent, Dropped
  <2> QED
    BY <2>2, <2>3
<1>8. CASE Delegate
  BY <1>8, DelegateIs DEF Delegate, Active, Sound
<1>9. ASSUME Host PROVE ~att'.tracked
  <2>1. UNCHANGED <<att, phase>>
    BY <1>9, HostIs
  <2> QED
    BY <1>r, <2>1 DEF Settled
<1>10. CASE Flush
  BY <1>10, FlushIs
<1>11. CASE Lifecycle
  BY <1>11, <1>r, LifecycleIs
<1>12. CASE Crash
  BY <1>12, CrashIs
<1>13. CASE RecoverSession
  BY <1>13, <1>r, RecoverIs
<1> QED
  BY <1>r, <1>2, <1>3, <1>4, <1>5, <1>6, <1>7, <1>8, <1>9, <1>10, <1>11, <1>12, <1>13, GoingSteps DEF AttemptNext

\* Both hold at first.
LEMMA SettledInit == AttemptInit => FlushRight /\ Settled
<1> SUFFICES ASSUME AttemptInit PROVE FlushRight /\ Settled
  OBVIOUS
<1>1. \A w \in Worker : work[w].pc = "idle"
  BY IdleIs DEF AttemptInit
<1> QED
  BY <1>1, Workers DEF AttemptInit, FlushRight, Settled, At

\* FlushedIsSettled: a flush that succeeds (phase flushed, or closed by dispose)
\* has left neither an attempt nor its lock, however many calls failed, crashes
\* and recoveries there were before it, until a recovery that was under way when
\* it returned or came later, or the settlement timer back from the host, brings
\* the attempt back.
THEOREM FlushLeavesNothing == AttemptSpec => []FlushedIsSettled
<1>1. AttemptInit => TypeOK /\ FlushRight /\ Settled
  BY TypesInit, SettledInit
<1>2. TypeOK /\ FlushRight /\ Settled /\ [AttemptNext]_attemptVars => (TypeOK /\ FlushRight /\ Settled)'
  BY TypesStep, FlushStep, SettledStep
<1>3. TypeOK /\ FlushRight /\ Settled => FlushedIsSettled
  BY DEF FlushRight, Settled, FlushedIsSettled, Ended
<1> QED
  BY <1>1, <1>2, <1>3, PTL DEF AttemptSpec

-----------------------------------------------------------------------------
(* Before the turn is sent *)

\* Nobody sleeping goes on: what is left are the call's own steps, recovery,
\* a flush, the host and whatever may come at any time.
LEMMA QuietSteps ==
    ASSUME Quiet(work), events = <<>>, timers = {}, At("delegate") \in BeforeChild \cup BeforeTurn, AttemptNext
    PROVE  \/ Prepared \/ Locked \/ Admitted \/ Created \/ Attended \/ Sent
           \/ RecoverRead \/ FlushBegins
           \/ Host \/ Delegate \/ AbortCall \/ Flush \/ Lifecycle \/ Crash \/ RecoverSession
<1>w. /\ \A w \in Worker \ {"delegate", "flush", "recover"} : work[w].pc = "idle"
      /\ work["flush"].pc \in {"idle", "inflight"} /\ work["recover"].pc \in {"idle", "read"}
      /\ work["delegate"].pc \in {"idle", "prepare", "lock", "admit", "create", "after", "session", "revalidate"}
  BY IdleIs DEF Quiet, At, BeforeChild, BeforeTurn
<1>p. /\ work["S"].pc = "idle" /\ work["P"].pc = "idle" /\ work["C"].pc = "idle" /\ work["M"].pc = "idle"
      /\ work["H"].pc = "idle" /\ work["stop"].pc = "idle" /\ work["event"].pc = "idle"
      /\ work["settleTimer"].pc = "idle" /\ work["cancelTimer"].pc = "idle" /\ work["tombTimer"].pc = "idle"
  BY <1>w, Workers
<1>1. \A w \in Worker : work[w].pc \in {"idle", "inflight", "read", "prepare", "lock", "admit", "create",
                                        "after", "session", "revalidate"}
  BY <1>w DEF Worker
<1>2. ~Continues
  BY <1>1 DEF Continues, Continuation
<1>3. ~Promise
  <2>1. ~SettleCollect /\ ~SettleConfirm /\ ~SettleWrite /\ ~EvidenceCollect /\ ~EvidenceWrite
    BY <1>p DEF SettleCollect, SettleConfirm, SettleWrite, EvidenceCollect, EvidenceWrite, Ready
  <2>2. ~FenceCollect /\ ~FenceWrite /\ ~TombstoneLook /\ ~TombstoneCreate /\ ~StopCancel
    BY <1>p DEF FenceCollect, FenceWrite, TombstoneLook, TombstoneCreate, StopCancel, Ready
  <2> QED
    BY <2>1, <2>2 DEF Promise
<1>4. ASSUME Caller PROVE Prepared \/ Locked \/ Admitted \/ Created \/ Attended \/ Sent
  <2>1. ~Answered /\ ~Rejected /\ ~Undispatched /\ ~Stopping /\ ~InspectOwn /\ ~RetainedLock
    BY <1>w DEF Answered, Rejected, Undispatched, Stopping, InspectOwn, RetainedLock, Ready
  <2> QED
    BY <1>4, <2>1 DEF Caller
<1>5. ASSUME Others PROVE RecoverRead \/ FlushBegins
  <2>1. ASSUME NEW w \in Inspector PROVE ~Inspect(w) /\ ~MissingCancel(w) /\ ~Untold(w)
    <3>1. w \in Worker
      BY Workers
    <3>2. work[w].pc \notin {"reconcile", "known", "missing", "untold"}
      BY <1>1, <3>1
    <3> QED
      BY <3>2 DEF Inspect, MissingCancel, Untold, Ready
  <2>2. ~BeginEvent /\ ~LateEvent /\ ~DeletedCancel /\ ~StopsTurn
    BY <1>p DEF BeginEvent, LateEvent, DeletedCancel, StopsTurn, Ready
  <2>3. ~SettleTimer /\ ~CancelTimer /\ ~TombTimer
    BY DEF SettleTimer, CancelTimer, TombTimer, Timer
  <2>4. ~RecoverLocks
    BY <1>w DEF RecoverLocks, Ready
  <2> QED
    BY <1>5, <2>1, <2>2, <2>3, <2>4 DEF Others
<1> QED
  BY <1>2, <1>3, <1>4, <1>5 DEF AttemptNext

\* A worker among the three takes a step that leaves the others where they are.
LEMMA QuietKept ==
    ASSUME Quiet(work), NEW w \in {"delegate", "flush", "recover"}, \A v \in Worker \ {w} : work'[v] = work[v],
           work'[w].on = "none",
           w = "flush" => work'[w].pc \in {"idle", "inflight"},
           w = "recover" => work'[w].pc \in {"idle", "read"}
    PROVE  Quiet(work')
  BY Workers DEF Quiet

\* What a signal changes of a call that has sent nothing, in the workers W.
LEMMA CancelledEarly ==
    ASSUME NEW c, NEW a, NEW W, W["delegate"].pc \in BeforeChild
    PROVE  LET r == Cancelled(c, a, W) IN
           /\ r.a = a /\ r.W = W /\ r.c \in {c, [c EXCEPT !.aborted = TRUE]}
  BY DEF Cancelled, BeforeChild

Later(W) == W["delegate"].pc \notin BeforeChild \cup BeforeTurn
Leaves(W) == Later(W) /\ W["delegate"].pc # "reported"

\* Where a call is once its turn was sent or given up.
LEMMA LaterIs ==
    ASSUME NEW W, W["delegate"].pc \in {"turn", "stopping", "inspect", "retained", "reconcile", "active", "evident",
             "settled", "missing", "missed", "untold", "buried", "judged", "closing", "done",
             "undispatched", "predispatch", "unmade", "unsent"}
    PROVE  Leaves(W)
  BY DEF Leaves, Later, BeforeChild, BeforeTurn

LEMMA LaterEnds ==
    ASSUME TypeOK, NEW outcome \in Outcomes, NEW retain \in BOOLEAN, Ends(outcome, retain)
    PROVE  Leaves(work')
  BY EndsIs, LaterIs

LEMMA LaterConclude ==
    ASSUME TypeOK, NEW c \in Calls, Conclude(c)
    PROVE  Leaves(work')
<1>1. work'["delegate"].pc \in {"retained", "closing"}
  BY ConcludeIs DEF Calls
<1> QED
  BY <1>1, LaterIs

LEMMA LaterCaught ==
    ASSUME TypeOK, NEW err, Caught(err)
    PROVE  Leaves(work')
<1>t. Works(work) /\ call \in Calls /\ "delegate" \in Worker
  BY Workers DEF TypeOK
<1>1. ASSUME NEW pc \in {"undispatched", "predispatch"}, work' = Awaits(work, "delegate", "C", pc)
      PROVE  Leaves(work')
  <2>1. work'["delegate"].pc = pc
    BY <1>t, <1>1, AwaitsOwn, Workers
  <2> QED
    BY <2>1, LaterIs
<1>2. ASSUME NEW outcome \in {"failed", "uncertain"}, NEW retain \in BOOLEAN, Ends(outcome, retain)
      PROVE  Leaves(work')
  BY <1>2, LaterEnds DEF Outcomes
<1>3. ASSUME StopsChild PROVE Leaves(work')
  BY <1>3, StopsChildIs, LaterIs
<1>4. ASSUME work' = Inspects(work, "delegate", "inspect") PROVE Leaves(work')
  <2>1. work'["delegate"].pc = "inspect"
    BY <1>t, <1>4, InspectsIs
  <2> QED
    BY <2>1, LaterIs
<1>5. ASSUME Conclude([call EXCEPT !.status = "reported-completed"]) PROVE Leaves(work')
  <2>1. [call EXCEPT !.status = "reported-completed"] \in Calls
    BY <1>t DEF Calls, Statuses
  <2> QED
    BY <1>5, <2>1, LaterConclude
<1> QED
  BY <1>1, <1>2, <1>3, <1>4, <1>5 DEF Caught

LEMMA LaterJudge ==
    ASSUME TypeOK, NEW x \in Inspection, NEW known \in BOOLEAN, Judge("delegate", x, known)
    PROVE  Leaves(work')
<1>t. Works(work) /\ att \in Attempts /\ "delegate" \in Inspector /\ "delegate" \in Worker
  BY Workers DEF TypeOK
<1>1. ASSUME NEW res, work' = Back(work, "delegate", res) PROVE Leaves(work')
  BY <1>t, <1>1, GoesBackOwn DEF Leaves, Later, BeforeChild, BeforeTurn, BackPc
<1>2. ASSUME MarkActive("delegate") PROVE Leaves(work')
  BY <1>t, <1>2, MarkActiveIs DEF Leaves, Later, BeforeChild, BeforeTurn
<1>3. ASSUME HandleMissing(att, "delegate") PROVE Leaves(work')
  BY <1>t, <1>3, HandleMissingIs DEF Leaves, Later, BeforeChild, BeforeTurn, BackPc
<1>4. ASSUME NEW y \in Inspection, SettleAttempt(att, y, "delegate", "settled") PROVE Leaves(work')
  BY <1>t, <1>4, SettleOwn, LaterIs
<1> HIDE DEF MarkActive, HandleMissing, SettleAttempt
<1> QED
  BY <1>1, <1>2, <1>3, <1>4, ConstantsAre DEF Judge, GoesBack

LEMMA LaterInspects ==
    ASSUME TypeOK, Inspect("delegate") \/ Marked("delegate") \/ Waited("delegate") \/ Missed("delegate")
                   \/ MissingCancel("delegate") \/ Untold("delegate")
    PROVE  Leaves(work')
<1>t. Works(work) /\ att \in Attempts /\ "delegate" \in Inspector /\ "delegate" \in Worker
  BY Workers DEF TypeOK
<1>1. ASSUME Inspect("delegate") PROVE Leaves(work')
  <2>1. PICK x \in Seen \cup {Unknown} : Judge("delegate", x, work["delegate"].pc = "known")
    BY <1>1 DEF Inspect
  <2>2. x \in Inspection
    BY SeenType, ConstantsAre DEF TypeOK
  <2> HIDE DEF Judge
  <2> QED
    BY <2>1, <2>2, LaterJudge
<1>2. ASSUME NEW res, work' = Back(work, "delegate", res) PROVE Leaves(work')
  BY <1>t, <1>2, GoesBackOwn DEF Leaves, Later, BeforeChild, BeforeTurn, BackPc
<1>3. ASSUME NEW s \in Promises, NEW pc \in {"evident", "buried"}, work' = Awaits(work, "delegate", s, pc)
      PROVE  Leaves(work')
  <2>1. work'["delegate"].pc = pc
    BY <1>t, <1>3, AwaitsOwn, Workers
  <2> QED
    BY <2>1, LaterIs
<1>4. CASE Marked("delegate")
  BY <1>2, <1>3, <1>4, Workers DEF Marked, GoesBack
<1>5. CASE Waited("delegate") \/ Missed("delegate") \/ Untold("delegate")
  BY <1>2, <1>5 DEF Waited, Missed, Untold, GoesBack
<1>6. ASSUME MissingCancel("delegate") PROVE Leaves(work')
  <2>1. CASE SettleAttempt(Confirmed(att), IdleSeen, "delegate", "missed")
    <3>1. Confirmed(att) \in Attempts
      BY <1>t, ConfirmedIs
    <3> QED
      BY <1>t, <2>1, <3>1, SettleOwn, LaterIs, ConstantsAre
  <2>2. CASE Retained("delegate")
    <3>1. CASE work' = Awaits(work, "delegate", "M", "buried")
      BY <1>3, <3>1, Workers
    <3>2. CASE work' = Goto(work, "delegate", "untold")
      BY <1>t, <3>2, GoesOn DEF Leaves, Later, BeforeChild, BeforeTurn
    <3> QED
      BY <2>2, <3>1, <3>2 DEF Retained
  <2> HIDE DEF SettleAttempt, Retained
  <2> QED
    BY <1>6, <2>1, <2>2 DEF MissingCancel
<1> QED
  BY <1>1, <1>4, <1>5, <1>6

LEMMA TellsLater ==
    ASSUME TypeOK, NEW c \in Calls, NEW retain \in BOOLEAN, Tells(c, retain)
    PROVE  Leaves(work')
  BY TellsIs, LaterEnds

\* From these steps the call goes on to its end.
LEMMA LaterCall ==
    ASSUME TypeOK, \/ Sent \/ Rejected \/ Undispatched \/ Stopping \/ InspectOwn \/ RetainedLock
                   \/ Reported \/ Predispatch \/ Unsent \/ Judged \/ Closing
    PROVE  Leaves(work')
<1>t. Works(work) /\ att \in Attempts /\ call \in Calls /\ "delegate" \in Inspector /\ "delegate" \in Worker
  BY Workers DEF TypeOK
<1>g. ASSUME NEW pc \in {"turn", "stopping", "done"}, work' = Goto(work, "delegate", pc) PROVE Leaves(work')
  BY <1>t, <1>g, GoesOn DEF Leaves, Later, BeforeChild, BeforeTurn
<1>s. ASSUME NEW a \in Attempts, NEW x \in Inspection, NEW pc \in {"unmade", "unsent"},
             SettleAttempt(a, x, "delegate", pc)
      PROVE  Leaves(work')
  BY <1>t, <1>s, SettleOwn, LaterIs
<1>e. ASSUME NEW outcome \in {"completed", "failed", "uncertain"}, NEW retain \in BOOLEAN, Ends(outcome, retain)
      PROVE  Leaves(work')
  BY <1>e, LaterEnds DEF Outcomes
<1>1. CASE Sent
  BY <1>g, <1>1, LaterCaught DEF Sent
<1>2. CASE Rejected
  BY <1>2, LaterCaught DEF Rejected
<1>3. CASE Reported
  BY <1>3, <1>e, LaterCaught DEF Reported
<1>4. CASE Unsent
  BY <1>4, <1>e DEF Unsent
<1>6. ASSUME Undispatched PROVE Leaves(work')
  <2> DEFINE x == [IdleSeen EXCEPT !.status = "cancelled"]
  <2>1. x \in Inspection
    BY DEF IdleSeen, NoInspection, Inspection, Statuses
  <2>2. Ends("uncertain", TRUE) \/ SettleAttempt(att, x, "delegate", "unmade")
    BY <1>6 DEF Undispatched
  <2> HIDE DEF x, SettleAttempt, Ends
  <2> QED
    BY <1>t, <1>e, <1>s, <2>1, <2>2
<1>7. CASE Predispatch
  BY <1>t, <1>7, <1>e, <1>s, ConstantsAre DEF Predispatch
<1>8. ASSUME Stopping PROVE Leaves(work')
  <2> DEFINE c == [call EXCEPT !.status = "cancelled"]
             d == [call EXCEPT !.status = "unknown", !.retain = TRUE, !.uncertain = TRUE]
  <2>1. c \in Calls /\ d \in Calls
    BY <1>t DEF Calls, Statuses
  <2>2. Ends("uncertain", TRUE) \/ Conclude(c) \/ Conclude(d)
    BY <1>8 DEF Stopping
  <2> HIDE DEF c, d, Conclude, Ends
  <2> QED
    BY <1>e, <2>1, <2>2, LaterConclude
<1>9. ASSUME InspectOwn PROVE Leaves(work')
  <2>1. Ends("failed", FALSE) \/ \E c \in Calls : Conclude(c)
    <3> DEFINE u == [call EXCEPT !.status = "unknown", !.uncertain = TRUE]
               r == [u EXCEPT !.retain = TRUE]
               s == [r EXCEPT !.over = TRUE]
               f == [call EXCEPT !.status = "failed"]
               g == [call EXCEPT !.status = "reported-completed", !.answer = "result"]
               m == [r EXCEPT !.missing = TRUE]
    <3>1. u \in Calls /\ f \in Calls /\ g \in Calls
      BY <1>t DEF Calls, Statuses
    <3>2. r \in Calls
      BY <3>1 DEF Calls
    <3>3. s \in Calls /\ m \in Calls
      BY <3>2 DEF Calls
    <3>4. \/ Ends("failed", FALSE)
          \/ Conclude(u) \/ Conclude(r) \/ Conclude(s) \/ Conclude(f) \/ Conclude(g) \/ Conclude(m)
      BY <1>9 DEF InspectOwn
    <3> HIDE DEF u, r, s, f, g, m, Conclude, Ends
    <3> QED
      BY <3>1, <3>2, <3>3, <3>4
  <2> HIDE DEF Conclude, Ends
  <2> QED
    BY <1>e, <2>1, LaterConclude
<1>10. ASSUME RetainedLock PROVE Leaves(work')
  <2> DEFINE a == [att EXCEPT !.tracked = TRUE]
  <2>1. a \in Attempts
    BY <1>t DEF Attempts
  <2>2. \/ work' = Finish(work, "delegate", "judged", "false") \/ HandleMissing(a, "delegate")
        \/ work' = Inspects(work, "delegate", "reconcile")
    BY <1>10 DEF RetainedLock
  <2> HIDE DEF a, HandleMissing
  <2>3. CASE work' = Finish(work, "delegate", "judged", "false")
    BY <1>t, <2>3, FinishIs DEF Leaves, Later, BeforeChild, BeforeTurn
  <2>4. CASE work' = Inspects(work, "delegate", "reconcile")
    BY <1>t, <2>4, InspectsIs DEF Leaves, Later, BeforeChild, BeforeTurn
  <2>5. CASE HandleMissing(a, "delegate")
    BY <1>t, <2>1, <2>5, HandleMissingIs DEF Leaves, Later, BeforeChild, BeforeTurn, BackPc
  <2> QED
    BY <2>2, <2>3, <2>4, <2>5
<1>11. ASSUME Judged PROVE Leaves(work')
  <2> DEFINE c == IF work["delegate"].res = "true" /\ call.heard # "none"
                  THEN [call EXCEPT !.answer = call.heard, !.uncertain = FALSE] ELSE call
  <2>1. c \in Calls
    <3> DEFINE h == call.heard
    <3>1. h \in {"none", "result", "error"}
      BY <1>t DEF Calls
    <3> HIDE DEF h
    <3>2. [call EXCEPT !.answer = h, !.uncertain = FALSE] \in Calls
      BY <1>t, <3>1 DEF Calls
    <3> QED
      BY <1>t, <3>2 DEF h
  <2>2. Ends("failed", TRUE) \/ Tells(c, work["delegate"].res # "true")
    BY <1>11 DEF Judged
  <2> HIDE DEF c, Tells, Ends
  <2> QED
    BY <1>e, <2>1, <2>2, TellsLater
<1>12. CASE Closing
  BY <1>t, <1>12, <1>e, TellsLater DEF Closing
<1> QED
  BY <1>1, <1>2, <1>3, <1>4, <1>6, <1>7, <1>8, <1>9, <1>10, <1>11, <1>12

LEMMA AnsweredLater ==
    ASSUME TypeOK, Answered
    PROVE  Later(work')
<1>t. Works(work) /\ att \in Attempts /\ call \in Calls /\ "delegate" \in Worker
  BY Workers DEF TypeOK
<1> DEFINE a == [att EXCEPT !.answered = TRUE, !.fg = "none"]
           x == [IdleSeen EXCEPT !.out = host]
<1>1. a \in Attempts
  BY <1>t DEF Attempts
<1>2. host \in {"result", "error"} => x \in Inspection
  BY DEF IdleSeen, NoInspection, Inspection, Statuses
<1>3. \/ work' = Goto(work, "delegate", "stopping") \/ work' = Goto(work, "delegate", "done")
      \/ host \in {"result", "error"} /\ SettleAttempt(a, x, "delegate", "reported")
  BY DEF Answered
<1> HIDE DEF a, x, SettleAttempt
<1>4. work'["delegate"].pc \in {"stopping", "done", "reported"}
  <2>1. ASSUME NEW pc \in {"stopping", "done"}, work' = Goto(work, "delegate", pc) PROVE work'["delegate"].pc = pc
    BY <1>t, <2>1, GoesOn
  <2>2. ASSUME host \in {"result", "error"}, SettleAttempt(a, x, "delegate", "reported") PROVE work'["delegate"].pc = "reported"
    BY <1>t, <1>1, <1>2, <2>2, SettleOwn
  <2> QED
    BY <1>3, <2>1, <2>2
<1> QED
  BY <1>4 DEF Later, BeforeChild, BeforeTurn

\* A call whose child is there does not begin again.
LEMMA LaterStays ==
    ASSUME TypeOK, NEW w \in Worker \ {"delegate"}, Sound(w)
    PROVE  work'["delegate"].pc = work["delegate"].pc
<1>1. "delegate" \in Worker \ Own(w)
  BY Workers DEF Own, Promises
<1> QED
  BY <1>1 DEF Sound, Steps, Stays

\* The steps of others leave the call where it is.
LEMMA OthersStay ==
    ASSUME TypeOK, SettleBegin \/ SettleShown \/ FenceBuried \/ StopBegin \/ StopFenced \/ StopSettled
                   \/ SettleCollect \/ SettleConfirm \/ SettleWrite \/ EvidenceCollect \/ EvidenceWrite
                   \/ FenceCollect \/ FenceWrite \/ TombstoneLook \/ TombstoneCreate \/ StopCancel
                   \/ EventHandled \/ SettleTimerEnds \/ TimerEnds \/ StopFences \/ FlushAgain
                   \/ LateEvent \/ DeletedCancel \/ StopsTurn \/ RecoverRead \/ RecoverLocks
                   \/ SettleTimer \/ CancelTimer \/ TombTimer \/ AbortCall \/ Host
    PROVE  work'["delegate"].pc = work["delegate"].pc
<1>1. \E w \in Worker \ {"delegate"} : Sound(w)
  <2>1. /\ "S" \in Worker \ {"delegate"} /\ "P" \in Worker \ {"delegate"} /\ "C" \in Worker \ {"delegate"}
        /\ "M" \in Worker \ {"delegate"} /\ "H" \in Worker \ {"delegate"} /\ "stop" \in Worker \ {"delegate"}
        /\ "event" \in Worker \ {"delegate"} /\ "flush" \in Worker \ {"delegate"} /\ "recover" \in Worker \ {"delegate"}
        /\ "settleTimer" \in Worker \ {"delegate"} /\ "cancelTimer" \in Worker \ {"delegate"}
        /\ "tombTimer" \in Worker \ {"delegate"}
    BY DEF Worker
  <2>2. Going("S") \/ Going("P") \/ Going("C") \/ Going("M") \/ Going("H") \/ Going("event") \/ Going("flush")
        \/ Going("recover") \/ Going("settleTimer") \/ Going("cancelTimer") \/ Going("tombTimer")
        \/ Going("stop") \/ Sound("stop")
    BY SettlementGoing, PromisesGoing, OthersGoing, HostIs
  <2> QED
    BY <2>1, <2>2 DEF Going
<1> QED
  BY <1>1, LaterStays

\* A call whose child is there goes on to its turn and then to its end.
Forward ==
    \/ work'["delegate"].pc = work["delegate"].pc
    \/ Leaves(work')
    \/ Answered /\ Later(work')
    \/ At("delegate") \in BeforeTurn /\ At("delegate")' \in BeforeTurn

\* The call goes from its child to the turn, and never back.
LEMMA CallForward ==
    ASSUME TypeOK, At("delegate") \notin BeforeChild, AttemptNext
    PROVE  Forward
<1>d. "delegate" \in Worker /\ "delegate" \notin Promises \cup {"stop", "flush", "event", "recover"}
  BY Workers DEF Promises
<1>1. ASSUME work'["delegate"].pc = work["delegate"].pc \/ Leaves(work') PROVE Forward
  BY <1>1 DEF Forward
<1>2. ASSUME NEW w \in Inspector,
             Inspect(w) \/ Marked(w) \/ Waited(w) \/ Missed(w) \/ MissingCancel(w) \/ Untold(w)
      PROVE  Forward
  <2>1. CASE w = "delegate"
    BY <1>1, <1>2, <2>1, LaterInspects
  <2>2. CASE w # "delegate"
    <3>1. Sound(w)
      BY <1>2, InspectorsGoing DEF Going
    <3> QED
      BY <1>1, <2>2, <3>1, LaterStays, Workers
  <2> QED
    BY <2>1, <2>2
<1>3. ASSUME FlushNext \/ FlushBegins PROVE Forward
  <2>1. Steps(work', work, {"flush"} \cup Promises)
    BY <1>3, FlushLoopIs DEF FlushNext, FlushBegins
  <2> QED
    BY <1>d, <1>1, <2>1 DEF Steps, Stays
<1>4. ASSUME FlushFails PROVE Forward
  BY <1>d, <1>1, <1>4, FlushFailsIs DEF Steps, Stays
<1>5. ASSUME BeginEvent PROVE Forward
  BY <1>d, <1>1, <1>5, BeginEventIs DEF Steps, Stays, Own
<1>6. ASSUME Flush PROVE Forward
  <2>1. "delegate" \in Worker \ {"flush", "stop", "C"}
    BY <1>d DEF Promises
  <2> QED
    BY <1>1, <1>6, <2>1, FlushIs DEF Steps, Stays
<1>7. CASE Lifecycle
  BY <1>1, <1>7, LifecycleIs
<1>8. CASE Crash
  BY <1>8, CrashIs DEF Forward, Leaves, Later, BeforeChild, BeforeTurn
<1>9. CASE RecoverSession
  BY <1>d, <1>1, <1>9, RecoverIs
<1>10. ~Delegate /\ ~Prepared /\ ~Locked /\ ~Admitted /\ ~Created
  BY DEF At, BeforeChild, Delegate, Prepared, Locked, Admitted, Created, Ready
<1>11. ASSUME Attended PROVE Forward
  <2>1. CASE StopsChild
    BY <1>1, <2>1, StopsChildIs, LaterIs
  <2>2. CASE \E err : Caught(err)
    BY <1>1, <2>2, LaterCaught
  <2>3. CASE work' = Goto(work, "delegate", "session") \/ work' = Goto(work, "delegate", "revalidate")
    <3>1. work'["delegate"].pc \in {"session", "revalidate"}
      BY <2>3, <1>d, GoesOn DEF TypeOK
    <3> QED
      BY <1>11, <3>1 DEF Attended, Forward, Ready, At, BeforeTurn
  <2> HIDE DEF StopsChild, Caught
  <2> QED
    BY <1>11, <2>1, <2>2, <2>3 DEF Attended
<1>12. CASE Microtask
  BY <1>1, <1>2, <1>3, <1>4, <1>12, OthersStay, LaterCall DEF Microtask
<1>13. CASE Promise \/ AbortCall \/ Host
  BY <1>1, <1>13, OthersStay DEF Promise
<1>14. CASE Caller
  BY <1>1, <1>10, <1>11, <1>14, LaterCall, AnsweredLater DEF Caller, Forward
<1>15. CASE Others
  BY <1>1, <1>2, <1>3, <1>5, <1>15, OthersStay DEF Others
<1> QED
  BY <1>6, <1>7, <1>8, <1>9, <1>10, <1>12, <1>13, <1>14, <1>15 DEF AttemptNext

\* A call that has come to its turn does not come back before it.
LEMMA LaterStep ==
    ASSUME TypeOK, Later(work), AttemptNext
    PROVE  Later(work')
  BY CallForward DEF Forward, Leaves, Later, At

\* Until the child Session is there, nothing has happened to the attempt.
LEMMA EarlyStep ==
    ASSUME TypeOK, FlushRight, EarlyRight, [AttemptNext]_attemptVars, At("delegate") \in BeforeChild
    PROVE  EarlyRight'
<1> DEFINE Early == /\ host = "none" /\ ~gone /\ events = <<>> /\ rec = NoRecord /\ att = Attempt(NoRecord)
                    /\ timers = {} /\ Quiet(work)
                    /\ call.stop = "none" /\ ~call.missing /\ call.answer = "none" /\ call.heard = "none"
<1>e. Early /\ (At("delegate") \in {"admit", "create"} => lock)
  BY DEF EarlyRight
<1>d. "delegate" \in Worker /\ "flush" \in Worker /\ "recover" \in Worker
  BY Workers
<1>t. Works(work) /\ call \in Calls
  BY DEF TypeOK
<1>a. ~att.tracked /\ att.fg = "none" /\ NoRecord.at = "none"
  BY <1>e, NoRecordIs DEF Attempt
<1>1. CASE UNCHANGED attemptVars
  BY <1>1 DEF attemptVars, EarlyRight, At, Quiet
<1> SUFFICES ASSUME AttemptNext, At("delegate")' \in BeforeChild
             PROVE  Early' /\ (At("delegate") \in {"admit", "create"} => lock)'
  BY <1>1 DEF EarlyRight
<1>n. ASSUME NEW w \in {"delegate", "flush", "recover"}, NEW pc, work' = Goto(work, w, pc),
             w = "flush" => pc \in {"idle", "inflight"}, w = "recover" => pc \in {"idle", "read"}
      PROVE  Quiet(work') /\ (w # "delegate" => work'["delegate"] = work["delegate"])
  <2>1. /\ \A v \in Worker \ {w} : work'[v] = work[v]
        /\ work'[w].pc = pc /\ work'[w].on = "none"
    BY <1>n, <1>t, <1>d, GoesOn
  <2> QED
    BY <1>d, <1>e, <1>n, <2>1, QuietKept
<1>o. ASSUME NotStarted PROVE FALSE
  BY <1>o, EndsIs DEF NotStarted, At, BeforeChild, Outcomes
<1>2. ASSUME Prepared \/ Delegate PROVE Early' /\ At("delegate")' \notin {"admit", "create"}
  <2>1. PICK pc \in {"prepare", "lock"} : work' = Goto(work, "delegate", pc)
    BY <1>2, <1>o DEF Prepared, Delegate
  <2>2. UNCHANGED <<host, gone, events, rec, att, timers, call>>
    BY <1>2, <1>o DEF Prepared, Delegate, HostRests
  <2>3. Quiet(work')
    BY <1>n, <2>1
  <2>4. work'["delegate"].pc = pc
    BY <1>t, <1>d, <2>1, GoesOn
  <2> QED
    BY <1>e, <2>2, <2>3, <2>4 DEF At
<1>3. ASSUME Locked \/ Admitted PROVE Early' /\ lock'
  <2>1. PICK pc \in {"admit", "create"} : work' = Goto(work, "delegate", pc)
    BY <1>3, <1>o DEF Locked, Admitted
  <2>2. UNCHANGED <<host, gone, events, rec, att, timers, call>>
    BY <1>3, <1>o DEF Locked, Admitted, HostRests
  <2>3. Quiet(work')
    BY <1>n, <2>1
  <2>4. lock'
    BY <1>3, <1>o, <1>e DEF Locked, Admitted, Ready, At
  <2> QED
    BY <1>e, <2>2, <2>3, <2>4
<1>4. ASSUME Created PROVE FALSE
  BY <1>4, CreatedIs, <1>d, <1>t, GoesOn DEF At, BeforeChild
<1>5. ~Attended /\ ~Sent
  BY DEF Attended, Sent, Ready, At, BeforeChild
<1>k. ASSUME UNCHANGED <<host, gone, events, rec, att, timers>>, lock' = lock, Quiet(work'),
             call' \in {call, [call EXCEPT !.aborted = TRUE]}, work'["delegate"].pc = work["delegate"].pc
      PROVE  Early' /\ (At("delegate") \in {"admit", "create"} => lock)'
  <2>1. call'.stop = "none" /\ ~call'.missing /\ call'.answer = "none" /\ call'.heard = "none"
    BY <1>k, <1>e, <1>t DEF Calls
  <2> QED
    BY <1>k, <1>e, <2>1 DEF At
<1>6. ASSUME RecoverRead PROVE Early' /\ (At("delegate") \in {"admit", "create"} => lock)'
  <2>1. work' = Goto(work, "recover", "idle") /\ UNCHANGED <<host, gone, events, rec, att, timers, lock, call>>
    BY <1>6, <1>e, <1>a DEF RecoverRead, Keep, HostRests
  <2>2. work'["delegate"] = work["delegate"]
    BY <1>n, <2>1
  <2>3. Quiet(work')
    BY <1>n, <2>1
  <2> QED
    BY <1>k, <2>1, <2>2, <2>3
<1>7. ASSUME FlushBegins PROVE Early' /\ (At("delegate") \in {"admit", "create"} => lock)'
  <2>1. work' = Goto(work, "flush", "idle") /\ UNCHANGED <<host, gone, events, rec, att, timers, lock, call>>
    BY <1>7, <1>a DEF FlushBegins, FlushLoop, HostRests
  <2>2. work'["delegate"] = work["delegate"]
    BY <1>n, <2>1
  <2>3. Quiet(work')
    BY <1>n, <2>1
  <2> QED
    BY <1>k, <2>1, <2>2, <2>3
<1>8. ~Host
  BY <1>e DEF Host, HostBegins, HostEnds, HostRefuses, HostDeletes, At, BeforeChild
<1>9. ASSUME AbortCall PROVE Early' /\ (At("delegate") \in {"admit", "create"} => lock)'
  <2>1. /\ UNCHANGED <<host, gone, events, rec, timers, lock>>
        /\ \/ call' = [call EXCEPT !.aborted = TRUE] /\ UNCHANGED <<att, work>>
           \/ LET r == Cancelled(call, att, work) IN call' = r.c /\ att' = r.a /\ work' = r.W
    BY <1>9 DEF AbortCall, HostRests
  <2>2. att' = att /\ work' = work /\ call' \in {call, [call EXCEPT !.aborted = TRUE]}
    BY <2>1, CancelledEarly DEF At
  <2>3. Quiet(work')
    BY <1>e, <2>2
  <2> QED
    BY <1>k, <2>1, <2>2, <2>3
<1>10. ASSUME Flush PROVE Early' /\ (At("delegate") \in {"admit", "create"} => lock)'
  <2> DEFINE U == Goto(work, "flush", "inflight")
  <2>1. /\ UNCHANGED <<host, gone, events, rec, timers, lock>>
        /\ LET r == Cancelled(call, att, U) IN call' = r.c /\ att' = r.a /\ work' = r.W
    BY <1>10 DEF Flush, HostRests
  <2>2. U["delegate"] = work["delegate"]
    BY <1>t, <1>d, GotoIs DEF Puts
  <2>3. att' = att /\ work' = U /\ call' \in {call, [call EXCEPT !.aborted = TRUE]}
    <3> HIDE DEF U
    <3> QED
      BY <2>1, <2>2, CancelledEarly DEF At
  <2>4. Quiet(work')
    BY <1>n, <2>3
  <2> HIDE DEF U
  <2> QED
    BY <1>k, <2>1, <2>2, <2>3, <2>4
<1>11. ASSUME Lifecycle PROVE Early' /\ (At("delegate") \in {"admit", "create"} => lock)'
  <2>1. At("delegate") \in Ended
    BY <1>11 DEF Lifecycle, FlushRight
  <2>2. UNCHANGED <<host, gone, events, rec, call, work>> /\ timers' \in {timers, {}}
        /\ att' \in {att, [att EXCEPT !.tracked = FALSE]}
    BY <1>11 DEF Lifecycle, HostRests
  <2>3. att' = att
    BY <2>2, <1>e DEF Attempt
  <2>4. Quiet(work')
    BY <1>e, <2>2
  <2> QED
    BY <1>e, <2>1, <2>2, <2>3, <2>4 DEF At, Ended
<1>12. ASSUME Crash PROVE Early' /\ (At("delegate") \in {"admit", "create"} => lock)'
  <2>1. work["delegate"].pc = "idle" /\ work'["delegate"].pc = "idle"
    BY <1>12, CrashIs DEF At, BeforeChild
  <2>2. Quiet(work')
    BY <1>12, CrashIs, IdleIs, Workers DEF Quiet
  <2>3. host' = "none" /\ UNCHANGED <<gone, rec>> /\ events' = <<>> /\ timers' = {} /\ att' = Attempt(NoRecord)
        /\ call'.stop = "none" /\ ~call'.missing /\ call'.answer = "none" /\ call'.heard = "none"
    BY <1>12, <1>e, CrashIs
  <2> QED
    BY <1>e, <2>1, <2>2, <2>3 DEF At
<1>13. ASSUME RecoverSession PROVE Early' /\ (At("delegate") \in {"admit", "create"} => lock)'
  <2>1. work' = Goto(work, "recover", "read") /\ UNCHANGED <<host, gone, events, rec, att, timers, lock, call>>
    BY <1>13 DEF RecoverSession, HostRests
  <2>2. work'["delegate"] = work["delegate"]
    BY <1>n, <2>1
  <2>3. Quiet(work')
    BY <1>n, <2>1
  <2> QED
    BY <1>k, <2>1, <2>2, <2>3
<1> HIDE DEF Early
<1>14. Quiet(work) /\ events = <<>> /\ timers = {} /\ At("delegate") \in BeforeChild \cup BeforeTurn
  BY <1>e DEF Early
<1>15. \/ Prepared \/ Locked \/ Admitted \/ Created \/ Attended \/ Sent
       \/ RecoverRead \/ FlushBegins
       \/ Host \/ Delegate \/ AbortCall \/ Flush \/ Lifecycle \/ Crash \/ RecoverSession
  BY <1>14, QuietSteps
<1> QED
  BY <1>2, <1>3, <1>4, <1>5, <1>6, <1>7, <1>8, <1>9, <1>10, <1>11, <1>12, <1>13, <1>15

\* Nobody at work is calm.
LEMMA QuietCalm ==
    ASSUME NEW W, Quiet(W)
    PROVE  Calm(W)
<1>1. ASSUME NEW w \in Worker PROVE W[w].on \notin {"S", "M"} /\ CalmPc(w, W[w].pc)
  <2>1. W[w].on = "none"
    BY DEF Quiet
  <2>2. w \notin {"delegate", "flush", "recover"} => W[w].pc = "idle"
    BY IdleIs DEF Quiet
  <2>3. w = "flush" => W[w].pc \in {"idle", "inflight"}
    BY DEF Quiet
  <2>4. w = "recover" => W[w].pc \in {"idle", "read"}
    BY DEF Quiet
  <2> QED
    BY <2>1, <2>2, <2>3, <2>4 DEF CalmPc
<1> QED
  BY <1>1 DEF Calm

\* A signal is not forgotten while the turn is to be sent.
LEMMA AbortedKept ==
    ASSUME TypeOK, call.aborted, At("delegate") \in BeforeTurn, AttemptNext
    PROVE  call'.aborted \/ Later(work')
<1>c. call \in Calls /\ att \in Attempts /\ Works(work)
  BY DEF TypeOK
<1>1. SettleBegin \/ SettleShown \/ FenceBuried \/ StopBegin \/ StopFenced \/ StopSettled => call' = call
  BY DEF SettleBegin, SettleShown, FenceBuried, StopBegin, StopFenced, StopSettled, Keep
<1>2. SettleCollect \/ SettleConfirm \/ SettleWrite \/ EvidenceCollect \/ EvidenceWrite => call' = call
  BY DEF SettleCollect, SettleConfirm, SettleWrite, EvidenceCollect, EvidenceWrite, Keep
<1>3. FenceCollect \/ FenceWrite \/ TombstoneLook \/ TombstoneCreate \/ StopCancel => call' = call
  BY DEF FenceCollect, FenceWrite, TombstoneLook, TombstoneCreate, StopCancel, Keep
<1>4. EventHandled \/ SettleTimerEnds \/ TimerEnds \/ FlushAgain \/ FlushNext \/ FlushFails \/ FlushBegins
      \/ LateEvent \/ DeletedCancel \/ RecoverRead \/ RecoverLocks \/ SettleTimer \/ CancelTimer \/ TombTimer
      \/ BeginEvent => call' = call
  BY DEF EventHandled, SettleTimerEnds, TimerEnds, FlushAgain, FlushNext, FlushFails, FlushBegins, FlushLoop,
         LateEvent, DeletedCancel, RecoverRead, RecoverLocks, SettleTimer, CancelTimer, TombTimer, Timer, BeginEvent, Keep
<1>5. ASSUME StopFences \/ StopsTurn PROVE call'.aborted
  <2>1. call' = call \/ \E s : call' = [call EXCEPT !.stop = s]
    BY <1>5 DEF StopFences, StopsTurn
  <2> QED
    BY <1>c, <2>1 DEF Calls
<1>6. ASSUME NEW w \in Inspector,
             Inspect(w) \/ Marked(w) \/ Waited(w) \/ Missed(w) \/ MissingCancel(w) \/ Untold(w)
      PROVE  call'.aborted
  <2>1. call' = call \/ \E x \in Seen \cup {Unknown} : call' = [call EXCEPT !.heard = x.out]
    BY <1>6 DEF Inspect, Marked, Waited, Missed, MissingCancel, Untold, Keep
  <2> QED
    BY <1>c, <2>1 DEF Calls
<1>7. ASSUME Attended PROVE call' = call \/ Later(work')
  <2>1. CASE StopsChild
    BY <2>1, StopsChildIs, LaterIs DEF Leaves
  <2>2. CASE \E err : Caught(err)
    BY <2>2, LaterCaught DEF Leaves
  <2>3. CASE call' = call
    BY <2>3
  <2> HIDE DEF StopsChild, Caught
  <2> QED
    BY <1>7, <2>1, <2>2, <2>3 DEF Attended
<1>8. ~Delegate /\ ~Prepared /\ ~Locked /\ ~Admitted /\ ~Created /\ ~AbortCall
  BY DEF At, BeforeTurn, Delegate, Prepared, Locked, Admitted, Created, AbortCall, Ready
<1>9. ASSUME Flush PROVE call'.aborted
  BY <1>9 DEF Flush, Cancelled
<1>10. CASE Host \/ Lifecycle \/ RecoverSession
  BY <1>10, HostIs DEF Lifecycle, RecoverSession
<1>11. CASE Crash
  BY <1>11, CrashIs DEF Later, BeforeChild, BeforeTurn, At
<1>12. CASE Microtask
  BY <1>1, <1>4, <1>5, <1>6, <1>12, LaterCall DEF Microtask, Leaves
<1>13. CASE Promise
  BY <1>2, <1>3, <1>13 DEF Promise
<1>14. CASE Caller
  BY <1>7, <1>8, <1>14, LaterCall, AnsweredLater DEF Caller, Leaves
<1>15. CASE Others
  BY <1>4, <1>5, <1>6, <1>15 DEF Others
<1> QED
  BY <1>8, <1>9, <1>10, <1>11, <1>12, <1>13, <1>14, <1>15 DEF AttemptNext

\* A Session that was deleted does not come back.
LEMMA GoneKept ==
    ASSUME TypeOK, gone, AttemptNext
    PROVE  gone'
<1>1. CASE \E w \in Worker : Going(w)
  BY <1>1 DEF Going, Sound, HostKept
<1>2. CASE FlushNext \/ FlushBegins
  BY <1>2, FlushLoopTypes DEF FlushNext, FlushBegins, HostKept
<1>3. CASE FlushFails \/ Locked \/ Admitted \/ Created \/ BeginEvent
  BY <1>3, FlushFailsIs, LockedIs, AdmittedIs, CreatedIs, BeginEventIs DEF Sound, HostKept
<1>4. CASE Host \/ Delegate \/ Flush \/ Lifecycle \/ RecoverSession \/ Crash
  BY <1>4, HostIs, DelegateIs, FlushIs, LifecycleIs, RecoverIs, CrashIs DEF Sound, HostKept
<1> QED
  BY <1>1, <1>2, <1>3, <1>4, GoingSteps DEF AttemptNext

\* The creation of the child Session begins the second phase.
LEMMA CreatedDispatch ==
    ASSUME TypeOK, EarlyRight, Created, At("delegate")' \in BeforeTurn
    PROVE  DispatchRight'
<1> DEFINE child == [NoRecord EXCEPT !.at = "child", !.status = "running"]
           a == [Attempt(child) EXCEPT !.tracked = TRUE, !.fg = "pending"]
<1>e. /\ host = "none" /\ ~gone /\ events = <<>> /\ timers = {} /\ Quiet(work) /\ lock
      /\ call.stop = "none" /\ ~call.missing /\ call.answer = "none" /\ call.heard = "none"
  BY DEF EarlyRight, Created, Ready, At, BeforeChild
<1>d. "delegate" \in Worker /\ Works(work)
  BY Workers DEF TypeOK
<1>1. ASSUME work' = Goto(work, "delegate", "done") PROVE FALSE
  <2>1. work'["delegate"].pc = "done"
    BY <1>1, <1>d, GoesOn
  <2> QED
    BY <2>1 DEF At, BeforeTurn
<1>2. /\ rec' = child /\ att' = a /\ work' = Goto(work, "delegate", "after")
      /\ UNCHANGED <<host, gone, events, lock, timers, call>>
  BY <1>1 DEF Created, HostRests
<1>3. CleanRecord(rec')
  BY <1>2, ChildIs DEF CleanRecord
<1>4. CleanAttempt(att') /\ att'.fg = "pending"
  <2>1. child.at = "child" /\ ~child.cancel /\ ~child.confirmed
    BY ChildIs
  <2> HIDE DEF child
  <2> QED
    BY <1>2, <2>1 DEF CleanAttempt, Attempt
<1>5. Quiet(work')
  <2>1. \A v \in Worker \ {"delegate"} : work'[v] = work[v]
    BY <1>2, <1>d, GoesOn
  <2>2. work'["delegate"].on = "none"
    BY <1>2, <1>d, GoesOn
  <2> QED
    BY <1>e, <2>1, <2>2, QuietKept
<1>6. Calm(work')
  BY <1>5, QuietCalm
<1>7. events' \in Seq({"busy"}) /\ events' = <<>>
  BY <1>2, <1>e
<1> HIDE DEF a, child
<1> QED
  BY <1>e, <1>2, <1>3, <1>4, <1>5, <1>6, <1>7 DEF DispatchRight, Clean, CleanCall

\* Until the turn is sent, the phase lasts.
LEMMA DispatchKept ==
    ASSUME TypeOK, FlushRight, DispatchRight, AttemptNext,
           At("delegate") \in BeforeTurn, At("delegate")' \in BeforeTurn, ~gone, ~gone', ~call.aborted, ~call'.aborted
    PROVE  DispatchRight'
<1>e. /\ lock /\ CleanAttempt(att) /\ CleanRecord(rec) /\ CleanCall(call)
      /\ host = "none" /\ events = <<>> /\ timers = {} /\ att.fg = "pending"
      /\ Quiet(work) /\ call.stop = "none"
  BY DEF DispatchRight, Clean
<1>d. "delegate" \in Worker /\ "flush" \in Worker /\ "recover" \in Worker
  BY Workers
<1>t. Works(work) /\ call \in Calls /\ att \in Attempts
  BY DEF TypeOK
<1>l. ~Later(work')
  BY DEF Later, At
<1>k. ASSUME UNCHANGED <<host, events, lock, rec, timers, call>>, Quiet(work'),
             att' = att \/ (\E c \in BOOLEAN : att' = [att EXCEPT !.cancel = c])
      PROVE  DispatchRight'
  <2>1. CleanAttempt(att') /\ att'.fg = "pending"
    BY <1>k, <1>e, <1>t DEF CleanAttempt, Attempts
  <2>2. events' \in Seq({"busy"}) /\ Calm(work')
    BY <1>k, <1>e, QuietCalm
  <2> QED
    BY <1>k, <1>e, <2>1, <2>2 DEF DispatchRight, Clean
<1>n. ASSUME NEW w \in {"delegate", "flush", "recover"}, NEW pc, work' = Goto(work, w, pc),
             w = "flush" => pc \in {"idle", "inflight"}, w = "recover" => pc \in {"idle", "read"}
      PROVE  Quiet(work')
  <2>1. /\ \A v \in Worker \ {w} : work'[v] = work[v]
        /\ work'[w].pc = pc /\ work'[w].on = "none"
    BY <1>n, <1>t, <1>d, GoesOn
  <2> QED
    BY <1>d, <1>e, <1>n, <2>1, QuietKept
<1>1. ~Prepared /\ ~Locked /\ ~Admitted /\ ~Created /\ ~FlushBegins /\ ~Delegate
  BY DEF At, BeforeTurn, Prepared, Locked, Admitted, Created, FlushBegins, Delegate, Ready
<1>2. ~Sent
  BY <1>l, LaterCall DEF Leaves
<1>3. ASSUME Attended PROVE DispatchRight'
  <2>1. ~StopsChild /\ \A err : ~Caught(err)
    BY <1>l, StopsChildIs, LaterIs, LaterCaught DEF Leaves
  <2> DEFINE c == att.cancel \/ call.aborted
  <2>2. c \in BOOLEAN
    BY <1>t DEF Attempts, Calls
  <2>3. /\ UNCHANGED <<host, events, lock, rec, timers, call>>
        /\ \/ att' = [att EXCEPT !.cancel = c] /\ work' = Goto(work, "delegate", "session")
           \/ att' = att /\ work' = Goto(work, "delegate", "revalidate")
    <3> HIDE DEF StopsChild, Caught
    <3> QED
      BY <1>3, <2>1 DEF Attended, HostRests
  <2> HIDE DEF c
  <2>4. Quiet(work')
    BY <1>n, <2>3
  <2> QED
    BY <1>k, <2>2, <2>3, <2>4
<1>4. ASSUME RecoverRead PROVE DispatchRight'
  <2>1. work' = Goto(work, "recover", "idle") /\ UNCHANGED <<host, events, rec, att, timers, lock, call>>
    BY <1>4, <1>e DEF RecoverRead, Keep, HostRests
  <2>2. Quiet(work')
    BY <1>n, <2>1
  <2> QED
    BY <1>k, <2>1, <2>2
<1>5. ~Host
  BY <1>e DEF Host, HostBegins, HostEnds, HostRefuses, HostDeletes
<1>6. ~AbortCall
  <2>1. ASSUME AbortCall PROVE FALSE
    <3>1. call' = Cancelled(call, att, work).c /\ call.open
      BY <2>1 DEF AbortCall, At, BeforeTurn
    <3>2. call'.aborted
      BY <3>1, <1>t DEF Cancelled, At, BeforeTurn, Calls
    <3> QED
      BY <3>2
  <2> QED
    BY <2>1
<1>7. ASSUME Flush PROVE DispatchRight'
  <2> DEFINE U == Goto(work, "flush", "inflight")
  <2>1. /\ UNCHANGED <<host, events, rec, timers, lock>>
        /\ LET r == Cancelled(call, att, U) IN call' = r.c /\ att' = r.a /\ work' = r.W
    BY <1>7 DEF Flush, HostRests
  <2>2. U["delegate"] = work["delegate"]
    BY <1>t, <1>d, GotoIs DEF Puts
  <2>3. att' = att /\ work' = U /\ call' = call
    <3> HIDE DEF U
    <3> QED
      BY <1>t, <2>1, <2>2 DEF Cancelled, At, BeforeTurn, Calls
  <2>4. Quiet(work')
    BY <1>n, <2>3
  <2> HIDE DEF U
  <2> QED
    BY <1>k, <2>1, <2>3, <2>4
<1>8. ~Lifecycle /\ ~Crash
  BY <1>l, CrashIs DEF Lifecycle, FlushRight, Later, BeforeChild, BeforeTurn, Ended, At
<1>9. ASSUME RecoverSession PROVE DispatchRight'
  <2>1. work' = Goto(work, "recover", "read") /\ UNCHANGED <<host, events, rec, att, timers, lock, call>>
    BY <1>9 DEF RecoverSession, HostRests
  <2>2. Quiet(work')
    BY <1>n, <2>1
  <2> QED
    BY <1>k, <2>1, <2>2
<1> QED
  BY <1>e, <1>1, <1>2, <1>3, <1>4, <1>5, <1>6, <1>7, <1>8, <1>9, QuietSteps

\* Every step keeps what holds before the turn is sent.
LEMMA DispatchStep ==
    ASSUME TypeOK, FlushRight, EarlyRight, DispatchRight, [AttemptNext]_attemptVars
    PROVE  DispatchRight'
<1>1. CASE UNCHANGED attemptVars
  BY <1>1 DEF attemptVars, DispatchRight, Clean, At, Quiet, Calm
<1> SUFFICES ASSUME AttemptNext, At("delegate")' \in BeforeTurn, ~gone', ~call'.aborted
             PROVE  DispatchRight'
  BY <1>1 DEF DispatchRight
<1>2. CASE At("delegate") \in BeforeChild
  <2>1. Quiet(work) /\ events = <<>> /\ timers = {} /\ host = "none"
    BY <1>2 DEF EarlyRight
  <2>2. ~Prepared /\ ~Locked /\ ~Admitted /\ ~Delegate
    BY PreparedIs, LockedIs, AdmittedIs, DelegateIs DEF At, BeforeTurn
  <2>3. ~Attended /\ ~Sent
    BY <1>2 DEF Attended, Sent, Ready, At, BeforeChild
  <2>4. ASSUME RecoverRead \/ AbortCall \/ Host PROVE FALSE
    BY <1>2, <2>4, OthersStay DEF At, BeforeChild, BeforeTurn
  <2>5. "delegate" \in Worker /\ "delegate" \notin Promises \cup {"flush", "stop", "recover"}
    BY Workers DEF Promises
  <2>6. ~FlushBegins /\ ~Flush /\ ~Lifecycle /\ ~Crash /\ ~RecoverSession
    <3>1. ~FlushBegins
      BY <1>2, <2>5, FlushLoopIs DEF FlushBegins, Steps, Stays, At, BeforeChild, BeforeTurn
    <3>2. ~Flush
      BY <1>2, <2>5, FlushIs, Workers DEF Steps, Stays, At, BeforeChild, BeforeTurn, Promises
    <3>3. ~Lifecycle /\ ~Crash /\ ~RecoverSession
      BY <1>2, <2>5, LifecycleIs, CrashIs, RecoverIs DEF At, BeforeChild, BeforeTurn
    <3> QED
      BY <3>1, <3>2, <3>3
  <2> QED
    BY <1>2, <2>1, <2>2, <2>3, <2>4, <2>6, QuietSteps, CreatedDispatch
<1>3. CASE Later(work)
  <2>1. Later(work')
    BY <1>3, LaterStep
  <2> QED
    BY <2>1 DEF Later, At
<1>4. CASE At("delegate") \in BeforeTurn
  <2>1. ~Later(work')
    BY DEF Later, At
  <2>2. ~gone /\ ~call.aborted
    BY <1>4, <2>1, GoneKept, AbortedKept DEF TypeOK, Calls
  <2> QED
    BY <1>4, <2>2, DispatchKept
<1> QED
  BY <1>2, <1>3, <1>4 DEF Later, At

-----------------------------------------------------------------------------
(* While the turn is working *)

\* Calm workers stay calm when what they go on to is calm.
LEMMA CalmSteps ==
    ASSUME NEW V, NEW W, NEW ws, Calm(W), Steps(V, W, ws),
           \A w \in Worker : w \in ws => V[w].on \notin {"S", "M"} /\ CalmPc(w, V[w].pc)
    PROVE  Calm(V)
  BY DEF Calm, Steps, Stays, CalmPc

LEMMA CalmAwaits ==
    ASSUME NEW W, Works(W), Calm(W), NEW w \in Worker, NEW s \in {"P", "C", "H"}, w # s, NEW pc, CalmPc(w, pc)
    PROVE  Calm(Awaits(W, w, s, pc))
<1> DEFINE V == Awaits(W, w, s, pc)
<1>s. s \in Promises
  BY DEF Promises
<1>1. /\ Works(V) /\ \A v \in Worker \ {w, s} : V[v] = W[v]
      /\ V[w].pc = pc /\ V[w].on = s /\ Begun(V, W, s)
  BY <1>s, AwaitsIs
<1> HIDE DEF V
<1>2. Steps(V, W, {w, s})
  BY <1>1, SameSteps
<1>3. V[s].on \notin {"S", "M"} /\ CalmPc(s, V[s].pc)
  <2>1. CASE W[s].pc = "idle"
    BY <1>1, <2>1 DEF Begun, First, CalmPc
  <2>2. CASE W[s].pc # "idle"
    BY <1>1, <2>2, <1>s, Workers DEF Begun, Calm
  <2> QED
    BY <2>1, <2>2
<1>4. V[w].on \notin {"S", "M"} /\ CalmPc(w, V[w].pc)
  BY <1>1
<1>5. Calm(V)
  BY <1>2, <1>3, <1>4, CalmSteps
<1> QED
  BY <1>5 DEF V

LEMMA CalmReturn ==
    ASSUME NEW W, Works(W), Calm(W), NEW s \in Promises, NEW res
    PROVE  Calm(Return(W, s, res))
<1> DEFINE V == Return(W, s, res)
<1>1. Steps(V, W, {s}) /\ V[s] = Resting
  BY ReturnSteps
<1> HIDE DEF V
<1>2. V[s].on \notin {"S", "M"} /\ CalmPc(s, V[s].pc)
  BY <1>1, IdleIs DEF CalmPc
<1>3. Calm(V)
  BY <1>1, <1>2, CalmSteps
<1> QED
  BY <1>3 DEF V

LEMMA CalmPuts ==
    ASSUME NEW V, NEW W, Calm(W), NEW w \in Worker, Puts(V, W, w), V[w].on \notin {"S", "M"}, CalmPc(w, V[w].pc)
    PROVE  Calm(V)
<1>1. Steps(V, W, {w})
  BY PutsSteps
<1>2. \A v \in Worker : v \in {w} => V[v].on \notin {"S", "M"} /\ CalmPc(v, V[v].pc)
  OBVIOUS
<1> QED
  BY <1>1, <1>2, CalmSteps

LEMMA CalmGoto ==
    ASSUME NEW W, Works(W), Calm(W), NEW w \in Worker, NEW pc, NEW res, CalmPc(w, pc),
           NEW V, V \in {Goto(W, w, pc), Finish(W, w, pc, res), Inspects(W, w, pc)}
    PROVE  Calm(V)
<1>1. Puts(V, W, w) /\ V[w].pc = pc /\ V[w].on = "none"
  <2>1. CASE V = Goto(W, w, pc)
    BY <2>1, GotoIs
  <2>2. CASE V = Finish(W, w, pc, res)
    BY <2>2, FinishIs
  <2>3. CASE V = Inspects(W, w, pc)
    BY <2>3, InspectsIs
  <2> QED
    BY <2>1, <2>2, <2>3
<1> QED
  BY <1>1, CalmPuts

LEMMA CalmOvertake ==
    ASSUME NEW W, Works(W), Calm(W)
    PROVE  Calm(Overtake(W))
  BY OvertakeSteps, CalmSteps

LEMMA CalmBack ==
    ASSUME NEW W, Works(W), Calm(W), NEW w \in Inspector \ {"settleTimer"}, NEW res
    PROVE  Calm(Back(W, w, res))
<1>1. Puts(Back(W, w, res), W, w) /\ Back(W, w, res)[w].pc = BackPc(w, res) /\ Back(W, w, res)[w].on = "none"
  BY BackIs
<1>2. CalmPc(w, BackPc(w, res))
  BY DEF CalmPc, BackPc, Inspector
<1> QED
  BY <1>1, <1>2, CalmPuts, Workers

LEMMA CalmMark ==
    ASSUME Works(work), att \in Attempts, Calm(work), NEW w \in {"delegate", "event", "flush", "recover"}, MarkActive(w)
    PROVE  Calm(work') /\ work'[w].pc = "evident" /\ work'[w].on = "P"
<1>w. w \in Inspector /\ w \in Worker /\ w # "P" /\ "S" \in Worker
  BY Workers DEF Promises
<1>1. work["S"].pc = "idle"
  BY <1>w DEF Calm, CalmPc
<1>2. Overtake(work)["S"].pc = "idle" /\ Works(Overtake(work)) /\ Calm(Overtake(work))
  BY <1>1, <1>w, OvertakeIs, CalmOvertake DEF Stale
<1>3. work' = Awaits(Overtake(work), w, "P", "evident")
  BY <1>2 DEF MarkActive
<1>4. CalmPc(w, "evident")
  BY DEF CalmPc
<1>5. Calm(work')
  <2> DEFINE U == Overtake(work)
  <2> HIDE DEF U
  <2> QED
    BY <1>2, <1>3, <1>4, <1>w, CalmAwaits DEF U
<1> QED
  BY <1>1, <1>5, <1>w, MarkActiveIs

LEMMA CleanCollected ==
    ASSUME TypeOK, CleanAttempt(att), CleanRecord(rec)
    PROVE  CleanAttempt(Collected(att))
<1> DEFINE b == Collected(att)
           rs == {rec, att.term} \ {NoRecord}
<1>1. /\ b.tracked /\ b.answered = att.answered /\ b.pending = att.pending
      /\ rec # NoRecord => b.ids = att.ids \cup {rec.at}
      /\ b.confirmed = (att.confirmed \/ rec.confirmed)
      /\ b.missing = (att.missing \/ att.confirmed \/ rec.confirmed)
      /\ b.term = PersistedTerminal(rs)
  BY CollectedIs DEF TypeOK
<1>2. rec # NoRecord
  BY NoRecordIs DEF CleanRecord
<1>3. rs = {rec}
  BY <1>2 DEF CleanAttempt
<1>4. PersistedTerminal({rec}) = NoRecord
  <2>1. ~Stands({rec}, rec)
    BY DEF Stands, CleanRecord, Terminal
  <2>2. {rec} \in SUBSET Record
    BY DEF TypeOK
  <2> QED
    BY <2>1, <2>2, PersistedTerminalIs DEF Stands
<1> HIDE DEF b
<1>5. CleanAttempt(b)
  BY <1>1, <1>2, <1>3, <1>4 DEF CleanAttempt, CleanRecord
<1> QED
  BY <1>5 DEF b

\* A step that leaves the call where it was.
LEMMA TurnKept ==
    ASSUME TypeOK, Clean, Calling, lock', CleanAttempt(att'), CleanRecord(rec'), CleanCall(call'),
           events' \in Seq({"busy"}), timers' \subseteq {"cancel"}, Calm(work'),
           Stays(work', work, "delegate"), call'.status = call.status, call.aborted => call'.aborted,
           host = "busy" => host' = "busy"
    PROVE  TurnRight'
<1>1. Clean'
  BY DEF Clean
<1>2. CalmStep(work["delegate"])' /\ (At("delegate") = "retained" => call.status = "unknown")'
  BY DEF Calling, CalmStep, Stays, At
<1>3. (At("delegate") \in {"turn", "done"} \/ host = "busy" \/ call.aborted)'
  BY DEF Calling, Stays, At
<1>4. Calling'
  BY <1>2, <1>3 DEF Calling
<1> QED
  BY <1>1, <1>4 DEF TurnRight

\* ... and nothing but its workers and the attempt.
LEMMA TurnRests ==
    ASSUME TypeOK, Clean, Calling, UNCHANGED <<lock, rec, call, host, events>>, timers' \subseteq timers \cup {"cancel"},
           CleanAttempt(att'), Calm(work'), Stays(work', work, "delegate")
    PROVE  TurnRight'
<1>1. lock' /\ CleanRecord(rec') /\ CleanCall(call') /\ events' \in Seq({"busy"}) /\ timers' \subseteq {"cancel"}
  BY DEF Clean
<1> QED
  BY <1>1, TurnKept

LEMMA StaysIs ==
    ASSUME NEW V, NEW W, NEW ws, Steps(V, W, ws), "delegate" \notin ws
    PROVE  Stays(V, W, "delegate")
  BY Workers DEF Steps

LEMMA OwnStays ==
    ASSUME NEW w \in Worker \ {"delegate"}, Steps(work', work, Own(w))
    PROVE  Stays(work', work, "delegate")
<1>1. "delegate" \notin Own(w)
  BY Workers DEF Own, Promises
<1> QED
  BY <1>1, StaysIs

\* w awaits a promise.
LEMMA AwaitsTurn ==
    ASSUME TypeOK, Calm(work), NEW w \in Worker \ {"delegate"}, NEW s \in {"P", "C", "H"}, w # s, NEW pc, CalmPc(w, pc),
           work' = Awaits(work, w, s, pc)
    PROVE  Calm(work') /\ Stays(work', work, "delegate")
<1>1. s \in Promises /\ Works(work)
  BY DEF Promises, TypeOK
<1>2. Calm(work')
  BY <1>1, CalmAwaits
<1>3. Steps(work', work, Own(w))
  BY <1>1, AwaitsOwn
<1> QED
  BY <1>2, <1>3, OwnStays

\* The promises of the attempt, of which there are no settlement and no
\* tombstone yet.
LEMMA PromisesTurn ==
    ASSUME TypeOK, Clean, Calling, Runs',
           \/ FenceBuried \/ StopBegin \/ StopFenced \/ EvidenceCollect \/ EvidenceWrite
           \/ FenceCollect \/ FenceWrite \/ StopCancel
    PROVE  TurnRight'
<1>t. Works(work) /\ att \in Attempts /\ rec \in Record
  BY DEF TypeOK
<1>c. Calm(work) /\ CleanAttempt(att) /\ CleanRecord(rec) /\ att.tracked /\ Written(att)
  BY DEF Clean, CleanAttempt, CleanRecord, Written
<1>g. ASSUME NEW s \in Promises, NEW res, work' = Return(work, s, res)
      PROVE  Calm(work') /\ Stays(work', work, "delegate")
  BY <1>g, <1>t, <1>c, CalmReturn, ReturnSteps, StaysIs, Workers
<1>w. ASSUME NEW s \in {"P", "C", "H"}, NEW pc \in {"write", "cancel"}, s = "H" => pc = "cancel",
             work' = Goto(work, s, pc)
      PROVE  Calm(work') /\ Stays(work', work, "delegate")
  <2>1. s \in Worker /\ s # "delegate" /\ CalmPc(s, pc)
    BY <1>w DEF Worker, CalmPc
  <2> QED
    BY <1>w, <1>t, <1>c, <2>1, CalmGoto, GoesOn, StaysIs
<1>k. ASSUME NEW s \in Promises, NEW res, Gives(s, res), Keep PROVE TurnRight'
  <2>1. Calm(work') /\ Stays(work', work, "delegate")
    BY <1>k, <1>g DEF Gives
  <2>2. UNCHANGED <<lock, rec, call, host, events, att, timers>>
    BY <1>k DEF Gives, Keep, HostRests
  <2> QED
    BY <1>c, <2>1, <2>2, TurnRests
<1>p. "P" \in Promises /\ "C" \in Promises /\ "H" \in Promises
  BY Workers
<1>1. CASE FenceBuried
  BY <1>1, <1>k, <1>p DEF FenceBuried
<1>2. ASSUME StopBegin PROVE TurnRight'
  <2>1. /\ att' = [att EXCEPT !.cancel = TRUE] /\ work' = Awaits(work, "H", "C", "fenced")
        /\ UNCHANGED <<lock, rec, call, host, events, timers>>
    BY <1>2, <1>c DEF StopBegin, Keep, HostRests
  <2>2. CleanAttempt(att')
    BY <2>1, <1>t, <1>c DEF CleanAttempt, Attempts
  <2>3. Calm(work') /\ Stays(work', work, "delegate")
    <3>1. CalmPc("H", "fenced") /\ "H" \in Worker \ {"delegate"}
      BY DEF CalmPc, Worker
    <3> QED
      BY <2>1, <3>1, <1>c, AwaitsTurn
  <2> QED
    BY <2>1, <2>2, <2>3, TurnRests
<1>3. ASSUME StopFenced PROVE TurnRight'
  <2>1. CASE Gives("H", "error")
    BY <1>3, <2>1, <1>k, <1>p DEF StopFenced
  <2>2. CASE work' = Goto(work, "H", "cancel") /\ UNCHANGED <<rec, att, lock, timers>>
    <3>1. Calm(work') /\ Stays(work', work, "delegate")
      BY <2>2, <1>w
    <3>2. UNCHANGED <<lock, rec, call, host, events, att, timers>>
      BY <1>3, <2>2 DEF StopFenced, Keep, HostRests
    <3> QED
      BY <1>c, <3>1, <3>2, TurnRests
  <2> QED
    BY <1>3, <1>c, <2>1, <2>2 DEF StopFenced
<1>4. ASSUME EvidenceCollect \/ FenceCollect PROVE TurnRight'
  <2>1. CASE \E s \in Promises, res \in {"true", "false", "error"} : Gives(s, res)
    BY <1>4, <2>1, <1>k DEF EvidenceCollect, FenceCollect
  <2>2. ASSUME NEW s \in {"P", "C"}, att' = Collected(att), work' = Goto(work, s, "write"),
               UNCHANGED <<rec, lock, timers>>
        PROVE  TurnRight'
    <3>1. Calm(work') /\ Stays(work', work, "delegate")
      BY <2>2, <1>w
    <3>2. UNCHANGED <<lock, rec, call, host, events, timers>>
      BY <1>4, <2>2 DEF EvidenceCollect, FenceCollect, Keep, HostRests
    <3>3. CleanAttempt(att')
      BY <2>2, <1>c, CleanCollected
    <3> QED
      BY <3>1, <3>2, <3>3, TurnRests
  <2> QED
    BY <1>4, <1>p, <2>1, <2>2 DEF EvidenceCollect, FenceCollect
<1>5. ASSUME EvidenceWrite PROVE TurnRight'
  <2>1. CASE \E res \in {"true", "error"} : Gives("P", res)
    BY <1>5, <2>1, <1>k, <1>p DEF EvidenceWrite
  <2>2. CASE ~\E res \in {"true", "error"} : Gives("P", res)
    <3> DEFINE invalid == att.invalid \/ att.term.status = "reported-completed"
               cancel == att.cancel /\ ~att.confirmed
               kept == rec.cancel /\ ~att.confirmed
               wrong == rec.invalid \/ invalid
    <3>1. /\ rec' = [rec EXCEPT !.status = "unknown", !.late = FALSE, !.confirmed = FALSE,
                                !.cancel = kept, !.invalid = wrong]
          /\ att' = [att EXCEPT !.term = NoRecord, !.invalid = invalid, !.cancel = cancel,
                                !.confirmed = FALSE, !.missing = FALSE, !.evidence = FALSE, !.ids = att.ids]
          /\ work' = Return(work, "P", "true") /\ UNCHANGED <<lock, timers, call, host, events>>
      BY <1>5, <1>c, <2>2 DEF EvidenceWrite, Keep, HostRests
    <3> HIDE DEF invalid, cancel, kept, wrong
    <3>2. CleanRecord(rec')
      BY <3>1, <1>t, <1>c DEF CleanRecord, Record
    <3>3. CleanAttempt(att')
      BY <3>1, <1>t, <1>c DEF CleanAttempt, Attempts
    <3>4. Calm(work') /\ Stays(work', work, "delegate")
      BY <3>1, <1>g, <1>p
    <3>5. lock' /\ CleanCall(call') /\ events' \in Seq({"busy"}) /\ timers' \subseteq {"cancel"}
      BY <3>1 DEF Clean
    <3> QED
      BY <3>1, <3>2, <3>3, <3>4, <3>5, TurnKept
  <2> QED
    BY <2>1, <2>2
<1>6. ASSUME FenceWrite PROVE TurnRight'
  <2>1. CASE \E res \in {"false", "error"} : Gives("C", res)
    BY <1>6, <2>1, <1>k, <1>p DEF FenceWrite
  <2>2. CASE ~\E res \in {"false", "error"} : Gives("C", res)
    <3> DEFINE kept == rec.cancel \/ att.cancel
    <3>1. /\ rec' = [rec EXCEPT !.cancel = kept]
          /\ work' = Return(work, "C", "true") /\ UNCHANGED <<att, lock, timers, call, host, events>>
      BY <1>6, <1>c, <2>2 DEF FenceWrite, Keep, HostRests
    <3> HIDE DEF kept
    <3>2. CleanRecord(rec')
      BY <3>1, <1>t, <1>c DEF CleanRecord, Record
    <3>4. Calm(work') /\ Stays(work', work, "delegate")
      BY <3>1, <1>g, <1>p
    <3>5. lock' /\ CleanCall(call') /\ events' \in Seq({"busy"}) /\ timers' \subseteq {"cancel"} /\ CleanAttempt(att')
      BY <3>1 DEF Clean
    <3> QED
      BY <3>1, <3>2, <3>4, <3>5, TurnKept
  <2> QED
    BY <2>1, <2>2
<1>7. ASSUME StopCancel PROVE TurnRight'
  <2>1. PICK yes \in BOOLEAN :
          /\ CancelTurn(yes)
          /\ att.tracked /\ ~yes => work' = Return(work, "H", "error") /\ UNCHANGED att
    BY <1>7 DEF StopCancel
  <2>2. ~yes /\ UNCHANGED <<host, events>>
    BY <2>1, CancelTurnIs DEF Runs
  <2>3. Calm(work') /\ Stays(work', work, "delegate")
    BY <2>1, <2>2, <1>c, <1>g, <1>p
  <2>4. UNCHANGED <<lock, rec, call, att, timers>>
    BY <1>7, <1>c, <2>1, <2>2 DEF StopCancel
  <2> QED
    BY <1>c, <2>2, <2>3, <2>4, TurnRests
<1> QED
  BY <1>1, <1>2, <1>3, <1>4, <1>5, <1>6, <1>7

\* While the turn is sent or busy an inspection tells at most that it runs.
LEMMA HearsTurn ==
    ASSUME TypeOK, Runs, NEW x \in Seen \cup {Unknown}, Hears(x)
    PROVE  /\ x.out = "none" /\ (x.state = "running" \/ x = Unknown) /\ Unknown.state = "unknown" /\ Unknown.out = "none"
           /\ x = Unknown \/ host = "busy"
<1>1. Unknown.state = "unknown" /\ Unknown.out = "none"
  BY DEF Unknown, NoInspection
<1>2. CASE x = Unknown
  BY <1>1, <1>2
<1>3. CASE x # Unknown
  <2>1. x \in Seen /\ host = "busy"
    BY <1>3 DEF Hears, Runs
  <2> QED
    BY <1>1, <2>1, SeenType DEF TypeOK
<1> QED
  BY <1>2, <1>3

\* What the inspections of an event, recovery and a flush come to.
LEMMA InspectTurn ==
    ASSUME TypeOK, Runs, Clean, Calling, NEW w \in Inspector, Inspect(w)
    PROVE  TurnRight'
<1>t. Works(work) /\ att \in Attempts /\ call \in Calls /\ w \in Worker
  BY Workers DEF TypeOK
<1>c. Calm(work) /\ CleanAttempt(att) /\ CleanRecord(rec) /\ att.tracked /\ lock
  BY DEF Clean, CleanAttempt
<1>w. w \in {"delegate", "event", "flush", "recover"} /\ w # "settleTimer"
  BY <1>c, <1>t DEF Inspector, Inspect, Ready, Calm, CalmPc
<1>p. work[w].pc = "reconcile"
  <2>1. work[w].pc \in {"reconcile", "known"}
    BY DEF Inspect, Ready
  <2>2. w \in {"event", "flush", "recover"} => work[w].pc # "known"
    BY <1>c, <1>t DEF Calm, CalmPc
  <2>3. w = "delegate" => work[w].pc # "known"
    BY DEF Calling, CalmStep, CallPc
  <2> QED
    BY <2>1, <2>2, <2>3, <1>w
<1>1. PICK x \in Seen \cup {Unknown} :
        /\ Hears(x) /\ Judge(w, x, work[w].pc = "known")
        /\ call' = IF w = "delegate" THEN [call EXCEPT !.heard = x.out] ELSE call
  BY DEF Inspect
<1>2. x.out = "none" /\ (x.state = "running" \/ x.state = "unknown")
  BY <1>1, HearsTurn
<1>3. call' = call
  <2>1. call.heard = "none"
    BY DEF Clean, CleanCall
  <2>2. w = "delegate" => call' = [call EXCEPT !.heard = "none"]
    BY <1>1, <1>2
  <2> QED
    BY <1>1, <1>t, <2>1, <2>2 DEF Calls
<1>4. UNCHANGED <<host, gone, events, phase>>
  BY DEF Inspect, HostRests
<1>5. \/ \E res \in {"error", "false"} : GoesBack(w, res)
      \/ MarkActive(w)
      \/ work' = Back(work, w, "false") /\ lock' = TRUE /\ UNCHANGED <<rec, att, timers>>
  <2>1. ~Stopped(att, x)
    BY <1>2 DEF Stopped
  <2>2. ~(work[w].pc = "known")
    BY <1>p
  <2>3. x.state # "missing" /\ x.state # "idle"
    BY <1>2
  <2>4. [att EXCEPT !.tracked = TRUE] = att
    BY <1>t, <1>c DEF Attempts
  <2> HIDE DEF GoesBack, MarkActive, Back
  <2> QED
    BY <1>1, <2>1, <2>2, <2>3, <2>4 DEF Judge
<1>6. ASSUME NEW res \in {"error", "false"}, work' = Back(work, w, res), UNCHANGED <<rec, att, timers>>, lock' = lock
      PROVE  TurnRight'
  <2>1. Calm(work')
    BY <1>6, <1>t, <1>c, <1>w, CalmBack
  <2>2. CASE w # "delegate"
    <3>1. Stays(work', work, "delegate")
      BY <1>6, <2>2, <1>t, GoesBackOwn, OwnStays
    <3> QED
      BY <1>3, <1>4, <1>6, <1>c, <2>1, <3>1, TurnRests
  <2>3. CASE w = "delegate"
    <3>1. work'["delegate"].pc = "judged" /\ work'["delegate"].on = "none" /\ work'["delegate"].res = res
      BY <1>6, <1>t, <2>3, BackIs DEF BackPc
    <3>2. CalmStep(work["delegate"])'
      BY <3>1 DEF CalmStep, CallPc
    <3>3. host = "busy" \/ call.aborted
      BY <1>p, <2>3 DEF Calling, At
    <3>4. Calling'
      BY <1>3, <1>4, <3>1, <3>2, <3>3 DEF Calling, At
    <3>5. Clean'
      BY <1>3, <1>4, <1>6, <2>1 DEF Clean
    <3> QED
      BY <3>4, <3>5 DEF TurnRight
  <2> QED
    BY <2>2, <2>3
<1>7. ASSUME MarkActive(w) PROVE TurnRight'
  <2>1. Calm(work') /\ work'[w].pc = "evident" /\ work'[w].on = "P"
    BY <1>7, <1>t, <1>c, <1>w, CalmMark
  <2>2. /\ att' = Invalidated(att) /\ timers' = timers \ {"settle"} /\ UNCHANGED <<rec, lock>>
        /\ \A v \in Worker \ {w, "P"} : Stale(work', work, v)
    BY <1>7, <1>t, MarkActiveIs
  <2>3. CleanAttempt(att')
    BY <2>2, <1>t, <1>c, InvalidatedIs DEF CleanAttempt
  <2>4. CASE w # "delegate"
    <3>1. Stays(work', work, "delegate")
      BY <2>2, <2>4, Workers DEF Stale, Stays, Promises
    <3> QED
      BY <1>3, <1>4, <2>1, <2>2, <2>3, <3>1, TurnRests
  <2>5. CASE w = "delegate"
    <3>1. CalmStep(work["delegate"])'
      BY <2>1, <2>5 DEF CalmStep, CallPc
    <3>2. host = "busy" \/ call.aborted
      BY <1>p, <2>5 DEF Calling, At
    <3>3. Calling'
      BY <1>3, <1>4, <2>1, <2>5, <3>1, <3>2 DEF Calling, At
    <3>4. Clean'
      BY <1>3, <1>4, <2>1, <2>2, <2>3 DEF Clean
    <3> QED
      BY <3>3, <3>4 DEF TurnRight
  <2> QED
    BY <2>4, <2>5
<1> QED
  BY <1>5, <1>6, <1>7, <1>c DEF GoesBack

\* An inspector that found the turn working writes it down.
LEMMA MarkedTurn ==
    ASSUME TypeOK, Runs, Clean, Calling, NEW w \in Inspector, Marked(w) \/ Waited(w)
    PROVE  TurnRight'
<1>t. Works(work) /\ att \in Attempts /\ call \in Calls /\ w \in Worker
  BY Workers DEF TypeOK
<1>c. Calm(work) /\ CleanAttempt(att) /\ CleanRecord(rec) /\ att.tracked /\ lock
  BY DEF Clean, CleanAttempt
<1>w. w \in {"delegate", "event", "flush", "recover"} /\ w # "settleTimer"
  BY <1>c, <1>t DEF Inspector, Marked, Waited, Ready, Calm, CalmPc
<1>p. work[w].pc \in {"active", "evident"}
  <2>1. work[w].pc \in {"active", "settled", "evident", "buried"}
    BY DEF Marked, Waited, Ready
  <2>2. w \in {"event", "flush", "recover"} => work[w].pc \notin {"settled", "buried"}
    BY <1>c, <1>t DEF Calm, CalmPc
  <2>3. w = "delegate" => work[w].pc \notin {"settled", "buried"}
    BY DEF Calling, CalmStep, CallPc
  <2> QED
    BY <2>1, <2>2, <2>3, <1>w
<1>4. UNCHANGED <<host, gone, events, phase, call>>
  BY DEF Marked, Waited, Keep, HostRests
<1>5. \/ \E res \in {"error", "false"} : GoesBack(w, res)
      \/ work' = Awaits(work, w, "P", "evident") /\ UNCHANGED <<rec, att, lock, timers>>
  BY <1>p, <1>c DEF Marked, Waited, Ready
<1>b. ASSUME w = "delegate" PROVE host = "busy" \/ call.aborted
  BY <1>p, <1>b DEF Calling, At
<1>6. ASSUME NEW res \in {"error", "false"}, GoesBack(w, res) PROVE TurnRight'
  <2>1. work' = Back(work, w, res) /\ UNCHANGED <<rec, att, lock, timers>>
    BY <1>6 DEF GoesBack
  <2>2. Calm(work')
    BY <2>1, <1>t, <1>c, <1>w, CalmBack
  <2>3. CASE w # "delegate"
    <3>1. Stays(work', work, "delegate")
      BY <2>1, <2>3, <1>t, GoesBackOwn, OwnStays
    <3> QED
      BY <1>4, <2>1, <1>c, <2>2, <3>1, TurnRests
  <2>4. CASE w = "delegate"
    <3>1. work'["delegate"].pc = "judged" /\ work'["delegate"].on = "none" /\ work'["delegate"].res = res
      BY <2>1, <1>t, <2>4, BackIs DEF BackPc
    <3>2. CalmStep(work["delegate"])'
      BY <3>1 DEF CalmStep, CallPc
    <3>3. Calling'
      BY <1>4, <1>b, <2>4, <3>1, <3>2 DEF Calling, At
    <3>4. Clean'
      BY <1>4, <2>1, <2>2 DEF Clean
    <3> QED
      BY <3>3, <3>4 DEF TurnRight
  <2> QED
    BY <2>3, <2>4
<1>7. ASSUME work' = Awaits(work, w, "P", "evident"), UNCHANGED <<rec, att, lock, timers>> PROVE TurnRight'
  <2>1. CalmPc(w, "evident") /\ "P" \in Promises /\ w # "P"
    BY <1>w DEF CalmPc, Promises
  <2>2. CASE w # "delegate"
    <3>1. Calm(work') /\ Stays(work', work, "delegate")
      BY <1>7, <1>t, <1>c, <2>1, <2>2, AwaitsTurn
    <3> QED
      BY <1>4, <1>7, <1>c, <3>1, TurnRests
  <2>3. CASE w = "delegate"
    <3>1. Calm(work')
      BY <1>7, <1>t, <1>c, <2>1, CalmAwaits
    <3>2. work'["delegate"].pc = "evident"
      BY <1>7, <1>t, <2>1, <2>3, AwaitsOwn
    <3>3. CalmStep(work["delegate"])'
      BY <3>2 DEF CalmStep, CallPc
    <3>4. Calling'
      BY <1>4, <1>b, <2>3, <3>2, <3>3 DEF Calling, At
    <3>5. Clean'
      BY <1>4, <1>7, <3>1 DEF Clean
    <3> QED
      BY <3>4, <3>5 DEF TurnRight
  <2> QED
    BY <2>2, <2>3
<1> QED
  BY <1>5, <1>6, <1>7

\* A sequence of busy events, and what is left of it.
LEMMA BusyTail ==
    ASSUME NEW s \in Seq({"busy"}), s # <<>>
    PROVE  Head(s) = "busy" /\ Tail(s) \in Seq({"busy"})
<1>1. Len(s) \in Nat /\ Len(s) # 0
  BY EmptySeq
<1>2. Head(s) \in {"busy"}
  BY <1>1, HeadTailProperties
<1>3. Tail(s) \in Seq({"busy"})
  BY <1>1, HeadTailProperties
<1> QED
  BY <1>2, <1>3

\* Events, timers and the request that stops the child.
LEMMA SignalsTurn ==
    ASSUME TypeOK, Runs, Runs', Clean, Calling,
           EventHandled \/ TimerEnds \/ CancelTimer \/ StopFences \/ StopsTurn
    PROVE  TurnRight'
<1>t. Works(work) /\ att \in Attempts /\ call \in Calls
  BY DEF TypeOK
<1>c. Calm(work) /\ CleanAttempt(att) /\ CleanRecord(rec) /\ CleanCall(call) /\ lock /\ timers \subseteq {"cancel"}
      /\ events \in Seq({"busy"})
  BY DEF Clean
<1>g. ASSUME NEW w \in Worker \ {"delegate"}, NEW pc \in {"idle", "cancel"}, work' = Goto(work, w, pc),
             w \in {"event", "cancelTimer", "tombTimer"} => pc = "idle",
             w \in {"event", "cancelTimer", "tombTimer", "stop"}
      PROVE  Calm(work') /\ Stays(work', work, "delegate")
  <2>1. CalmPc(w, pc)
    BY <1>g DEF CalmPc
  <2> QED
    BY <1>g, <1>t, <1>c, <2>1, CalmGoto, GoesOn, StaysIs
<1>u. "event" \in Worker \ {"delegate"} /\ "cancelTimer" \in Worker \ {"delegate"}
      /\ "tombTimer" \in Worker \ {"delegate"} /\ "stop" \in Worker \ {"delegate"}
  BY DEF Worker
<1>1. ASSUME EventHandled PROVE TurnRight'
  <2>1. /\ work' = Goto(work, "event", "idle") /\ UNCHANGED <<host, gone, rec, att, lock, timers, call, phase>>
        /\ events' = events \/ (events # <<>> /\ events' = Tail(events))
    BY <1>1 DEF EventHandled
  <2>2. Calm(work') /\ Stays(work', work, "delegate")
    BY <1>g, <1>u, <2>1
  <2>3. events' \in Seq({"busy"})
    BY <1>c, <2>1, BusyTail
  <2> QED
    BY <1>c, <2>1, <2>2, <2>3, TurnKept
<1>2. ASSUME TimerEnds PROVE TurnRight'
  <2>1. PICK t \in {"cancel", "tomb"} :
          LET w == IF t = "cancel" THEN "cancelTimer" ELSE "tombTimer" IN
          /\ Ready(w, "expired")
          /\ timers' = timers \cup (IF work[w].res = "error" /\ att.tracked THEN {t} ELSE {})
          /\ work' = Goto(work, w, "idle")
          /\ UNCHANGED <<rec, att, lock>> /\ Keep
    BY <1>2 DEF TimerEnds
  <2>2. t = "cancel"
    BY <2>1, <1>u, <1>c DEF Ready, Calm, CalmPc
  <2>3. work' = Goto(work, "cancelTimer", "idle") /\ timers' \subseteq timers \cup {"cancel"}
        /\ UNCHANGED <<rec, att, lock, call, host, events>>
    BY <2>1, <2>2 DEF Keep, HostRests
  <2>4. Calm(work') /\ Stays(work', work, "delegate")
    BY <1>g, <1>u, <2>3
  <2> QED
    BY <1>c, <2>3, <2>4, TurnRests
<1>3. ASSUME CancelTimer PROVE TurnRight'
  <2>1. /\ UNCHANGED <<rec, att, lock, call, host, events>> /\ timers' \subseteq timers
        /\ work' = Awaits(work, "cancelTimer", "H", "expired") \/ work' = work
    BY <1>3 DEF CancelTimer, Timer, Keep, HostRests
  <2>2. Calm(work') /\ Stays(work', work, "delegate")
    <3>1. CASE work' = work
      BY <3>1, <1>c DEF Stays
    <3>2. CASE work' = Awaits(work, "cancelTimer", "H", "expired")
      <4>1. CalmPc("cancelTimer", "expired")
        BY DEF CalmPc
      <4> QED
        BY <3>2, <4>1, <1>u, <1>c, AwaitsTurn
    <3> QED
      BY <2>1, <3>1, <3>2
  <2> QED
    BY <1>c, <2>1, <2>2, TurnRests
<1>k. ASSUME NEW pc \in {"idle", "cancel"}, work' = Goto(work, "stop", pc),
             call' = call \/ call' = [call EXCEPT !.stop = "error"],
             UNCHANGED <<rec, att, lock, timers, host, events>>
      PROVE  TurnRight'
  <2>1. Calm(work') /\ Stays(work', work, "delegate")
    BY <1>k, <1>g, <1>u
  <2>2. CleanCall(call') /\ call'.status = call.status /\ (call.aborted => call'.aborted)
    BY <1>k, <1>t, <1>c DEF CleanCall, Calls
  <2> QED
    BY <1>k, <1>c, <2>1, <2>2, TurnKept
<1>4. ASSUME StopFences PROVE TurnRight'
  BY <1>4, <1>k DEF StopFences, HostRests
<1>5. ASSUME StopsTurn PROVE TurnRight'
  <2>1. PICK yes \in BOOLEAN : /\ CancelTurn(yes)
                               /\ call' = [call EXCEPT !.stop = IF yes THEN "done" ELSE "error"]
    BY <1>5 DEF StopsTurn
  <2>2. ~yes /\ UNCHANGED <<host, events>>
    BY <2>1, CancelTurnIs DEF Runs
  <2> QED
    BY <1>5, <2>1, <2>2, <1>k DEF StopsTurn
<1> QED
  BY <1>1, <1>2, <1>3, <1>4, <1>5

\* Only a busy event can come.
LEMMA BeginEventTurn ==
    ASSUME TypeOK, Runs, Clean, Calling, BeginEvent
    PROVE  TurnRight'
<1>t. Works(work) /\ att \in Attempts /\ call \in Calls /\ "event" \in Worker \ {"delegate"} /\ "event" \in Inspector
  BY DEF TypeOK, Worker, Inspector
<1>c. Calm(work) /\ CleanAttempt(att) /\ CleanRecord(rec) /\ CleanCall(call) /\ lock /\ timers \subseteq {"cancel"}
      /\ events \in Seq({"busy"}) /\ att.tracked /\ ~att.answered
  BY DEF Clean, CleanAttempt
<1>1. events # <<>> /\ Head(events) = "busy" /\ Tail(events) \in Seq({"busy"})
  BY <1>c, BusyTail DEF BeginEvent
<1>k. ASSUME UNCHANGED <<host, rec, lock, call>>, events' \in {events, Tail(events)}, timers' \subseteq timers,
             CleanAttempt(att'), Calm(work'), Stays(work', work, "delegate")
      PROVE  TurnRight'
  BY <1>k, <1>c, <1>1, TurnKept
<1>2. UNCHANGED call
  BY DEF BeginEvent
<1>3. CleanAttempt(Invalidated(att))
  BY <1>t, <1>c, InvalidatedIs DEF CleanAttempt
<1>4. CASE att' = Invalidated(att) /\ work' = Overtake(work) /\ timers' = timers \ {"settle"}
           /\ Popped /\ UNCHANGED <<rec, lock>>
  <2>1. Calm(work')
    BY <1>4, <1>t, <1>c, CalmOvertake
  <2>2. Stays(work', work, "delegate")
    BY <1>4, <1>t, OvertakeSteps, StaysIs
  <2> QED
    BY <1>2, <1>3, <1>4, <1>k, <2>1, <2>2 DEF Popped
<1>5. CASE Dropped
  <2>1. Stays(work', work, "delegate") /\ Calm(work')
    BY <1>5, <1>c DEF Dropped, Stays
  <2> QED
    BY <1>c, <1>2, <1>5, <1>k, <2>1 DEF Dropped, Popped
<1>6. CASE MarkActive("event") /\ HostRests
  <2>1. Calm(work')
    BY <1>6, <1>t, <1>c, CalmMark
  <2>2. /\ att' = Invalidated(att) /\ timers' = timers \ {"settle"} /\ UNCHANGED <<rec, lock>>
        /\ \A v \in Worker \ {"event", "P"} : Stale(work', work, v)
    BY <1>6, <1>t, MarkActiveIs
  <2>3. Stays(work', work, "delegate")
    BY <2>2, Workers DEF Stale, Stays, Promises
  <2> QED
    BY <1>2, <1>3, <1>6, <1>k, <2>1, <2>2, <2>3 DEF HostRests
<1> HIDE DEF MarkActive, Dropped, Popped
<1>7. Head(events) # "deleted"
  BY <1>1
<1> QED
  BY <1>1, <1>4, <1>5, <1>6, <1>7, <1>c DEF BeginEvent

\* A recovery forgets the attempt of a call that is over ...
LEMMA RecoverReadTurn ==
    ASSUME TypeOK, Runs, Clean, Calling, OwnedRight, RecoverRead
    PROVE  TurnRight'
<1>t. Works(work) /\ att \in Attempts /\ rec \in Record /\ "recover" \in Worker \ {"delegate"}
  BY DEF TypeOK, Worker
<1>c. Calm(work) /\ CleanAttempt(att) /\ CleanRecord(rec) /\ lock /\ att.tracked
  BY DEF Clean, CleanAttempt
<1>1. UNCHANGED <<rec, call, host, events, timers, lock>>
  BY DEF RecoverRead, Keep, HostRests
<1>2. CASE work' = Goto(work, "recover", "idle") /\ UNCHANGED att
  <2>1. CalmPc("recover", "idle")
    BY DEF CalmPc
  <2>2. Calm(work') /\ Stays(work', work, "delegate")
    BY <1>2, <1>t, <1>c, <2>1, CalmGoto, GoesOn, StaysIs
  <2> QED
    BY <1>1, <1>2, <1>c, <2>2, TurnRests
<1>3. CASE ~(work' = Goto(work, "recover", "idle") /\ UNCHANGED att)
  <2> DEFINE cancel == rec.cancel
             invalid == rec.invalid
             at == rec.at
             term == PersistedTerminal({rec})
             confirmed == att.confirmed \/ rec.confirmed
             missing == att.missing \/ rec.confirmed
  <2>1. /\ att' = [att EXCEPT !.tracked = FALSE, !.ids = {at}, !.cancel = cancel, !.confirmed = confirmed,
                              !.missing = missing, !.invalid = invalid, !.term = term]
        /\ work' = Goto(work, "recover", "authority") /\ att.fg = "none"
    BY <1>3, <1>c DEF RecoverRead
  <2>2. term = NoRecord
    <3>1. ~Stands({rec}, rec)
      BY <1>c DEF Stands, CleanRecord, Terminal
    <3>2. {rec} \in SUBSET Record
      BY <1>t
    <3> QED
      BY <3>1, <3>2, PersistedTerminalIs DEF Stands
  <2>3. at = "child" /\ ~confirmed /\ ~missing
    BY <1>c DEF CleanRecord, CleanAttempt
  <2>8. At("delegate") = "done"
    BY <2>1 DEF OwnedRight
  <2> HIDE DEF cancel, invalid, at, term, confirmed, missing
  <2>4. CleanAttempt([att' EXCEPT !.tracked = TRUE]) /\ ~att'.tracked
    BY <2>1, <2>2, <2>3, <1>t, <1>c DEF CleanAttempt, Attempts
  <2>5. CalmPc("recover", "authority")
    BY DEF CalmPc
  <2>6. Calm(work')
    BY <2>1, <2>5, <1>t, <1>c, CalmGoto
  <2>7. work'["recover"].pc = "authority" /\ work'["delegate"] = work["delegate"]
    <3>1. "delegate" \in Worker \ {"recover"}
      BY DEF Worker
    <3> QED
      BY <2>1, <3>1, <1>t, GoesOn
  <2>9. Forgotten'
    BY <1>1, <1>c, <2>4, <2>6, <2>7, <2>8 DEF Forgotten, Clean, At
  <2> QED
    BY <2>9 DEF TurnRight
<1> QED
  BY <1>2, <1>3

\* ... and remembers it when it knows its authority.
LEMMA RecoverLocksTurn ==
    ASSUME TypeOK, (Clean /\ Calling) \/ Forgotten, RecoverLocks
    PROVE  TurnRight'
<1>t. Works(work) /\ att \in Attempts /\ "recover" \in Worker /\ "delegate" \in Worker \ {"recover"}
  BY DEF TypeOK, Worker
<1>1. /\ att' = [att EXCEPT !.tracked = TRUE] /\ lock' = TRUE /\ work' = Inspects(work, "recover", "reconcile")
      /\ UNCHANGED <<rec, timers, call, host, events>>
  BY DEF RecoverLocks, Keep, HostRests
<1>2. CleanAttempt(att')
  <2>1. CASE Forgotten
    BY <1>1, <2>1 DEF Forgotten
  <2>2. CASE Clean
    BY <1>1, <1>t, <2>2 DEF Clean, CleanAttempt, Attempts
  <2> QED
    BY <2>1, <2>2
<1>3. Calm(work) /\ CalmPc("recover", "reconcile")
  BY DEF CalmPc, Clean, Forgotten
<1>4. Calm(work')
  BY <1>1, <1>3, <1>t, CalmGoto
<1>5. work'["delegate"] = work["delegate"]
  BY <1>1, <1>t, InspectsIs DEF Puts
<1>6. Clean'
  BY <1>1, <1>2, <1>4 DEF Clean, Forgotten
<1>7. Calling'
  <2>1. CASE Clean /\ Calling
    BY <1>1, <1>5, <2>1 DEF Calling, At
  <2>2. CASE Forgotten
    BY <1>5, <2>2 DEF Forgotten, Calling, CalmStep, CallPc, At
  <2> QED
    BY <2>1, <2>2
<1> QED
  BY <1>6, <1>7 DEF TurnRight

\* A signal asks for a cancellation; the turn may go on.
LEMMA CancelledTurn ==
    ASSUME NEW c \in Calls, CleanCall(c), NEW a \in Attempts, CleanAttempt(a), NEW W, Works(W), Calm(W),
           W["delegate"].pc \in CallPc
    PROVE  LET r == Cancelled(c, a, W) IN
           /\ CleanCall(r.c) /\ r.c.status = c.status /\ (c.aborted => r.c.aborted)
           /\ CleanAttempt(r.a) /\ Calm(r.W) /\ Stays(r.W, W, "delegate")
<1> DEFINE r == Cancelled(c, a, W)
           V == Awaits(W, "stop", "C", "fenced")
           d == [c EXCEPT !.aborted = TRUE, !.stop = IF c.stop = "none" THEN "asked" ELSE c.stop]
           b == [a EXCEPT !.cancel = TRUE]
<1>1. CleanCall(d) /\ d.status = c.status /\ d.aborted
  BY DEF CleanCall, Calls
<1>2. CleanAttempt(b)
  BY DEF CleanAttempt, Attempts
<1>3. Calm(V) /\ Stays(V, W, "delegate")
  <2>1. CalmPc("stop", "fenced") /\ "stop" \in Worker /\ "stop" # "C" /\ "C" \in Promises
        /\ "delegate" \in Worker /\ "delegate" \notin {"stop", "C"}
    BY DEF CalmPc, Worker, Promises
  <2>2. Works(V) /\ \A v \in Worker \ {"stop", "C"} : V[v] = W[v]
    BY <2>1, AwaitsIs
  <2>3. Stays(V, W, "delegate")
    BY <2>1, <2>2 DEF Stays
  <2> QED
    BY <2>1, <2>3, CalmAwaits
<1>4. Stays(W, W, "delegate")
  BY DEF Stays
<1>5. \/ r.c = c /\ r.a = a /\ r.W = W
      \/ r.c = d /\ r.a = b /\ r.W \in {V, W}
  BY DEF Cancelled, CallPc
<1> HIDE DEF r, V, d, b
<1>6. /\ CleanCall(r.c) /\ r.c.status = c.status /\ (c.aborted => r.c.aborted)
      /\ CleanAttempt(r.a) /\ Calm(r.W) /\ Stays(r.W, W, "delegate")
  BY <1>1, <1>2, <1>3, <1>4, <1>5
<1> QED
  BY <1>6 DEF r

\* Signals, flushes and what goes on whatever the turn does.
LEMMA PhasesTurn ==
    ASSUME TypeOK, FlushRight, Runs, Runs', Clean, Calling, AbortCall \/ Flush \/ FlushFails \/ Lifecycle \/ RecoverSession \/ HostBegins
    PROVE  TurnRight'
<1>t. Works(work) /\ att \in Attempts /\ call \in Calls
  BY DEF TypeOK
<1>w. "delegate" \in Worker /\ "flush" \in Worker \ {"delegate"} /\ "recover" \in Worker \ {"delegate"}
  BY DEF Worker
<1>c. Calm(work) /\ CleanAttempt(att) /\ CleanRecord(rec) /\ CleanCall(call) /\ lock /\ timers \subseteq {"cancel"}
      /\ events \in Seq({"busy"}) /\ work["delegate"].pc \in CallPc
  BY DEF Clean, Calling, CalmStep
<1>1. ASSUME AbortCall PROVE TurnRight'
  <2>1. /\ UNCHANGED <<rec, lock, timers, host, events>>
        /\ LET r == Cancelled(call, att, work) IN call' = r.c /\ att' = r.a /\ work' = r.W
    BY <1>1, <1>c DEF AbortCall, HostRests, CallPc
  <2>2. /\ CleanCall(call') /\ call'.status = call.status /\ (call.aborted => call'.aborted)
        /\ CleanAttempt(att') /\ Calm(work') /\ Stays(work', work, "delegate")
    BY <2>1, <1>t, <1>c, CancelledTurn
  <2> QED
    BY <1>c, <2>1, <2>2, TurnKept
<1>2. ASSUME Flush PROVE TurnRight'
  <2> DEFINE U == Goto(work, "flush", "inflight")
  <2>1. /\ UNCHANGED <<rec, lock, timers, host, events>>
        /\ LET r == Cancelled(call, att, U) IN call' = r.c /\ att' = r.a /\ work' = r.W
    BY <1>2 DEF Flush, HostRests
  <2>2. Works(U) /\ U["delegate"] = work["delegate"]
    BY <1>t, <1>w, GotoIs DEF Puts
  <2>3. Calm(U)
    <3>1. CalmPc("flush", "inflight")
      BY DEF CalmPc
    <3> QED
      BY <1>t, <1>c, <1>w, <3>1, CalmGoto
  <2> HIDE DEF U
  <2>4. /\ CleanCall(call') /\ call'.status = call.status /\ (call.aborted => call'.aborted)
        /\ CleanAttempt(att') /\ Calm(work') /\ Stays(work', U, "delegate")
    BY <2>1, <2>2, <2>3, <1>t, <1>c, CancelledTurn
  <2>5. Stays(work', work, "delegate")
    BY <2>2, <2>4 DEF Stays
  <2> QED
    BY <1>c, <2>1, <2>4, <2>5, TurnKept
<1>g. ASSUME NEW w \in {"flush", "recover"}, NEW pc \in {"idle", "read"}, w = "flush" => pc = "idle", work' = Goto(work, w, pc)
      PROVE  Calm(work') /\ Stays(work', work, "delegate")
  <2>1. CalmPc(w, pc)
    BY <1>g DEF CalmPc
  <2> QED
    BY <1>g, <1>t, <1>w, <1>c, <2>1, CalmGoto, GoesOn, StaysIs
<1>3. ASSUME FlushFails PROVE TurnRight'
  <2>1. work' = Goto(work, "flush", "idle") /\ UNCHANGED <<rec, att, lock, timers, call, host, events>>
    BY <1>3 DEF FlushFails, HostRests
  <2>2. Calm(work') /\ Stays(work', work, "delegate")
    BY <2>1, <1>g
  <2> QED
    BY <1>c, <2>1, <2>2, TurnRests
<1>4. ASSUME Lifecycle PROVE TurnRight'
  <2>1. UNCHANGED <<rec, att, lock, timers, call, work, host, events>>
    BY <1>4 DEF Lifecycle, HostRests, Runs
  <2>2. Stays(work', work, "delegate")
    BY <2>1 DEF Stays
  <2> QED
    BY <1>c, <2>1, <2>2, TurnRests
<1>5. ASSUME RecoverSession PROVE TurnRight'
  <2>1. work' = Goto(work, "recover", "read") /\ UNCHANGED <<rec, att, lock, timers, call, host, events>>
    BY <1>5 DEF RecoverSession, HostRests
  <2>2. Calm(work') /\ Stays(work', work, "delegate")
    BY <2>1, <1>g
  <2> QED
    BY <1>c, <2>1, <2>2, TurnRests
<1>6. ASSUME HostBegins PROVE TurnRight'
  <2>1. host' = "busy" /\ UNCHANGED <<rec, att, lock, timers, call, work>> /\ Tell("busy")
    BY <1>6 DEF HostBegins, MemoryRests
  <2>2. events' = events \/ events' = Append(events, "busy")
    BY <2>1 DEF Tell, Emits
  <2>3. events' \in Seq({"busy"})
    BY <2>2, <1>c, AppendProperties
  <2>4. Stays(work', work, "delegate")
    BY <2>1 DEF Stays
  <2> QED
    BY <1>c, <2>1, <2>3, <2>4, TurnKept
<1> QED
  BY <1>1, <1>2, <1>3, <1>4, <1>5, <1>6

\* A flush stops an attempt and waits.
LEMMA FlushLoopTurn ==
    ASSUME TypeOK, Runs, Clean, Calling, FlushNext \/ FlushBegins
    PROVE  TurnRight'
<1>t. Works(work)
  BY DEF TypeOK
<1>c. Calm(work) /\ CleanAttempt(att) /\ att.tracked /\ att.pending = NoInspection /\ att.ids # {}
  BY DEF Clean, CleanAttempt
<1>i. work["S"].pc = "idle" /\ work["M"].pc = "idle"
  BY <1>c, Workers DEF Calm, CalmPc
<1>1. FlushLoop
  BY DEF FlushNext, FlushBegins
<1>2. UNCHANGED <<rec, att, lock, timers, call, host, events>>
  BY <1>1 DEF FlushLoop, HostRests
<1>3. \E s \in {"P", "C", "H"} : work' = Awaits(work, "flush", s, "waited")
  BY <1>1, <1>c, <1>i DEF FlushLoop
<1>4. Calm(work') /\ Stays(work', work, "delegate")
  <2>1. CalmPc("flush", "waited") /\ "flush" \in Worker \ {"delegate"} /\ "flush" \notin {"P", "C", "H"}
    BY DEF CalmPc, Worker
  <2> QED
    BY <1>3, <1>c, <2>1, AwaitsTurn
<1> QED
  BY <1>2, <1>4, <1>c, TurnRests

\* A step of the call.
LEMMA CallTurn ==
    ASSUME lock', CleanAttempt(att'), CleanRecord(rec'), CleanCall(call'), events' \in Seq({"busy"}),
           timers' \subseteq {"cancel"}, Calm(work'), CalmStep(work'["delegate"]),
           work'["delegate"].pc = "retained" => call'.status = "unknown",
           work'["delegate"].pc \in {"turn", "done"} \/ host' = "busy" \/ call'.aborted
    PROVE  TurnRight'
  BY DEF TurnRight, Clean, Calling, At

\* The call ends uncertain of its turn and keeps the lock.
LEMMA EndsTurn ==
    ASSUME TypeOK, Clean, NEW outcome \in Outcomes, Ends(outcome, TRUE), UNCHANGED events
    PROVE  TurnRight'
<1>t. Works(work) /\ att \in Attempts /\ "delegate" \in Worker
  BY Workers DEF TypeOK
<1>1. /\ call' = Over(outcome) /\ lock' = lock /\ att' = [att EXCEPT !.fg = "none"]
      /\ work' = Goto(work, "delegate", "done") /\ UNCHANGED <<rec, timers>>
  BY DEF Ends, TypeOK
<1>2. CleanCall(call')
  BY <1>1, OverIs DEF CleanCall, TypeOK
<1>3. CleanAttempt(att')
  BY <1>t, <1>1 DEF Clean, CleanAttempt, Attempts
<1>4. CalmPc("delegate", "done") /\ Calm(work)
  BY DEF CalmPc, Clean
<1>5. Calm(work')
  BY <1>t, <1>1, <1>4, CalmGoto
<1>6. work'["delegate"].pc = "done"
  BY <1>t, <1>1, GoesOn
<1>7. CalmStep(work'["delegate"])
  BY <1>6 DEF CalmStep, CallPc
<1>8. lock' /\ CleanRecord(rec') /\ events' \in Seq({"busy"}) /\ timers' \subseteq {"cancel"}
  BY <1>1 DEF Clean
<1> QED
  BY <1>2, <1>3, <1>5, <1>6, <1>7, <1>8, CallTurn

\* The call learned that its turn may be working.
LEMMA ConcludeTurn ==
    ASSUME TypeOK, Clean, NEW c \in Calls, Conclude(c), c.retain, c.status = "unknown", CleanCall(c),
           UNCHANGED <<host, events>>, host = "busy" \/ c.aborted
    PROVE  TurnRight'
<1>t. Works(work) /\ att \in Attempts /\ "delegate" \in Worker
  BY Workers DEF TypeOK
<1>1. /\ call' = c /\ att' = Learned(c) /\ work' = Goto(work, "delegate", "retained") /\ UNCHANGED <<rec, lock, timers>>
  BY DEF Conclude, Learned, Known
<1>2. CleanAttempt(att')
  <2> DEFINE k == [att EXCEPT !.fg = "reconciling"]
             cancel == k.cancel \/ c.aborted \/ c.missing
             missing == k.missing \/ c.missing
             ids == IF c.missing THEN k.ids \ {"child"} ELSE k.ids
  <2>1. CleanAttempt(k) /\ k \in Attempts
    BY <1>t DEF Clean, CleanAttempt, Attempts
  <2>2. Known = k
    BY DEF Known, Clean, CleanAttempt
  <2>3. Learned(c) = [k EXCEPT !.cancel = cancel, !.missing = missing, !.ids = ids]
    BY <2>2 DEF Learned
  <2>4. missing = k.missing /\ ids = k.ids
    BY <2>1 DEF CleanCall, Attempts
  <2> HIDE DEF k, cancel, missing, ids
  <2> QED
    BY <1>1, <2>1, <2>3, <2>4 DEF CleanAttempt, Attempts
<1>3. CalmPc("delegate", "retained") /\ Calm(work)
  BY DEF CalmPc, Clean
<1>4. Calm(work')
  BY <1>t, <1>1, <1>3, CalmGoto
<1>5. work'["delegate"].pc = "retained"
  BY <1>t, <1>1, GoesOn
<1>6. CalmStep(work'["delegate"])
  BY <1>5 DEF CalmStep, CallPc
<1>7. lock' /\ CleanRecord(rec') /\ CleanCall(call') /\ events' \in Seq({"busy"}) /\ timers' \subseteq {"cancel"}
  BY <1>1 DEF Clean
<1> QED
  BY <1>1, <1>2, <1>4, <1>5, <1>6, <1>7, CallTurn

\* The request of the turn failed.
LEMMA RejectedTurn ==
    ASSUME TypeOK, Runs, Clean, Calling, Rejected
    PROVE  TurnRight'
<1>t. Works(work) /\ att \in Attempts /\ call \in Calls /\ "delegate" \in Worker
  BY Workers DEF TypeOK
<1>c. /\ lock /\ CleanAttempt(att) /\ CleanRecord(rec) /\ CleanCall(call) /\ events \in Seq({"busy"})
      /\ timers \subseteq {"cancel"} /\ Calm(work)
      /\ att.tracked /\ att.pending = NoInspection /\ call.answer = "none"
  BY DEF Clean, CleanAttempt, CleanCall
<1> DEFINE a == [att EXCEPT !.fg = "reconciling"]
<1>a. CleanAttempt(a)
  BY <1>t, <1>c DEF CleanAttempt, Attempts
<1>1. Caught("other") /\ UNCHANGED <<host, events>> /\ (call.aborted \/ host = "busy")
  BY DEF Rejected, Runs, HostRests
<1>2. \/ call.aborted /\ att' = a /\ StopsChild
      \/ ~call.aborted /\ att' = a /\ work' = Inspects(work, "delegate", "inspect") /\ UNCHANGED <<rec, lock, timers, call>>
  BY <1>1, <1>c DEF Caught
<1> HIDE DEF a, StopsChild
<1>3. ASSUME call.aborted, att' = a, StopsChild PROVE TurnRight'
  <2> DEFINE s == IF call.stop = "none" THEN "asked" ELSE call.stop
             U == Goto(work, "delegate", "stopping")
  <2>1. call' = [call EXCEPT !.stop = s] /\ UNCHANGED <<rec, lock, timers>>
        /\ work'["delegate"].pc = "stopping"
    BY <1>3, StopsChildIs
  <2>2. s # "done"
    BY <1>c DEF CleanCall
  <2> HIDE DEF s
  <2>3. CleanCall(call') /\ call'.aborted
    BY <1>3, <2>1, <2>2, <1>t, <1>c DEF CleanCall, Calls
  <2>4. Works(U) /\ Calm(U)
    <3>1. CalmPc("delegate", "stopping")
      BY DEF CalmPc
    <3> QED
      BY <1>t, <1>c, <3>1, CalmGoto, GotoIs DEF Puts
  <2>5. work' = U \/ work' = Awaits(U, "stop", "C", "fenced")
    BY <1>3 DEF StopsChild
  <2> HIDE DEF U
  <2>6. Calm(work')
    <3>1. CalmPc("stop", "fenced") /\ "stop" \in Worker
      BY DEF CalmPc, Worker
    <3> QED
      BY <2>4, <2>5, <3>1, CalmAwaits
  <2>7. CalmStep(work'["delegate"])
    BY <2>1 DEF CalmStep, CallPc
  <2> QED
    BY <1>1, <1>3, <1>a, <1>c, <2>1, <2>3, <2>6, <2>7, CallTurn
<1>4. ASSUME ~call.aborted, att' = a, work' = Inspects(work, "delegate", "inspect"), UNCHANGED <<rec, lock, timers, call>>
      PROVE  TurnRight'
  <2>1. CalmPc("delegate", "inspect")
    BY DEF CalmPc
  <2>a. Calm(work')
    BY <1>4, <1>t, <1>c, <2>1, CalmGoto
  <2>b. work'["delegate"].pc = "inspect"
    BY <1>4, <1>t, InspectsIs
  <2>2. Calm(work') /\ work'["delegate"].pc = "inspect"
    BY <2>a, <2>b
  <2>3. CalmStep(work'["delegate"])
    BY <2>2 DEF CalmStep, CallPc
  <2> QED
    BY <1>1, <1>4, <1>a, <1>c, <2>2, <2>3, CallTurn
<1> QED
  BY <1>2, <1>3, <1>4

\* The cancellation was not acknowledged.
LEMMA StoppingTurn ==
    ASSUME TypeOK, Runs, Clean, Calling, Stopping
    PROVE  TurnRight'
<1> DEFINE d == [call EXCEPT !.status = "unknown", !.retain = TRUE, !.uncertain = TRUE]
<1>1. call \in Calls /\ CleanCall(call) /\ UNCHANGED <<host, events>> /\ (host = "busy" \/ call.aborted)
  BY DEF TypeOK, Clean, Stopping, HostRests, Calling, Ready, At
<1>2. d \in Calls /\ CleanCall(d) /\ d.retain /\ d.status = "unknown" /\ d.aborted = call.aborted
  BY <1>1 DEF CleanCall, Calls, Statuses
<1>3. Conclude(d)
  BY DEF Stopping, Clean, CleanAttempt, CleanCall
<1> HIDE DEF d, Conclude
<1> QED
  BY <1>1, <1>2, <1>3, ConcludeTurn

\* The call finds its turn working or learns nothing.
LEMMA InspectOwnTurn ==
    ASSUME TypeOK, Runs, Clean, Calling, InspectOwn
    PROVE  TurnRight'
<1> DEFINE u == [call EXCEPT !.status = "unknown", !.uncertain = TRUE]
           r == [u EXCEPT !.retain = TRUE]
           s == [r EXCEPT !.over = TRUE]
<1>1. call \in Calls /\ CleanCall(call) /\ UNCHANGED <<host, events>> /\ (host = "busy" \/ call.aborted) /\ att.tracked
  BY DEF TypeOK, Clean, InspectOwn, HostRests, Calling, Ready, At, CleanAttempt
<1>2. u \in Calls /\ CleanCall(u) /\ u.status = "unknown" /\ u.aborted = call.aborted
  BY <1>1 DEF CleanCall, Calls, Statuses
<1>3. r \in Calls /\ CleanCall(r) /\ r.status = "unknown" /\ r.aborted = call.aborted /\ r.retain
  <2> HIDE DEF u
  <2> QED
    BY <1>2 DEF CleanCall, Calls
<1>4. s \in Calls /\ CleanCall(s) /\ s.status = "unknown" /\ s.aborted = call.aborted /\ s.retain
  <2> HIDE DEF r
  <2> QED
    BY <1>3 DEF CleanCall, Calls
<1>5. Conclude(r) \/ Conclude(s)
  <2> HIDE DEF Conclude, Ends
  <2>1. PICK x \in Seen \cup {Unknown} :
          /\ Hears(x)
          /\ IF ~work["delegate"].fresh
             THEN IF att.tracked THEN Conclude(s) ELSE Ends("failed", FALSE)
             ELSE IF x.out = "error" THEN Conclude([call EXCEPT !.status = "failed"])
             ELSE IF x.out = "result" THEN Conclude([call EXCEPT !.status = "reported-completed", !.answer = "result"])
             ELSE IF x.state \in {"unknown", "running"} THEN Conclude(r) ELSE TRUE
    BY DEF InspectOwn
  <2>2. x.out = "none" /\ x.state \in {"unknown", "running"}
    BY <2>1, HearsTurn
  <2> QED
    BY <1>1, <2>1, <2>2
<1> HIDE DEF u, r, s, Conclude
<1> QED
  BY <1>1, <1>3, <1>4, <1>5, ConcludeTurn

\* The record says that the lock is kept.
LEMMA RetainedLockTurn ==
    ASSUME TypeOK, Runs, Clean, Calling, RetainedLock
    PROVE  TurnRight'
<1>t. Works(work) /\ att \in Attempts /\ call \in Calls /\ rec \in Record /\ "delegate" \in Worker
  BY Workers DEF TypeOK
<1>c. /\ lock /\ CleanAttempt(att) /\ CleanRecord(rec) /\ CleanCall(call) /\ events \in Seq({"busy"})
      /\ timers \subseteq {"cancel"} /\ Calm(work) /\ ~call.missing
  BY DEF Clean, CleanCall
<1>p. call.status = "unknown" /\ (host = "busy" \/ call.aborted)
  BY DEF RetainedLock, Ready, Calling, At
<1> DEFINE kept == rec.cancel \/ att.cancel
           a == [att EXCEPT !.tracked = TRUE]
<1>1. /\ UNCHANGED <<lock, call, host, events>> /\ timers' \subseteq {"cancel"}
      /\ rec' = rec \/ rec' = [rec EXCEPT !.status = "unknown", !.cancel = kept]
      /\ \/ att' = a /\ work' = Finish(work, "delegate", "judged", "false")
         \/ att' = a /\ work' = Inspects(work, "delegate", "reconcile")
  BY <1>c, <1>p DEF RetainedLock, HostRests
<1>2. CleanAttempt(a)
  BY <1>t, <1>c DEF CleanAttempt, Attempts
<1> HIDE DEF kept, a
<1>3. CleanRecord(rec')
  BY <1>1, <1>t, <1>c DEF CleanRecord, Record
<1>4. CalmPc("delegate", "judged") /\ CalmPc("delegate", "reconcile")
  BY DEF CalmPc
<1>5. Calm(work')
  <2>1. CASE work' = Finish(work, "delegate", "judged", "false")
    BY <2>1, <1>4, <1>t, <1>c, CalmGoto
  <2>2. CASE work' = Inspects(work, "delegate", "reconcile")
    BY <2>2, <1>4, <1>t, <1>c, CalmGoto
  <2> QED
    BY <1>1, <2>1, <2>2
<1>6. CalmStep(work'["delegate"]) /\ work'["delegate"].pc # "retained"
  <2>1. CASE work' = Finish(work, "delegate", "judged", "false")
    BY <2>1, <1>t, FinishIs DEF CalmStep, CallPc
  <2>2. CASE work' = Inspects(work, "delegate", "reconcile")
    BY <2>2, <1>t, InspectsIs DEF CalmStep, CallPc
  <2> QED
    BY <1>1, <2>1, <2>2
<1> QED
  BY <1>1, <1>2, <1>3, <1>5, <1>6, <1>c, <1>p, CallTurn

\* The call learned no more.
LEMMA JudgedTurn ==
    ASSUME TypeOK, Runs, Clean, Calling, Judged
    PROVE  TurnRight'
<1>1. work["delegate"].res # "true" /\ UNCHANGED events
  BY DEF Calling, CalmStep, Judged, Ready, HostRests
<1>2. Ends("failed", TRUE) \/ Tells(call, TRUE)
  BY <1>1 DEF Judged
<1>3. \E outcome \in Outcomes : Ends(outcome, TRUE)
  BY <1>2, TellsIs DEF Outcomes, TypeOK
<1> QED
  BY <1>1, <1>3, EndsTurn

\* The turn is sent.
LEMMA SentTurn ==
    ASSUME TypeOK, DispatchRight, Sent, host' = "sent", host # "sent", ~gone
    PROVE  TurnRight'
<1>1. /\ Ready("delegate", "revalidate") /\ ~call.aborted /\ UNCHANGED <<gone, events, phase, rec, att, lock, timers>>
      /\ call' = [call EXCEPT !.sent = TRUE] /\ work' = Goto(work, "delegate", "turn")
  BY DEF Sent
<1>2. Clean
  BY <1>1 DEF DispatchRight, Ready, At, BeforeTurn
<1>t. Works(work) /\ call \in Calls /\ "delegate" \in Worker
  BY Workers DEF TypeOK
<1>3. CleanCall(call')
  BY <1>1, <1>2, <1>t DEF Clean, CleanCall, Calls
<1>4. CalmPc("delegate", "turn") /\ Calm(work)
  BY <1>2 DEF CalmPc, Clean
<1>5. Calm(work')
  BY <1>1, <1>4, <1>t, CalmGoto
<1>6. work'["delegate"].pc = "turn"
  BY <1>1, <1>t, GoesOn
<1>7. CalmStep(work'["delegate"])
  BY <1>6 DEF CalmStep, CallPc
<1>8. lock' /\ CleanAttempt(att') /\ CleanRecord(rec') /\ events' \in Seq({"busy"}) /\ timers' \subseteq {"cancel"}
  BY <1>1, <1>2 DEF Clean
<1> QED
  BY <1>3, <1>5, <1>6, <1>7, <1>8, CallTurn

\* What cannot happen while the turn is working.
LEMMA TurnRefuses ==
    ASSUME Runs, Calm(work), timers \subseteq {"cancel"}, work["delegate"].pc \in CallPc
    PROVE  /\ ~SettleBegin /\ ~SettleShown /\ ~SettleCollect /\ ~SettleConfirm /\ ~SettleWrite
           /\ ~TombstoneLook /\ ~TombstoneCreate /\ ~StopSettled
           /\ \A w \in Inspector : ~Missed(w) /\ ~MissingCancel(w) /\ ~Untold(w)
           /\ ~SettleTimer /\ ~SettleTimerEnds /\ ~TombTimer /\ ~FlushAgain /\ ~LateEvent /\ ~DeletedCancel
           /\ ~Delegate /\ ~Prepared /\ ~Locked /\ ~Admitted /\ ~Created /\ ~Attended /\ ~Sent /\ ~Answered
           /\ ~Undispatched /\ ~Reported /\ ~Predispatch /\ ~Unsent /\ ~Closing
<1>1. /\ work["S"].pc = "idle" /\ work["M"].pc = "idle" /\ work["settleTimer"].pc = "idle"
      /\ work["H"].pc # "settled" /\ work["flush"].pc # "again" /\ work["event"].pc \notin {"late", "deleted"}
  BY DEF Calm, CalmPc, Worker
<1>2. ~SettleBegin /\ ~SettleShown /\ ~SettleCollect /\ ~SettleConfirm /\ ~SettleWrite
  BY <1>1 DEF SettleBegin, SettleShown, SettleCollect, SettleConfirm, SettleWrite, Ready
<1>3. ~TombstoneLook /\ ~TombstoneCreate /\ ~StopSettled
  BY <1>1 DEF TombstoneLook, TombstoneCreate, StopSettled, Ready
<1>4. \A w \in Inspector : ~Missed(w) /\ ~MissingCancel(w) /\ ~Untold(w)
  <2>1. ASSUME NEW w \in Inspector PROVE work[w].pc \notin {"missed", "missing", "untold"}
    <3>1. w \in {"event", "recover", "settleTimer", "flush"} => work[w].pc \notin {"missed", "missing", "untold"}
      BY Workers DEF Calm, CalmPc
    <3>2. w = "delegate" => work[w].pc \notin {"missed", "missing", "untold"}
      BY DEF CallPc
    <3> QED
      BY <3>1, <3>2 DEF Inspector
  <2> QED
    BY <2>1 DEF Missed, MissingCancel, Untold, Ready
<1>5. ~SettleTimer /\ ~SettleTimerEnds /\ ~TombTimer /\ ~FlushAgain /\ ~LateEvent /\ ~DeletedCancel
  BY <1>1 DEF SettleTimer, SettleTimerEnds, TombTimer, Timer, FlushAgain, LateEvent, DeletedCancel, Ready
<1>6. /\ ~Delegate /\ ~Prepared /\ ~Locked /\ ~Admitted /\ ~Created /\ ~Attended /\ ~Sent /\ ~Answered
      /\ ~Undispatched /\ ~Reported /\ ~Predispatch /\ ~Unsent /\ ~Closing
  BY DEF CallPc, Delegate, Prepared, Locked, Admitted, Created, Attended, Sent, Answered, Undispatched, Reported,
              Predispatch, Unsent, Closing, Ready, Runs
<1> QED
  BY <1>2, <1>3, <1>4, <1>5, <1>6

\* A closed runtime does not serve again.
LEMMA ClosedKept ==
    ASSUME TypeOK, FlushRight, phase = "closed", AttemptNext
    PROVE  phase' \in {"closed", "down"}
<1>1. CASE \E w \in Worker : Going(w)
  BY <1>1 DEF Going, Sound
<1>2. ~FlushNext /\ ~FlushBegins /\ ~FlushFails
  BY DEF FlushNext, FlushBegins, FlushFails, FlushRight, Ready, At
<1>3. CASE Locked \/ Admitted \/ Created \/ BeginEvent
  BY <1>3, LockedIs, AdmittedIs, CreatedIs, BeginEventIs DEF Sound
<1>4. CASE Host \/ Delegate \/ Crash
  BY <1>4, HostIs, DelegateIs, CrashIs DEF Sound
<1>5. ~Flush /\ ~Lifecycle /\ ~RecoverSession
  BY DEF Flush, Active, Lifecycle, RecoverSession
<1> QED
  BY <1>1, <1>2, <1>3, <1>4, <1>5, GoingSteps DEF AttemptNext

\* A turn begins when the call sends it, and in no other way.
LEMMA HostMoves ==
    ASSUME AttemptNext
    PROVE  UNCHANGED host \/ (\E yes \in BOOLEAN : CancelTurn(yes)) \/ Sent \/ Host \/ Crash
<1> DEFINE Moves == UNCHANGED host \/ (\E yes \in BOOLEAN : CancelTurn(yes))
<1>0. UNCHANGED host => Moves
  OBVIOUS
<1>1. SettleBegin \/ SettleShown \/ FenceBuried \/ StopBegin \/ StopFenced \/ StopSettled => UNCHANGED host
  BY DEF SettleBegin, SettleShown, FenceBuried, StopBegin, StopFenced, StopSettled, Keep, HostRests
<1>2. SettleCollect \/ SettleConfirm \/ SettleWrite \/ EvidenceCollect \/ EvidenceWrite
      \/ FenceCollect \/ FenceWrite \/ TombstoneLook \/ TombstoneCreate => UNCHANGED host
  BY DEF SettleCollect, SettleConfirm, SettleWrite, EvidenceCollect, EvidenceWrite,
         FenceCollect, FenceWrite, TombstoneLook, TombstoneCreate, Keep, HostRests
<1>3. EventHandled \/ SettleTimerEnds \/ TimerEnds \/ StopFences \/ FlushAgain \/ FlushNext \/ FlushFails \/ FlushBegins
      \/ LateEvent \/ RecoverRead \/ RecoverLocks \/ SettleTimer \/ CancelTimer \/ TombTimer
      \/ BeginEvent => UNCHANGED host
  BY DEF EventHandled, SettleTimerEnds, TimerEnds, StopFences, FlushAgain, FlushNext, FlushFails, FlushBegins, FlushLoop,
         LateEvent, RecoverRead, RecoverLocks, SettleTimer, CancelTimer, TombTimer, Timer, BeginEvent, Keep, HostRests,
         Popped, Dropped
<1>4. \A w \in Inspector : Inspect(w) \/ Marked(w) \/ Waited(w) \/ Missed(w) \/ Untold(w) => UNCHANGED host
  BY DEF Inspect, Marked, Waited, Missed, Untold, Keep, HostRests
<1>5. ASSUME StopCancel \/ DeletedCancel \/ StopsTurn \/ Undispatched \/ \E w \in Inspector : MissingCancel(w)
      PROVE  Moves
  <2> HIDE DEF CancelTurn
  <2> QED
    BY <1>5 DEF StopCancel, DeletedCancel, StopsTurn, Undispatched, MissingCancel, HostRests
<1>6. Reported \/ Predispatch \/ Unsent \/ Judged \/ Closing \/ Prepared \/ Locked \/ Admitted \/ Created \/ Attended
      \/ Answered \/ Rejected \/ Stopping \/ InspectOwn \/ RetainedLock => UNCHANGED host
  BY DEF Reported, Predispatch, Unsent, Judged, Closing, Prepared, Locked, Admitted, Created, Attended,
         Answered, Rejected, Stopping, InspectOwn, RetainedLock, HostRests
<1>7. Delegate \/ AbortCall \/ Flush \/ Lifecycle \/ RecoverSession => UNCHANGED host
  BY DEF Delegate, AbortCall, Flush, Lifecycle, RecoverSession, HostRests
<1> HIDE DEF Moves
<1>8. CASE Microtask
  BY <1>0, <1>1, <1>3, <1>4, <1>6, <1>8 DEF Microtask, Moves
<1>9. CASE Promise
  BY <1>0, <1>2, <1>5, <1>9 DEF Promise, Moves
<1>10. CASE Caller
  BY <1>0, <1>5, <1>6, <1>10 DEF Caller, Moves
<1>11. CASE Others
  BY <1>0, <1>3, <1>4, <1>5, <1>11 DEF Others, Moves
<1> QED
  BY <1>0, <1>7, <1>8, <1>9, <1>10, <1>11 DEF AttemptNext, Moves

LEMMA TurnBegins ==
    ASSUME TypeOK, AttemptNext, host' \in {"sent", "busy"}
    PROVE  host \in {"sent", "busy"} \/ (Sent /\ host' = "sent")
<1>1. CASE UNCHANGED host
  BY <1>1
<1>2. ASSUME NEW yes \in BOOLEAN, CancelTurn(yes) PROVE host \in {"sent", "busy"}
  BY <1>2, CancelTurnIs
<1>3. Sent => UNCHANGED host \/ host' = "sent"
  BY DEF Sent
<1>4. CASE Host
  BY <1>4 DEF Host, HostBegins, HostEnds, HostRefuses, HostDeletes
<1>5. ~Crash
  BY CrashIs
<1> QED
  BY <1>1, <1>2, <1>3, <1>4, <1>5, HostMoves

\* A call that is over stays so.
LEMMA DoneStays ==
    ASSUME TypeOK, At("delegate") = "done", AttemptNext
    PROVE  At("delegate")' = "done"
<1>d. "delegate" \in Worker /\ "delegate" \notin Promises \cup {"stop", "flush", "event", "recover"}
  BY Workers DEF Promises
<1>s. ASSUME work'["delegate"].pc = work["delegate"].pc PROVE At("delegate")' = "done"
  BY <1>s DEF At
<1>1. ASSUME NEW w \in Worker, Going(w) PROVE At("delegate")' = "done"
  <2>1. w # "delegate"
    BY <1>1 DEF Going, Goes, Ended
  <2> QED
    BY <1>1, <1>s, <2>1, LaterStays DEF Going
<1>2. ASSUME FlushNext \/ FlushBegins PROVE At("delegate")' = "done"
  <2>1. Steps(work', work, {"flush"} \cup Promises)
    BY <1>2, FlushLoopIs DEF FlushNext, FlushBegins
  <2> QED
    BY <1>d, <1>s, <2>1 DEF Steps, Stays
<1>3. CASE FlushFails
  BY <1>d, <1>s, <1>3, FlushFailsIs DEF Steps, Stays
<1>4. CASE BeginEvent
  BY <1>d, <1>s, <1>4, BeginEventIs DEF Steps, Stays, Own
<1>5. ~Locked /\ ~Admitted /\ ~Created /\ ~Delegate
  BY DEF Locked, Admitted, Created, Delegate, Ready, At
<1>6. CASE Host
  BY <1>s, <1>6, HostIs
<1>7. CASE Flush
  <2>1. "delegate" \in Worker \ {"flush", "stop", "C"}
    BY <1>d DEF Promises
  <2> QED
    BY <1>s, <1>7, <2>1, FlushIs DEF Steps, Stays
<1>8. CASE Lifecycle \/ Crash \/ RecoverSession
  BY <1>d, <1>s, <1>8, LifecycleIs, CrashIs, RecoverIs DEF At
<1> QED
  BY <1>1, <1>2, <1>3, <1>4, <1>5, <1>6, <1>7, <1>8, GoingSteps DEF AttemptNext

\* A step that leaves the attempt forgotten.
LEMMA ForgottenKept ==
    ASSUME Forgotten, lock', ~att'.tracked, CleanAttempt([att' EXCEPT !.tracked = TRUE]), CleanRecord(rec'),
           CleanCall(call'), events' \in Seq({"busy"}), timers' \subseteq {"cancel"}, Calm(work'),
           NEW ws, Steps(work', work, ws), "delegate" \notin ws, "recover" \notin ws
    PROVE  TurnRight'
<1>1. work'["delegate"].pc = work["delegate"].pc /\ work'["recover"].pc = work["recover"].pc
  BY Workers DEF Steps, Stays, Inspector
<1> QED
  BY <1>1 DEF TurnRight, Forgotten, At

\* ... and nothing but its workers and its timers.
LEMMA ForgottenRests ==
    ASSUME Forgotten, UNCHANGED <<lock, att, rec, call, host, events>>, timers' \subseteq timers, Calm(work'),
           NEW ws, Steps(work', work, ws), "delegate" \notin ws, "recover" \notin ws
    PROVE  TurnRight'
<1>1. /\ lock' /\ ~att'.tracked /\ CleanAttempt([att' EXCEPT !.tracked = TRUE]) /\ CleanRecord(rec')
      /\ CleanCall(call') /\ events' \in Seq({"busy"}) /\ timers' \subseteq {"cancel"}
  BY DEF Forgotten
<1> QED
  BY <1>1, ForgottenKept

\* A worker of a forgotten attempt gives up.
LEMMA ForgottenGives ==
    ASSUME TypeOK, Forgotten, NEW s \in Promises, NEW res, work' = Return(work, s, res),
           UNCHANGED <<lock, att, rec, call, host, events, timers>>
    PROVE  TurnRight'
<1>1. Works(work) /\ Calm(work) /\ "delegate" \notin {s} /\ "recover" \notin {s}
  BY DEF TypeOK, Forgotten, Promises
<1>2. Calm(work') /\ Steps(work', work, {s})
  BY <1>1, CalmReturn, ReturnSteps
<1> QED
  BY <1>1, <1>2, ForgottenRests

LEMMA ForgottenGoes ==
    ASSUME TypeOK, Forgotten, NEW w \in Worker \ {"delegate", "recover"}, NEW pc, CalmPc(w, pc),
           work' = Goto(work, w, pc), timers' \subseteq timers,
           UNCHANGED <<lock, att, rec, call, host, events>>
    PROVE  TurnRight'
<1>1. Works(work) /\ Calm(work) /\ "delegate" \notin {w} /\ "recover" \notin {w}
  BY DEF TypeOK, Forgotten
<1>2. Calm(work') /\ Steps(work', work, {w})
  BY <1>1, CalmGoto, GoesOn
<1> QED
  BY <1>1, <1>2, ForgottenRests

\* The promises of an attempt that is forgotten.
LEMMA PromisesForgotten ==
    ASSUME TypeOK, Forgotten, Runs',
           \/ FenceBuried \/ StopBegin \/ StopFenced \/ EvidenceCollect \/ EvidenceWrite
           \/ FenceCollect \/ FenceWrite \/ StopCancel
    PROVE  TurnRight'
<1>c. ~att.tracked /\ "P" \in Promises /\ "C" \in Promises /\ "H" \in Promises
  BY DEF Forgotten, Promises
<1>1. ASSUME NEW s \in Promises, NEW res, Gives(s, res), Keep PROVE TurnRight'
  BY <1>1, ForgottenGives DEF Gives, Keep, HostRests
<1>2. CASE FenceBuried
  BY <1>1, <1>2, <1>c DEF FenceBuried
<1>3. CASE StopBegin \/ StopFenced
  BY <1>1, <1>3, <1>c DEF StopBegin, StopFenced
<1>4. CASE EvidenceCollect \/ EvidenceWrite
  BY <1>1, <1>4, <1>c DEF EvidenceCollect, EvidenceWrite
<1>5. CASE FenceCollect \/ FenceWrite
  BY <1>1, <1>5, <1>c DEF FenceCollect, FenceWrite
<1>6. CASE StopCancel
  <2>1. PICK yes \in BOOLEAN : CancelTurn(yes) /\ work' = Return(work, "H", "false") /\ UNCHANGED att
    BY <1>6, <1>c DEF StopCancel
  <2>2. UNCHANGED <<host, events>>
    BY <2>1, CancelTurnIs DEF Runs
  <2> QED
    BY <1>6, <1>c, <2>1, <2>2, ForgottenGives DEF StopCancel
<1> QED
  BY <1>2, <1>3, <1>4, <1>5, <1>6

\* A flush or an event that goes on with an attempt that is forgotten.
LEMMA InspectForgotten ==
    ASSUME TypeOK, Runs, Forgotten, NEW w \in Inspector, Inspect(w) \/ Marked(w) \/ Waited(w)
    PROVE  TurnRight'
<1>t. Works(work) /\ att \in Attempts /\ call \in Calls /\ w \in Worker /\ "P" \notin {"delegate", "recover"}
  BY Workers DEF TypeOK
<1>c. Calm(work) /\ ~att.tracked /\ work["delegate"].pc = "done" /\ work["recover"].pc = "authority"
  BY DEF Forgotten, At
<1>p. work[w].pc \in {"reconcile", "known", "active", "settled", "evident", "buried"}
  BY DEF Inspect, Marked, Waited, Ready
<1>w. w \in {"event", "flush"} /\ w \notin {"delegate", "recover", "P"}
  <2>1. w # "settleTimer"
    BY <1>p, <1>c, <1>t DEF Calm, CalmPc
  <2> QED
    BY <1>p, <1>c, <2>1 DEF Inspector
<1>1. ASSUME NEW res, GoesBack(w, res), UNCHANGED <<call, host, events>> PROVE TurnRight'
  <2>1. work' = Back(work, w, res) /\ UNCHANGED <<rec, att, lock, timers>>
    BY <1>1 DEF GoesBack
  <2>2. Calm(work')
    BY <2>1, <1>t, <1>c, <1>w, CalmBack
  <2>3. Steps(work', work, {w})
    BY <1>1, <1>t, GoesBackIs
  <2>4. "delegate" \notin {w} /\ "recover" \notin {w}
    BY <1>w
  <2> QED
    BY <1>1, <2>1, <2>2, <2>3, <2>4, ForgottenRests
<1>2. ASSUME MarkActive(w), UNCHANGED <<call, host, events>> PROVE TurnRight'
  <2>1. Calm(work')
    BY <1>2, <1>t, <1>c, <1>w, CalmMark
  <2>2. /\ att' = Invalidated(att) /\ timers' \subseteq timers /\ UNCHANGED <<rec, lock>>
        /\ Steps(work', work, {w, "P"})
    BY <1>2, <1>t, MarkActiveIs
  <2>3. ~att'.tracked /\ CleanAttempt([att' EXCEPT !.tracked = TRUE])
    <3> DEFINE b == Invalidated(att)
    <3>1. /\ b \in Attempts /\ b.pending = NoInspection /\ b.tracked = att.tracked /\ b.answered = att.answered
          /\ b.ids = att.ids /\ b.confirmed = att.confirmed /\ b.missing = att.missing /\ b.term = att.term
      BY <1>t, InvalidatedIs
    <3> HIDE DEF b
    <3>2. CleanAttempt([att EXCEPT !.tracked = TRUE])
      BY DEF Forgotten
    <3>3. CleanAttempt([b EXCEPT !.tracked = TRUE])
      BY <3>1, <3>2, <1>t DEF CleanAttempt, Attempts
    <3> QED
      BY <2>2, <3>1, <3>3, <1>c DEF b
  <2>4. "delegate" \notin {w, "P"} /\ "recover" \notin {w, "P"}
    BY <1>w, <1>t
  <2>5. lock' /\ CleanRecord(rec') /\ CleanCall(call') /\ events' \in Seq({"busy"}) /\ timers' \subseteq {"cancel"}
    BY <1>2, <2>2 DEF Forgotten
  <2> QED
    BY <2>1, <2>2, <2>3, <2>4, <2>5, ForgottenKept
<1>3. ASSUME Inspect(w) PROVE TurnRight'
  <2>1. PICK x \in Seen \cup {Unknown} : Hears(x) /\ Judge(w, x, work[w].pc = "known") /\ UNCHANGED <<call, host, events>>
    BY <1>3, <1>w DEF Inspect, HostRests
  <2>2. x.out = "none" /\ (x.state = "running" \/ x.state = "unknown")
    BY <2>1, HearsTurn
  <2>3. work[w].pc # "known"
    BY <1>w, <1>c, <1>t DEF Calm, CalmPc
  <2>4. (\E res \in {"error", "false"} : GoesBack(w, res)) \/ MarkActive(w)
    <3>1. ~Stopped(att, x) /\ x.state # "missing" /\ x.state # "idle"
      BY <2>2 DEF Stopped
    <3> HIDE DEF GoesBack, MarkActive, Back
    <3> QED
      BY <2>1, <2>3, <3>1, <1>w DEF Judge
  <2> QED
    BY <1>1, <1>2, <2>1, <2>4
<1>4. ASSUME Marked(w) PROVE TurnRight'
  BY <1>1, <1>4, <1>c DEF Marked, Keep, HostRests
<1>5. ASSUME Waited(w) PROVE TurnRight'
  <2>1. work[w].pc = "evident"
    <3>1. work[w].pc \in {"settled", "evident", "buried"}
      BY <1>5 DEF Waited, Ready
    <3> QED
      BY <3>1, <1>w, <1>c, <1>t DEF Calm, CalmPc
  <2>2. (\E res \in {"error", "false"} : GoesBack(w, res)) /\ UNCHANGED <<call, host, events>>
    BY <1>5, <2>1 DEF Waited, Keep, HostRests
  <2> QED
    BY <1>1, <2>2
<1> QED
  BY <1>3, <1>4, <1>5

\* Events, timers, signals and phases go on while an attempt is forgotten.
LEMMA SignalsForgotten ==
    ASSUME TypeOK, Runs, Runs', Forgotten,
           \/ EventHandled \/ TimerEnds \/ CancelTimer \/ StopFences \/ StopsTurn \/ BeginEvent
           \/ FlushNext \/ FlushBegins \/ Flush \/ FlushFails \/ Lifecycle \/ HostBegins
    PROVE  TurnRight'
<1>t. Works(work) /\ att \in Attempts /\ call \in Calls
  BY DEF TypeOK
<1>c. Calm(work) /\ ~att.tracked /\ At("delegate") = "done" /\ events \in Seq({"busy"}) /\ CleanCall(call)
  BY DEF Forgotten
<1>w. /\ "event" \in Worker \ {"delegate", "recover"} /\ "cancelTimer" \in Worker \ {"delegate", "recover"}
      /\ "stop" \in Worker \ {"delegate", "recover"} /\ "flush" \in Worker \ {"delegate", "recover"}
      /\ "tombTimer" \in Worker
  BY DEF Worker
<1>p. /\ CalmPc("event", "idle") /\ CalmPc("cancelTimer", "idle") /\ CalmPc("stop", "idle") /\ CalmPc("stop", "cancel")
      /\ CalmPc("flush", "idle") /\ CalmPc("flush", "inflight")
  BY DEF CalmPc
<1>s. Steps(work, work, {})
  BY <1>t DEF Steps, Stays
<1>1. ASSUME EventHandled PROVE TurnRight'
  <2>1. /\ work' = Goto(work, "event", "idle") /\ UNCHANGED <<host, rec, att, lock, timers, call>>
        /\ events' = events \/ (events # <<>> /\ events' = Tail(events))
    BY <1>1 DEF EventHandled
  <2>2. Calm(work') /\ Steps(work', work, {"event"})
    BY <2>1, <1>t, <1>c, <1>w, <1>p, CalmGoto, GoesOn
  <2>3. events' \in Seq({"busy"})
    BY <1>c, <2>1, BusyTail
  <2>4. /\ lock' /\ ~att'.tracked /\ CleanAttempt([att' EXCEPT !.tracked = TRUE]) /\ CleanRecord(rec')
        /\ CleanCall(call') /\ timers' \subseteq {"cancel"}
    BY <2>1 DEF Forgotten
  <2> QED
    BY <2>2, <2>3, <2>4, ForgottenKept
<1>2. ASSUME TimerEnds PROVE TurnRight'
  <2>1. PICK t \in {"cancel", "tomb"} :
          LET w == IF t = "cancel" THEN "cancelTimer" ELSE "tombTimer" IN
          /\ Ready(w, "expired")
          /\ timers' = timers \cup (IF work[w].res = "error" /\ att.tracked THEN {t} ELSE {})
          /\ work' = Goto(work, w, "idle")
          /\ UNCHANGED <<rec, att, lock>> /\ Keep
    BY <1>2 DEF TimerEnds
  <2>2. t = "cancel"
    BY <2>1, <1>w, <1>c DEF Ready, Calm, CalmPc
  <2> QED
    BY <2>1, <2>2, <1>c, <1>w, <1>p, ForgottenGoes DEF Keep, HostRests
<1>3. ASSUME CancelTimer PROVE TurnRight'
  <2>1. /\ UNCHANGED <<rec, att, lock, call, host, events>> /\ timers' \subseteq timers /\ work' = work
    BY <1>3, <1>c DEF CancelTimer, Timer, Keep, HostRests
  <2> QED
    BY <2>1, <1>c, <1>s, ForgottenRests
<1>k. ASSUME NEW pc \in {"idle", "cancel"}, work' = Goto(work, "stop", pc),
             call' = call \/ call' = [call EXCEPT !.stop = "error"],
             UNCHANGED <<rec, att, lock, timers, host, events>>
      PROVE  TurnRight'
  <2>1. Calm(work') /\ Steps(work', work, {"stop"})
    BY <1>k, <1>t, <1>c, <1>w, <1>p, CalmGoto, GoesOn
  <2>2. CleanCall(call')
    BY <1>k, <1>t, <1>c DEF CleanCall, Calls
  <2>3. /\ lock' /\ ~att'.tracked /\ CleanAttempt([att' EXCEPT !.tracked = TRUE]) /\ CleanRecord(rec')
        /\ events' \in Seq({"busy"}) /\ timers' \subseteq {"cancel"}
    BY <1>k DEF Forgotten
  <2> QED
    BY <2>1, <2>2, <2>3, ForgottenKept
<1>4. ASSUME StopFences PROVE TurnRight'
  BY <1>4, <1>k DEF StopFences, HostRests
<1>5. ASSUME StopsTurn PROVE TurnRight'
  <2>1. PICK yes \in BOOLEAN : /\ CancelTurn(yes)
                               /\ call' = [call EXCEPT !.stop = IF yes THEN "done" ELSE "error"]
    BY <1>5 DEF StopsTurn
  <2>2. ~yes /\ UNCHANGED <<host, events>>
    BY <2>1, CancelTurnIs DEF Runs
  <2> QED
    BY <1>5, <2>1, <2>2, <1>k DEF StopsTurn
<1>6. ASSUME BeginEvent PROVE TurnRight'
  <2>1. Dropped /\ UNCHANGED call /\ events # <<>>
    BY <1>6, <1>c DEF BeginEvent
  <2>2. events' \in Seq({"busy"})
    BY <1>c, <2>1, BusyTail DEF Dropped, Popped
  <2>3. /\ lock' /\ ~att'.tracked /\ CleanAttempt([att' EXCEPT !.tracked = TRUE]) /\ CleanRecord(rec')
        /\ CleanCall(call') /\ timers' \subseteq {"cancel"} /\ work' = work
    BY <2>1 DEF Dropped, Forgotten
  <2> QED
    BY <1>c, <1>s, <2>2, <2>3, ForgottenKept
<1>7. ASSUME FlushNext \/ FlushBegins PROVE TurnRight'
  <2>1. work' = Goto(work, "flush", "idle") /\ UNCHANGED <<rec, att, lock, timers, call, host, events>>
    BY <1>7, <1>c DEF FlushNext, FlushBegins, FlushLoop, HostRests
  <2> QED
    BY <2>1, <1>w, <1>p, ForgottenGoes
<1>8. ASSUME Flush PROVE TurnRight'
  <2> DEFINE U == Goto(work, "flush", "inflight")
  <2>1. U["delegate"] = work["delegate"]
    <3>1. "delegate" \in Worker \ {"flush"} /\ "flush" \in Worker
      BY DEF Worker
    <3>2. \A v \in Worker \ {"flush"} : U[v] = work[v]
      <4> HIDE DEF U
      <4> QED
        BY <1>t, <3>1, GotoIs DEF U, Puts
    <3> QED
      BY <3>1, <3>2
  <2>2. Cancelled(call, att, U) = [c |-> call, a |-> att, W |-> U]
    BY <2>1, <1>c DEF Cancelled, At
  <2> HIDE DEF U
  <2>3. work' = U /\ UNCHANGED <<rec, att, lock, timers, call, host, events>>
    BY <1>8, <2>2 DEF Flush, HostRests, U
  <2> QED
    BY <2>3, <1>w, <1>p, ForgottenGoes DEF U
<1>9. ASSUME FlushFails PROVE TurnRight'
  <2>1. work' = Goto(work, "flush", "idle") /\ UNCHANGED <<rec, att, lock, timers, call, host, events>>
    BY <1>9 DEF FlushFails, HostRests
  <2> QED
    BY <2>1, <1>w, <1>p, ForgottenGoes
<1>10. ASSUME Lifecycle PROVE TurnRight'
  <2>1. UNCHANGED <<rec, att, lock, timers, call, work, host, events>>
    BY <1>10 DEF Lifecycle, HostRests, Runs
  <2> QED
    BY <2>1, <1>c, <1>s, ForgottenRests
<1>11. ASSUME HostBegins PROVE TurnRight'
  <2>1. UNCHANGED <<rec, att, lock, timers, call, work>> /\ Tell("busy")
    BY <1>11 DEF HostBegins, MemoryRests
  <2>2. events' = events \/ events' = Append(events, "busy")
    BY <2>1 DEF Tell, Emits
  <2>3. events' \in Seq({"busy"})
    BY <2>2, <1>c, AppendProperties
  <2>4. /\ lock' /\ ~att'.tracked /\ CleanAttempt([att' EXCEPT !.tracked = TRUE]) /\ CleanRecord(rec')
        /\ CleanCall(call') /\ timers' \subseteq {"cancel"} /\ work' = work
    BY <2>1 DEF Forgotten
  <2> QED
    BY <1>c, <1>s, <2>3, <2>4, ForgottenKept
<1> QED
  BY <1>1, <1>2, <1>3, <1>4, <1>5, <1>6, <1>7, <1>8, <1>9, <1>10, <1>11

\* Every step of a turn whose attempt is forgotten.
LEMMA ForgottenRuns ==
    ASSUME TypeOK, Runs, Runs', Forgotten, AttemptNext
    PROVE  TurnRight'
<1>c. Calm(work) /\ timers \subseteq {"cancel"} /\ work["delegate"].pc = "done" /\ work["recover"].pc = "authority"
  BY DEF Forgotten, At
<1>p. work["delegate"].pc \in CallPc
  BY <1>c DEF CallPc
<1>d. /\ ~Judged /\ ~Rejected /\ ~Stopping /\ ~InspectOwn /\ ~RetainedLock /\ ~AbortCall
      /\ ~RecoverRead /\ ~RecoverSession
  BY <1>c DEF Judged, Rejected, Stopping, InspectOwn, RetainedLock, AbortCall, RecoverRead, RecoverSession, Ready
<1>1. CASE Microtask
  <2>1. ~SettleBegin /\ ~SettleShown /\ ~StopSettled /\ ~SettleTimerEnds /\ ~FlushAgain
        /\ ~Reported /\ ~Predispatch /\ ~Unsent /\ ~Closing /\ \A w \in Inspector : ~Missed(w)
    BY <1>c, <1>p, TurnRefuses
  <2> QED
    BY <1>1, <1>d, <2>1, PromisesForgotten, InspectForgotten, SignalsForgotten DEF Microtask
<1>2. CASE Promise
  BY <1>2, <1>c, <1>p, TurnRefuses, PromisesForgotten DEF Promise
<1>3. ~Caller
  BY <1>c, <1>p, <1>d, TurnRefuses DEF Caller
<1>4. CASE Others
  <2>1. ~LateEvent /\ ~DeletedCancel /\ ~SettleTimer /\ ~TombTimer
        /\ \A w \in Inspector : ~MissingCancel(w) /\ ~Untold(w)
    BY <1>c, <1>p, TurnRefuses
  <2> QED
    BY <1>4, <1>d, <2>1, InspectForgotten, SignalsForgotten, RecoverLocksTurn DEF Others
<1>5. CASE Host
  <2>1. ~HostEnds /\ ~HostRefuses /\ ~HostDeletes
    BY DEF Runs, HostEnds, HostRefuses, HostDeletes
  <2> QED
    BY <1>5, <2>1, SignalsForgotten DEF Host
<1>6. ~Delegate /\ ~Crash
  BY <1>c, <1>p, TurnRefuses, CrashIs DEF Runs
<1> QED
  BY <1>1, <1>2, <1>3, <1>4, <1>5, <1>6, <1>d, SignalsForgotten DEF AttemptNext

\* A call that awaits its turn stays the owner of its attempt.
LEMMA OwnedRuns ==
    ASSUME TypeOK, Runs, Runs', Clean, Calling, att.fg # "none", AttemptNext
    PROVE  At("delegate")' = "done" \/ att'.fg # "none"
<1> DEFINE Mine == At("delegate")' = "done" \/ att'.fg # "none"
<1>t. Works(work) /\ att \in Attempts /\ call \in Calls /\ rec \in Record /\ (rec.at = "none" => rec = NoRecord)
      /\ "delegate" \in Worker
  BY Workers DEF TypeOK
<1>c. Calm(work) /\ timers \subseteq {"cancel"} /\ work["delegate"].pc \in CallPc /\ att.tracked
  BY DEF Clean, CleanAttempt, Calling, CalmStep
<1>f. ASSUME att'.fg = att.fg PROVE Mine
  BY <1>f
<1>g. ASSUME UNCHANGED att PROVE Mine
  BY <1>g
<1>e. ASSUME att' = Collected(att) \/ att' = Invalidated(att) PROVE Mine
  <2>1. Collected(att).fg = att.fg
    BY <1>t, CollectedIs
  <2>2. Invalidated(att).fg = att.fg
    BY <1>t, InvalidatedIs
  <2> QED
    BY <1>e, <2>1, <2>2
<1>r. ASSUME NEW outcome, NEW retain, Ends(outcome, retain) PROVE Mine
  <2>1. work' = Goto(work, "delegate", "done")
    BY <1>r DEF Ends
  <2> QED
    BY <2>1, <1>t, GoesOn DEF At
<1>l. ASSUME NEW c \in Calls, Conclude(c) PROVE Mine
  BY <1>l, <1>c, ConcludeIs, LearnedIs DEF SameBut
<1> SUFFICES Mine
  OBVIOUS
<1> HIDE DEF Mine
<1>1. CASE FenceBuried \/ StopFenced \/ EventHandled \/ TimerEnds \/ StopFences \/ FlushNext \/ FlushFails \/ FlushBegins
           \/ CancelTimer \/ StopsTurn \/ HostBegins \/ RecoverSession
  BY <1>1, <1>g DEF FenceBuried, StopFenced, Gives, EventHandled, TimerEnds, StopFences, FlushNext, FlushFails, FlushBegins,
                    FlushLoop, CancelTimer, Timer, StopsTurn, HostBegins, MemoryRests, RecoverSession
<1>2. CASE StopBegin \/ FenceWrite \/ EvidenceWrite
  <2>1. att'.fg = att.fg
    BY <1>2, <1>t DEF StopBegin, FenceWrite, EvidenceWrite, Gives, Attempts
  <2> QED
    BY <2>1, <1>f
<1>3. CASE EvidenceCollect \/ FenceCollect
  BY <1>3, <1>e, <1>g DEF EvidenceCollect, FenceCollect, Gives
<1>4. CASE StopCancel
  <2>1. PICK yes \in BOOLEAN : CancelTurn(yes) /\ (att.tracked /\ ~yes => UNCHANGED att)
    BY <1>4 DEF StopCancel
  <2>2. ~yes
    BY <2>1, CancelTurnIs DEF Runs
  <2> QED
    BY <2>1, <2>2, <1>c, <1>g
<1>5. ASSUME NEW w \in Inspector, Marked(w) \/ Waited(w) PROVE Mine
  BY <1>5, <1>g DEF Marked, Waited, GoesBack
<1>6. ASSUME NEW w \in Inspector, Inspect(w) PROVE Mine
  <2>1. PICK x \in Seen \cup {Unknown} : Judge(w, x, work[w].pc = "known")
    BY <1>6 DEF Inspect
  <2>2. x \in Inspection
    BY SeenType, ConstantsAre DEF TypeOK
  <2>3. att'.fg = att.fg
    <3> DEFINE known == work[w].pc = "known"
    <3>1. known \in BOOLEAN /\ Judge(w, x, known)
      BY <2>1
    <3> HIDE DEF known
    <3> QED
      BY <3>1, <2>2, JudgeIs
  <2> QED
    BY <2>3, <1>f
<1>7. CASE BeginEvent
  <2>1. att' = att \/ att' = Invalidated(att) \/ att' = Deleted(att)
    BY <1>7 DEF BeginEvent, Dropped, MarkActive
  <2>2. Deleted(att).fg = att.fg
    BY <1>t DEF Deleted, Attempts
  <2> QED
    BY <2>1, <2>2, <1>e, <1>f, <1>g
<1>8. CASE RecoverRead \/ RecoverLocks
  <2>1. att' = att \/ att' = [att EXCEPT !.tracked = TRUE]
    BY <1>8 DEF RecoverRead, RecoverLocks
  <2>2. att'.fg = att.fg
    BY <2>1, <1>t DEF Attempts
  <2> QED
    BY <2>2, <1>f
<1>9. CASE AbortCall \/ Flush
  <2>1. att' = att \/ att' = [att EXCEPT !.cancel = TRUE]
    BY <1>9 DEF AbortCall, Flush, Cancelled
  <2>2. att'.fg = att.fg
    BY <2>1, <1>t DEF Attempts
  <2> QED
    BY <2>2, <1>f
<1>10. CASE Lifecycle
  BY <1>10, <1>g DEF Lifecycle, Runs
<1>11. CASE Judged
  BY <1>11, <1>r DEF Judged, Tells
<1>12. CASE Rejected
  <2> DEFINE c == [call EXCEPT !.status = "reported-completed"]
  <2>1. Caught("other")
    BY <1>12 DEF Rejected
  <2>2. c \in Calls
    BY <1>t DEF Calls, Statuses
  <2>3. (\E outcome, retain : Ends(outcome, retain)) \/ att' = [att EXCEPT !.fg = "reconciling"] \/ Conclude(c)
    BY <2>1 DEF Caught
  <2>4. ASSUME att' = [att EXCEPT !.fg = "reconciling"] PROVE Mine
    <3>1. att'.fg = "reconciling"
      BY <2>4, <1>t DEF Attempts
    <3> QED
      BY <3>1 DEF Mine
  <2> HIDE DEF c
  <2> QED
    BY <2>2, <2>3, <2>4, <1>l, <1>r
<1>13. CASE Stopping
  <2> DEFINE d == [call EXCEPT !.status = "cancelled"]
             e == [call EXCEPT !.status = "unknown", !.retain = TRUE, !.uncertain = TRUE]
  <2>1. d \in Calls /\ e \in Calls
    BY <1>t DEF Calls, Statuses
  <2>2. (\E outcome, retain : Ends(outcome, retain)) \/ Conclude(d) \/ Conclude(e)
    BY <1>13 DEF Stopping
  <2> HIDE DEF d, e
  <2> QED
    BY <2>1, <2>2, <1>l, <1>r
<1>14. CASE InspectOwn
  <2> DEFINE u == [call EXCEPT !.status = "unknown", !.uncertain = TRUE]
             r == [u EXCEPT !.retain = TRUE]
             s == [r EXCEPT !.over = TRUE]
  <2>1. r \in Calls /\ s \in Calls
    BY <1>t DEF Calls, Statuses
  <2>2. Conclude(r) \/ Conclude(s)
    <3> HIDE DEF Conclude, Ends
    <3>1. PICK x \in Seen \cup {Unknown} :
            /\ Hears(x)
            /\ IF ~work["delegate"].fresh
               THEN IF att.tracked THEN Conclude(s) ELSE Ends("failed", FALSE)
               ELSE IF x.out = "error" THEN Conclude([call EXCEPT !.status = "failed"])
               ELSE IF x.out = "result" THEN Conclude([call EXCEPT !.status = "reported-completed", !.answer = "result"])
               ELSE IF x.state \in {"unknown", "running"} THEN Conclude(r) ELSE TRUE
      BY <1>14 DEF InspectOwn
    <3>2. x.out = "none" /\ x.state \in {"unknown", "running"}
      BY <3>1, HearsTurn
    <3> QED
      BY <1>c, <3>1, <3>2
  <2> HIDE DEF u, r, s
  <2> QED
    BY <2>1, <2>2, <1>l
<1>15. CASE RetainedLock
  <2>1. ~call.missing
    BY DEF Clean, CleanCall
  <2>2. att' = [att EXCEPT !.tracked = TRUE]
    BY <1>15, <2>1 DEF RetainedLock
  <2>3. att'.fg = att.fg
    BY <2>2, <1>t DEF Attempts
  <2> QED
    BY <2>3, <1>f
<1>16. CASE Microtask
  <2>1. ~SettleBegin /\ ~SettleShown /\ ~StopSettled /\ ~SettleTimerEnds /\ ~FlushAgain
        /\ ~Reported /\ ~Predispatch /\ ~Unsent /\ ~Closing /\ \A w \in Inspector : ~Missed(w)
    BY <1>c, TurnRefuses
  <2> QED
    BY <1>16, <2>1, <1>1, <1>2, <1>5, <1>11 DEF Microtask
<1>17. CASE Promise
  BY <1>17, <1>c, TurnRefuses, <1>2, <1>3, <1>4 DEF Promise
<1>18. CASE Caller
  BY <1>18, <1>c, TurnRefuses, <1>12, <1>13, <1>14, <1>15 DEF Caller
<1>19. CASE Others
  <2>1. ~LateEvent /\ ~DeletedCancel /\ ~SettleTimer /\ ~TombTimer
        /\ \A w \in Inspector : ~MissingCancel(w) /\ ~Untold(w)
    BY <1>c, TurnRefuses
  <2> QED
    BY <1>19, <2>1, <1>1, <1>6, <1>7, <1>8 DEF Others
<1>20. CASE Host
  <2>1. ~HostEnds /\ ~HostRefuses /\ ~HostDeletes
    BY DEF Runs, HostEnds, HostRefuses, HostDeletes
  <2> QED
    BY <1>20, <2>1, <1>1 DEF Host
<1>21. ~Delegate /\ ~Crash
  BY <1>c, TurnRefuses, CrashIs DEF Runs
<1> QED
  BY <1>1, <1>9, <1>10, <1>16, <1>17, <1>18, <1>19, <1>20, <1>21 DEF AttemptNext

\* While the turn runs nothing but these steps is taken, and each leaves the
\* attempt clean and the scopes locked.
LEMMA TurnRuns ==
    ASSUME TypeOK, FlushRight, Runs, Runs', Clean, Calling, OwnedRight, AttemptNext
    PROVE  TurnRight'
<1>c. Calm(work) /\ timers \subseteq {"cancel"} /\ work["delegate"].pc \in CallPc
  BY DEF Clean, Calling, CalmStep
<1>1. CASE Microtask
  <2>1. ~SettleBegin /\ ~SettleShown /\ ~StopSettled /\ ~SettleTimerEnds /\ ~FlushAgain
        /\ ~Reported /\ ~Predispatch /\ ~Unsent /\ ~Closing /\ \A w \in Inspector : ~Missed(w)
    BY <1>c, TurnRefuses
  <2> QED
    BY <1>1, <2>1, PromisesTurn, MarkedTurn, SignalsTurn, FlushLoopTurn, PhasesTurn, JudgedTurn DEF Microtask
<1>2. CASE Promise
  BY <1>2, <1>c, TurnRefuses, PromisesTurn DEF Promise
<1>3. CASE Caller
  BY <1>3, <1>c, TurnRefuses, RejectedTurn, StoppingTurn, InspectOwnTurn, RetainedLockTurn DEF Caller
<1>4. CASE Others
  <2>1. ~LateEvent /\ ~DeletedCancel /\ ~SettleTimer /\ ~TombTimer
        /\ \A w \in Inspector : ~MissingCancel(w) /\ ~Untold(w)
    BY <1>c, TurnRefuses
  <2> QED
    BY <1>4, <2>1, InspectTurn, BeginEventTurn, SignalsTurn, RecoverReadTurn, RecoverLocksTurn, FlushLoopTurn DEF Others
<1>5. CASE Host
  <2>1. ~HostEnds /\ ~HostRefuses /\ ~HostDeletes
    BY DEF Runs, HostEnds, HostRefuses, HostDeletes
  <2> QED
    BY <1>5, <2>1, PhasesTurn DEF Host
<1>6. ~Delegate /\ ~Crash
  BY <1>c, TurnRefuses, CrashIs DEF Runs
<1> QED
  BY <1>1, <1>2, <1>3, <1>4, <1>5, <1>6, PhasesTurn DEF AttemptNext

\* Every step keeps what holds while the turn may be working.
LEMMA TurnStep ==
    ASSUME TypeOK, FlushRight, DispatchRight, TurnRight, OwnedRight, [AttemptNext]_attemptVars
    PROVE  TurnRight' /\ OwnedRight'
<1>1. CASE UNCHANGED attemptVars
  BY <1>1 DEF attemptVars, TurnRight, OwnedRight, Runs, Clean, Calling, Forgotten, Calm, At
<1> SUFFICES ASSUME AttemptNext, Runs' PROVE TurnRight' /\ OwnedRight'
  BY <1>1 DEF TurnRight, OwnedRight
<1>2. ~gone /\ phase # "closed"
  BY GoneKept, ClosedKept DEF Runs
<1>3. CASE host \in {"sent", "busy"}
  <2>1. Runs
    BY <1>2, <1>3 DEF Runs, FlushRight
  <2>2. TurnRight'
    BY <2>1, TurnRuns, ForgottenRuns DEF TurnRight
  <2>3. CASE At("delegate") = "done"
    BY <2>2, <2>3, DoneStays DEF OwnedRight
  <2>4. CASE At("delegate") # "done"
    <3>1. Clean /\ Calling /\ att.fg # "none"
      BY <2>1, <2>4 DEF TurnRight, OwnedRight, Forgotten
    <3> QED
      BY <2>1, <2>2, <3>1, OwnedRuns DEF OwnedRight
  <2> QED
    BY <2>3, <2>4
<1>4. CASE host \notin {"sent", "busy"}
  <2>1. Sent /\ host' = "sent"
    BY <1>4, TurnBegins DEF Runs
  <2>2. /\ Ready("delegate", "revalidate") /\ ~call.aborted /\ UNCHANGED att
    BY <1>4, <2>1 DEF Sent
  <2>3. att'.fg # "none"
    BY <1>2, <2>2 DEF DispatchRight, Ready, At, BeforeTurn
  <2> QED
    BY <1>2, <1>4, <2>1, <2>3, SentTurn DEF OwnedRight
<1> QED
  BY <1>3, <1>4


\* The four phases of a delegation together: before its child, before its
\* turn, during it, and what flush relies on.
PhasesRight == FlushRight /\ EarlyRight /\ DispatchRight /\ TurnRight /\ OwnedRight

\* All phases hold at first.
LEMMA PhasesInit == AttemptInit => PhasesRight
<1> SUFFICES ASSUME AttemptInit PROVE PhasesRight
  OBVIOUS
<1>1. FlushRight
  BY SettledInit
<1>2. At("delegate") = "idle" /\ \A w \in Worker : work[w] = Resting
  BY Workers, IdleIs DEF AttemptInit, At
<1>3. EarlyRight
  <2>1. Quiet(work)
    BY <1>2, Workers, IdleIs DEF Quiet
  <2> QED
    BY <1>2, <2>1 DEF AttemptInit, EarlyRight, NoCall
<1>4. DispatchRight /\ TurnRight /\ OwnedRight
  BY <1>2 DEF DispatchRight, BeforeTurn, TurnRight, OwnedRight, Runs, AttemptInit
<1> QED
  BY <1>1, <1>3, <1>4 DEF PhasesRight

\* Every step keeps all phases.
LEMMA PhasesStep ==
    ASSUME TypeOK, PhasesRight, [AttemptNext]_attemptVars
    PROVE  PhasesRight'
<1>1. FlushRight' /\ DispatchRight' /\ TurnRight' /\ OwnedRight'
  BY FlushStep, DispatchStep, TurnStep DEF PhasesRight
<1>2. EarlyRight'
  <2>1. CASE At("delegate") \in BeforeChild
    BY <2>1, EarlyStep DEF PhasesRight
  <2>2. ASSUME At("delegate") \notin BeforeChild PROVE At("delegate")' \notin BeforeChild
    <3>1. CASE UNCHANGED attemptVars
      BY <2>2, <3>1 DEF attemptVars, At
    <3>2. CASE AttemptNext /\ At("delegate") \in BeforeTurn
      BY <2>2, <3>2, CallForward DEF Forward, Leaves, Later, At, BeforeTurn, BeforeChild
    <3>3. CASE AttemptNext /\ At("delegate") \notin BeforeTurn
      <4>1. Later(work)
        BY <2>2, <3>3 DEF Later, At
      <4> QED
        BY <3>3, <4>1, LaterStep DEF Later, At
    <3> QED
      BY <3>1, <3>2, <3>3
  <2> QED
    BY <2>1, <2>2 DEF EarlyRight
<1> QED
  BY <1>1, <1>2 DEF PhasesRight

\* The state of a delegation keeps to its types.
THEOREM TypesAreRight == AttemptSpec => []TypeOK
<1>1. TypeOK /\ [AttemptNext]_attemptVars => TypeOK'
  BY TypesStep
<1> QED
  BY <1>1, TypesInit, PTL DEF AttemptSpec

\* LockCovers: whoever of the call, an event, a timer, recovery and flush comes
\* first, and however many of their calls fail, the scopes stay locked while the
\* turn of the child Session may be working.
THEOREM LockStaysWithTurn == AttemptSpec => []LockCovers
<1>1. AttemptInit => TypeOK /\ PhasesRight
  BY TypesInit, PhasesInit
<1>2. TypeOK /\ PhasesRight /\ [AttemptNext]_attemptVars => (TypeOK /\ PhasesRight)'
  BY TypesStep, PhasesStep
<1>3. TypeOK /\ PhasesRight => LockCovers
  BY DEF PhasesRight, TurnRight, Runs, Clean, Forgotten, LockCovers
<1> QED
  BY <1>1, <1>2, <1>3, PTL DEF AttemptSpec
=============================================================================
