--------------------------- MODULE WorkflowProofs ---------------------------
(***************************************************************************)
(* Theorems about Workflow, for every workflow, any number of calls in     *)
(* flight, of runs, of messages and of evidence: no run goes on after a    *)
(* message of the user unless a call made in the knowledge of that message *)
(* resumed it; and a step passes on its own work.                          *)
(***************************************************************************)
EXTENDS Workflow, SequenceTheorems, TLAPS

-----------------------------------------------------------------------------
(* The inductive invariant. *)

\* A message of the user that the host has stored.
Stored(u) == u \in 1..Len(users) /\ users[u]

\* All messages are stored but the one in the hook, which is the last; while the
\* hook waits for the lock it is there.
MessagesInOrder ==
    /\ users \in Seq(BOOLEAN) /\ Stored(1)
    /\ hook # None => hook = Len(users) /\ ~users[Len(users)]
    /\ \A u \in 1..Len(users) : ~users[u] => u = hook
    /\ line \in Seq(Slot \cup {None})
    /\ \A i \in 1..Len(line) : line[i] = None => hook # None
    /\ Stored(message.parent)

\* The hook has dealt with no message that is still to come.
EpochsInOrder ==
    /\ epoch \in Nat /\ heard \in Nat
    /\ heard <= epoch

\* The records that a call or a run is.
CallShape(k) ==
    k = [parent |-> k.parent, seen |-> k.seen, at |-> k.at, epoch |-> k.epoch,
         ask |-> k.ask, stage |-> k.stage]

RunShape(run) ==
    run = [revision |-> run.revision, status |-> run.status, boundary |-> run.boundary,
           named |-> run.named, steps |-> run.steps, submissions |-> run.submissions]

Action == {"start", "begin", "report", "resume", "pause", "stop"}

Asks(q, n) == q.action \in Action /\ (q.action # "start" => q.run \in 1..n)

\* Calls belong to a stored message; what they save names a run that is there.
CallsRight ==
    /\ calls = [c \in Slot |-> calls[c]]
    /\ \A c \in Slot : calls[c] # None =>
          /\ CallShape(calls[c])
          /\ Stored(calls[c].parent)
          /\ calls[c].epoch \in Nat
          /\ calls[c].stage = "saving" => Asks(calls[c].ask, Len(index.runs))

IsSeq(s) == s \in Seq({s[i] : i \in DOMAIN s})

\* A run is bound to a stored message.
RunsRight ==
    /\ index = [active |-> index.active, runs |-> index.runs]
    /\ IsSeq(index.runs)
    /\ opened \in Seq(Nat) /\ Len(opened) = Len(index.runs)
    /\ \A r \in Run : RunShape(index.runs[r]) /\ Stored(index.runs[r].boundary)

IInv ==
    /\ MessagesInOrder /\ EpochsInOrder /\ CallsRight /\ RunsRight
    /\ ResumedKnowingly

-----------------------------------------------------------------------------
(* Sequences. *)

LEMMA IsSeqFacts ==
    ASSUME NEW s, IsSeq(s)
    PROVE  Len(s) \in Nat /\ DOMAIN s = 1..Len(s)
  BY DEF IsSeq

LEMMA IsSeqIntro ==
    ASSUME NEW S, NEW s \in Seq(S)
    PROVE  IsSeq(s)
  BY DEF IsSeq

LEMMA AppendIsSeq ==
    ASSUME NEW s, IsSeq(s), NEW x
    PROVE  /\ IsSeq(Append(s, x))
           /\ Len(Append(s, x)) = Len(s) + 1
           /\ \A i \in 1..Len(s) : Append(s, x)[i] = s[i]
           /\ Append(s, x)[Len(s) + 1] = x
<1> DEFINE S == {s[i] : i \in DOMAIN s} \cup {x}
<1>1. s \in Seq(S) /\ x \in S
  BY SeqMonotonic DEF IsSeq
<1> HIDE DEF S
<1>2. /\ Append(s, x) \in Seq(S)
      /\ Len(Append(s, x)) = Len(s) + 1
      /\ \A i \in 1..Len(s) : Append(s, x)[i] = s[i]
      /\ Append(s, x)[Len(s) + 1] = x
  BY <1>1, AppendProperties
<1>3. IsSeq(Append(s, x))
  BY <1>2, IsSeqIntro
<1> QED
  BY <1>2, <1>3

Changed(s, i, x) == [s EXCEPT ![i] = x]

LEMMA ChangeIsSeq ==
    ASSUME NEW s, IsSeq(s), NEW i \in 1..Len(s), NEW x
    PROVE  /\ IsSeq(Changed(s, i, x)) /\ Len(Changed(s, i, x)) = Len(s)
           /\ Changed(s, i, x)[i] = x
           /\ \A j \in 1..Len(s) : j # i => Changed(s, i, x)[j] = s[j]
<1> DEFINE t == Changed(s, i, x)
<1> DEFINE S == {s[j] : j \in DOMAIN s} \cup {x}
<1>1. s \in Seq(S) /\ x \in S
  BY SeqMonotonic DEF IsSeq
<1> HIDE DEF S
<1>2. /\ t \in Seq(S) /\ Len(t) = Len(s)
      /\ \A j \in 1..Len(s) : t[j] = IF j = i THEN x ELSE s[j]
  BY <1>1, ExceptSeq DEF Changed
<1> HIDE DEF t
<1>3. IsSeq(t)
  BY <1>2, IsSeqIntro
<1> QED
  BY <1>2, <1>3 DEF t

-----------------------------------------------------------------------------
(* What the operators of Workflow do. *)

\* What a call may ask for.
LEMMA RequestAsks ==
    ASSUME NEW q \in Request, NEW v
    PROVE  Asks([q EXCEPT !.verified = v], Len(index.runs))
<1>1. \A k : Asks(k, Len(index.runs)) /\ k.verified = FALSE /\ "verified" \in DOMAIN k
                => Asks([k EXCEPT !.verified = v], Len(index.runs))
  BY DEF Asks
<1>2. CASE q = Ask("start", 0, 0, None)
  BY <1>1, <1>2 DEF Ask, Asks, Action
<1>3. ASSUME NEW r \in Run, q \in AskOf(r)
      PROVE  Asks(q, Len(index.runs)) /\ q.verified = FALSE /\ "verified" \in DOMAIN q
  <2>1. \/ \E a \in {"resume", "pause", "stop", "begin"} : \E w, s : q = Ask(a, r, w, s)
        \/ \E w, s, n, m, e, f : q = Report(r, w, s, n, m, e, f)
    BY <1>3 DEF AskOf
  <2>2. \A a \in {"resume", "pause", "stop", "begin"} : \A w, s :
            q = Ask(a, r, w, s) => Asks(q, Len(index.runs)) /\ q.verified = FALSE /\ "verified" \in DOMAIN q
    BY DEF Ask, Asks, Action, Run
  <2>3. \A w, s, n, m, e, f :
            q = Report(r, w, s, n, m, e, f) => Asks(q, Len(index.runs)) /\ q.verified = FALSE /\ "verified" \in DOMAIN q
    BY DEF Report, Asks, Action, Run
  <2> QED
    BY <2>1, <2>2, <2>3
<1> QED
  BY <1>1, <1>2, <1>3 DEF Request

\* A run runs after a call only if it ran before or the call resumed it; it is
\* bound to the message it was bound to, or to that of the call.
LEMMA MovedRight ==
    ASSUME NEW run, RunShape(run), NEW c, NEW q, q.action \in Action \ {"start"}
    PROVE  /\ RunShape(Moved(run, c, q))
           /\ Moved(run, c, q).boundary \in {run.boundary, c.parent}
           /\ Moved(run, c, q).status = "running" =>
                 run.status = "running" \/ q.action = "resume"
<1> DEFINE Right(n) ==
        /\ RunShape(n)
        /\ n.boundary \in {run.boundary, c.parent}
        /\ n.status = "running" => run.status = "running" \/ q.action = "resume"
<1>1. \A n : Right(n) => Right([n EXCEPT !.revision = @ + 1])
  BY DEF RunShape
<1>2. \A s : s # "running" => Right([run EXCEPT !.status = s])
  BY DEF RunShape
<1>3. q.action = "resume" => Right([run EXCEPT !.status = "running", !.boundary = c.parent])
  <2> DEFINE n == [run EXCEPT !.status = "running"]
  <2>1. [run EXCEPT !.status = "running", !.boundary = c.parent] = [n EXCEPT !.boundary = c.parent]
    OBVIOUS
  <2>2. n = [revision |-> run.revision, status |-> "running", boundary |-> run.boundary,
             named |-> run.named, steps |-> run.steps, submissions |-> run.submissions]
    BY DEF RunShape
  <2> HIDE DEF n
  <2>3. q.action = "resume" => Right([n EXCEPT !.boundary = c.parent])
    BY <2>2 DEF RunShape
  <2> QED
    BY <2>1, <2>3
<1>4. Right(BeginProcess(run, q.step, c.at))
  BY DEF RunShape, BeginProcess
<1>5. Right(AcceptProcessReport(run, q, c.at))
  <2> DEFINE accepted == q.verified /\ q.fits /\ GateMet(run, q.step, q.evidence)
             decided == [run EXCEPT
                !.steps[q.step].status = IF accepted THEN "passed" ELSE "rejected",
                !.steps[q.step].evidence = q.evidence,
                !.submissions = Append(@,
                    [step |-> q.step, attempt |-> q.attempt, evidence |-> q.evidence,
                     fits |-> q.fits, at |-> c.at, accepted |-> accepted])]
  <2>1. Right(decided)
    <3> DEFINE d1 == [run EXCEPT !.steps[q.step].status = IF accepted THEN "passed" ELSE "rejected"]
               d2 == [d1 EXCEPT !.steps[q.step].evidence = q.evidence]
               d3 == [d2 EXCEPT !.submissions = Append(@,
                    [step |-> q.step, attempt |-> q.attempt, evidence |-> q.evidence,
                     fits |-> q.fits, at |-> c.at, accepted |-> accepted])]
    <3>1. decided = d3
      OBVIOUS
    <3> HIDE DEF accepted, decided
    <3>2. Right(d1)
      BY DEF RunShape
    <3> HIDE DEF d1
    <3>3. Right(d2)
      BY <3>2 DEF RunShape
    <3> HIDE DEF d2
    <3>4. Right(d3)
      <4> DEFINE item == [step |-> q.step, attempt |-> q.attempt, evidence |-> q.evidence,
                          fits |-> q.fits, at |-> c.at, accepted |-> accepted]
      <4>1. d3 = [d2 EXCEPT !.submissions = Append(@, item)]
        OBVIOUS
      <4> HIDE DEF item, d3
      <4> QED
        BY <3>3, <4>1 DEF RunShape
    <3> QED
      BY <3>1, <3>4
  <2>2. Right([decided EXCEPT !.status = "completed"])
    <3> HIDE DEF decided
    <3> QED
      BY <2>1 DEF RunShape
  <2> QED
    BY <2>1, <2>2 DEF AcceptProcessReport
<1> HIDE DEF Right
<1>6. Right(Moved(run, c, q))
  BY <1>1, <1>2, <1>3, <1>4, <1>5 DEF Moved, Action
<1> QED
  BY <1>6 DEF Right

\* There is a last stored message.
LEMMA LastUserStored ==
    ASSUME MessagesInOrder
    PROVE  Stored(LastUser)
<1> DEFINE Last(u) == users[u] /\ \A v \in (u + 1)..Len(users) : ~users[v]
<1>1. Len(users) \in Nat /\ Len(users) >= 1 /\ users[1]
      /\ \A u \in 1..Len(users) : users[u] \in BOOLEAN
  BY DEF MessagesInOrder, Stored
<1>2. \E u \in 1..Len(users) : Last(u)
  <2>1. CASE users[Len(users)]
    BY <1>1, <2>1
  <2>2. CASE ~users[Len(users)]
    <3>1. hook = Len(users) /\ Len(users) # 1
      BY <1>1, <2>2 DEF MessagesInOrder
    <3>2. users[Len(users) - 1]
      BY <1>1, <3>1 DEF MessagesInOrder
    <3>3. Len(users) - 1 \in 1..Len(users) /\ Last(Len(users) - 1)
      BY <1>1, <2>2, <3>1, <3>2
    <3> QED
      BY <3>3
  <2> QED
    BY <2>1, <2>2
<1>3. LastUser = CHOOSE u \in 1..Len(users) : Last(u)
  BY DEF LastUser
<1> HIDE DEF Last
<1>4. LastUser \in 1..Len(users) /\ Last(LastUser)
  BY <1>2, <1>3
<1> QED
  BY <1>4 DEF Stored, Last

-----------------------------------------------------------------------------
(* The steps. *)

\* What holds of calls goes on to hold while messages and runs are only added.
LEMMA CallsStay ==
    ASSUME CallsRight, UNCHANGED calls, IsSeq(index.runs), IsSeq(index.runs)',
           \A u : Stored(u) => Stored(u)', Len(index.runs) <= Len(index'.runs)
    PROVE  CallsRight'
<1>1. Len(index.runs) \in Nat /\ Len(index'.runs) \in Nat
  BY IsSeqFacts
<1>2. ASSUME NEW c \in Slot, calls[c] # None
      PROVE  /\ CallShape(calls[c]) /\ Stored(calls[c].parent)' /\ calls[c].epoch \in Nat
             /\ calls[c].stage = "saving" => Asks(calls[c].ask, Len(index'.runs))
  BY <1>1, <1>2 DEF CallsRight, Asks
<1> QED
  BY <1>2 DEF CallsRight

\* A call that changes its stage; when it gets ready to save, it names a run.
LEMMA CallMoves ==
    ASSUME IInv, NEW c \in Slot, NEW k, calls' = [calls EXCEPT ![c] = k],
           UNCHANGED <<users, index>>,
           k # None => /\ CallShape(k) /\ Stored(k.parent) /\ k.epoch \in Nat
                       /\ k.stage = "saving" => Asks(k.ask, Len(index.runs))
    PROVE  CallsRight'
<1>1. calls' = [d \in Slot |-> calls'[d]]
      /\ \A d \in Slot : calls'[d] = IF d = c THEN k ELSE calls[d]
  BY DEF IInv, CallsRight
<1> QED
  BY <1>1 DEF IInv, CallsRight, Stored

LEMMA InitHolds == Init => IInv
<1> SUFFICES ASSUME Init PROVE IInv
  OBVIOUS
<1>1. MessagesInOrder
  <2>1. users = <<TRUE>> /\ hook = None /\ line = << >> /\ message.parent = 1
    BY DEF Init
  <2>2. users \in Seq(BOOLEAN) /\ Len(users) = 1 /\ users[1]
    BY <2>1
  <2>3. line \in Seq(Slot \cup {None}) /\ Len(line) = 0
    BY <2>1
  <2>4. Stored(1) /\ Stored(message.parent)
    BY <2>1, <2>2 DEF Stored
  <2>5. \A u \in 1..Len(users) : users[u]
    BY <2>2
  <2> QED
    BY <2>1, <2>2, <2>3, <2>4, <2>5 DEF MessagesInOrder
<1>2. EpochsInOrder
  BY DEF Init, EpochsInOrder
<1>3. CallsRight
  BY DEF Init, CallsRight
<1>4. RunsRight /\ ResumedKnowingly
  <2>1. index.runs = << >> /\ opened = << >> /\ Len(index.runs) = 0 /\ Len(opened) = 0
    BY DEF Init
  <2>2. IsSeq(index.runs) /\ opened \in Seq(Nat)
    BY <2>1, EmptySeq DEF IsSeq
  <2>3. index = [active |-> index.active, runs |-> index.runs]
    BY DEF Init
  <2> QED
    BY <2>1, <2>2, <2>3 DEF RunsRight, ResumedKnowingly, Run
<1> QED
  BY <1>1, <1>2, <1>3, <1>4 DEF IInv

\* Steps that leave index, messages and epochs alone.
LEMMA AgentSteps ==
    ASSUME IInv, Agent PROVE IInv'
<1>1. UNCHANGED <<index, users, epoch, hook, calls, line, opened, heard>>
  BY DEF Agent, CreateTask, ReadTask, TaskMoves, NextMessage
<1>2. Stored(message'.parent)
  <2>1. CASE message' = message
    BY <2>1 DEF IInv, MessagesInOrder
  <2>2. CASE NextMessage
    BY <2>2, LastUserStored DEF IInv, NextMessage
  <2> QED
    BY <2>1, <2>2 DEF Agent, CreateTask, ReadTask, TaskMoves
<1>3. MessagesInOrder'
  BY <1>1, <1>2 DEF IInv, MessagesInOrder, Stored
<1>4. EpochsInOrder' /\ ResumedKnowingly' /\ RunsRight'
  BY <1>1 DEF IInv, EpochsInOrder, ResumedKnowingly, Run, RunsRight, Stored, RunShape, IsSeq
<1>5. CallsRight'
  BY <1>1 DEF IInv, CallsRight, Stored, CallShape, Asks
<1> QED
  BY <1>3, <1>4, <1>5 DEF IInv

LEMMA UserWritesStep ==
    ASSUME IInv, UserWrites PROVE IInv'
<1>1. /\ users' = Append(users, FALSE) /\ users \in Seq(BOOLEAN)
      /\ hook = None /\ hook' = Len(users) + 1
      /\ line' = Append(line, None) /\ line \in Seq(Slot \cup {None})
      /\ epoch' = epoch + 1
      /\ UNCHANGED <<index, message, calls, opened, heard>>
  BY DEF UserWrites, IInv, MessagesInOrder
<1>2. /\ users' \in Seq(BOOLEAN) /\ Len(users') = Len(users) + 1 /\ Len(users) \in Nat
      /\ \A u \in 1..Len(users) : users'[u] = users[u]
      /\ ~users'[Len(users) + 1]
  BY <1>1, AppendProperties
<1>3. \A u : Stored(u) => Stored(u)'
  BY <1>2 DEF Stored
<1>4. MessagesInOrder'
  <2>1. line' \in Seq(Slot \cup {None})
    BY <1>1, AppendProperties
  <2>2. hook' # None
    BY <1>1, <1>2, NoneAssumption
  <2>3. \A u \in 1..Len(users') : ~users'[u] => u = hook'
    BY <1>1, <1>2, NoneAssumption DEF IInv, MessagesInOrder
  <2> QED
    BY <1>1, <1>2, <1>3, <2>1, <2>2, <2>3 DEF IInv, MessagesInOrder
<1>5. EpochsInOrder' /\ ResumedKnowingly'
  BY <1>1 DEF IInv, EpochsInOrder, ResumedKnowingly, Run
<1>6. RunsRight'
  BY <1>1, <1>3 DEF IInv, RunsRight, Run, IsSeq, RunShape
<1>7. CallsRight'
  BY <1>1, <1>3 DEF IInv, CallsRight, CallShape, Asks
<1> QED
  BY <1>4, <1>5, <1>6, <1>7 DEF IInv

LEMMA UserStoredStep ==
    ASSUME IInv, UserStored PROVE IInv'
<1>1. /\ hook # None /\ hook' = None
      /\ \A i \in 1..Len(line) : line[i] # None
      /\ users' = [users EXCEPT ![hook] = TRUE] /\ users \in Seq(BOOLEAN)
      /\ UNCHANGED <<index, message, epoch, calls, line, opened, heard>>
  BY DEF UserStored, IInv, MessagesInOrder
<1>2. /\ users' \in Seq(BOOLEAN) /\ Len(users') = Len(users)
      /\ users'[hook] /\ \A u \in 1..Len(users) : u # hook => users'[u] = users[u]
  <2>1. hook \in 1..Len(users)
    BY <1>1 DEF IInv, MessagesInOrder, Stored
  <2> QED
    BY <1>1, <2>1
<1>3. \A u : Stored(u) => Stored(u)'
  BY <1>2 DEF Stored
<1>4. MessagesInOrder'
  BY <1>1, <1>2, <1>3 DEF IInv, MessagesInOrder
<1>5. EpochsInOrder' /\ ResumedKnowingly'
  BY <1>1 DEF IInv, EpochsInOrder, ResumedKnowingly, Run
<1>6. RunsRight'
  BY <1>1, <1>3 DEF IInv, RunsRight, Run, IsSeq, RunShape
<1>7. CallsRight'
  BY <1>1, <1>3 DEF IInv, CallsRight, CallShape, Asks
<1> QED
  BY <1>4, <1>5, <1>6, <1>7 DEF IInv

\* Nobody but the head of the line leaves it.
LEMMA LineMoves ==
    ASSUME MessagesInOrder, line # << >>, line' = Tail(line), UNCHANGED <<users, hook, message>>
    PROVE  MessagesInOrder'
<1>1. /\ Tail(line) \in Seq(Slot \cup {None}) /\ Len(Tail(line)) = Len(line) - 1
      /\ \A i \in 1..Len(Tail(line)) : Tail(line)[i] = line[i + 1] /\ i + 1 \in 1..Len(line)
  <2>1. Len(line) \in Nat /\ line \in Seq(Slot \cup {None})
    BY DEF MessagesInOrder
  <2> QED
    BY <2>1, HeadTailProperties
<1> QED
  BY <1>1 DEF MessagesInOrder, Stored

\* The index the hook leaves: no run is under way.
LEMMA NoneRuns ==
    ASSUME IInv, Accepted(index), hook # None, UNCHANGED users,
           index' = ResumedForSession(index, hook), UNCHANGED <<opened, users>>
    PROVE  RunsRight' /\ Len(index'.runs) = Len(index.runs)
           /\ \A r \in 1..Len(index.runs) : index'.runs[r].status # "running"
<1>0. RunsRight /\ IsSeq(index.runs) /\ Len(index.runs) \in Nat
  BY IsSeqFacts DEF IInv, RunsRight
<1>1. \A r \in Run : index.runs[r].status = "running" => index.active = r
  BY DEF Accepted, Run
<1>2. CASE index.active = 0
  <2>1. index' = index
    BY <1>2 DEF ResumedForSession
  <2> QED
    BY <1>0, <1>1, <1>2, <2>1 DEF RunsRight, Run, Stored, IsSeq, RunShape
<1>3. CASE index.active # 0
  <2> DEFINE run == index.runs[index.active]
             n == [run EXCEPT !.status = "interrupted", !.revision = @ + 1]
  <2>1. index.active \in Run /\ run.status \in {"running", "interrupted"}
    BY <1>3 DEF Accepted, Run
  <2>2. run.boundary # hook
    BY <2>1 DEF IInv, RunsRight, Stored, MessagesInOrder
  <2>3. CASE run.status = "interrupted"
    <3>1. index' = index
      BY <1>3, <2>2, <2>3 DEF ResumedForSession
    <3> QED
      BY <1>0, <1>1, <2>3, <3>1 DEF RunsRight, Run, Stored, IsSeq, RunShape
  <2>4. CASE run.status = "running"
    <3> DEFINE rs == [index.runs EXCEPT ![index.active] = n]
    <3>1. index' = [index EXCEPT !.runs = rs]
      BY <1>3, <2>2, <2>4 DEF ResumedForSession
    <3>2. RunShape(n) /\ n.boundary = run.boundary /\ n.status = "interrupted"
      <4>1. RunShape(run)
        BY <1>0, <2>1 DEF RunsRight
      <4> HIDE DEF run
      <4> DEFINE n1 == [run EXCEPT !.status = "interrupted"]
      <4>2. n = [n1 EXCEPT !.revision = @ + 1]
        OBVIOUS
      <4>3. RunShape(n1) /\ n1.boundary = run.boundary /\ n1.status = "interrupted"
        BY <4>1 DEF RunShape
      <4> HIDE DEF n1, n
      <4> QED
        BY <4>2, <4>3 DEF RunShape
    <3> HIDE DEF n
    <3>3. index.active \in 1..Len(index.runs)
      BY <2>1 DEF Run
    <3>4. IsSeq(rs) /\ Len(rs) = Len(index.runs) /\ rs[index.active] = n
          /\ \A r \in 1..Len(index.runs) : r # index.active => rs[r] = index.runs[r]
      <4>1. rs = Changed(index.runs, index.active, n)
        BY DEF Changed
      <4> HIDE DEF rs
      <4> QED
        BY <1>0, <3>3, <4>1, ChangeIsSeq
    <3> HIDE DEF rs
    <3>5. index' = [active |-> index.active, runs |-> rs]
      BY <1>0, <3>1 DEF RunsRight
    <3>6. index'.runs = rs /\ index'.active = index.active
      BY <3>5
    <3>7. \A r \in 1..Len(index.runs) : rs[r].status # "running"
      BY <1>1, <3>2, <3>4 DEF Run
    <3>8. \A r \in 1..Len(index.runs) : RunShape(rs[r]) /\ Stored(rs[r].boundary)
      BY <1>0, <3>2, <3>3, <3>4 DEF RunsRight, Run
    <3>9. RunsRight'
      <4>1. index' = [active |-> index'.active, runs |-> index'.runs]
        BY <3>5, <3>6
      <4>2. IsSeq(index.runs)' /\ Len(index'.runs) = Len(index.runs)
        BY <3>4, <3>6 DEF IsSeq
      <4>3. \A r \in Run' : (RunShape(index.runs[r]) /\ Stored(index.runs[r].boundary))'
        BY <3>6, <3>8, <4>2 DEF Run, Stored, RunShape
      <4> QED
        BY <1>0, <4>1, <4>2, <4>3 DEF RunsRight
    <3> QED
      BY <3>4, <3>6, <3>7, <3>9
  <2> QED
    BY <2>1, <2>3, <2>4
<1> QED
  BY <1>2, <1>3

LEMMA ReconcileStep ==
    ASSUME IInv, Reconcile PROVE IInv'
<1>1. /\ line # << >> /\ Head(line) = None /\ line' = Tail(line)
      /\ UNCHANGED <<users, message, epoch, hook, calls, opened>>
  BY DEF Reconcile
<1>2. MessagesInOrder'
  BY <1>1, LineMoves DEF IInv
<1>3. hook # None
  <2>1. line \in Seq(Slot \cup {None}) /\ Len(line) \in Nat \ {0}
    BY <1>1, EmptySeq DEF IInv, MessagesInOrder
  <2>2. line[1] = None
    BY <1>1, <2>1, HeadTailProperties
  <2> QED
    BY <2>1, <2>2 DEF IInv, MessagesInOrder
<1>4. CASE UNCHANGED <<index, heard>>
  <2>1. EpochsInOrder' /\ ResumedKnowingly' /\ RunsRight'
    BY <1>1, <1>4 DEF IInv, EpochsInOrder, ResumedKnowingly, Run, RunsRight, Stored, RunShape, IsSeq
  <2>2. CallsRight'
    BY <1>1, <1>4 DEF IInv, CallsRight, Stored, CallShape, Asks
  <2> QED
    BY <1>2, <2>1, <2>2 DEF IInv
<1>5. CASE Accepted(index) /\ index' = ResumedForSession(index, hook) /\ heard' = epoch
  <2>1. RunsRight' /\ Len(index'.runs) = Len(index.runs)
        /\ \A r \in 1..Len(index.runs) : index'.runs[r].status # "running"
    BY <1>1, <1>3, <1>5, NoneRuns
  <2>2. ResumedKnowingly'
    BY <2>1 DEF ResumedKnowingly, Run
  <2>3. CallsRight'
    <3>1. IsSeq(index.runs) /\ IsSeq(index.runs)' /\ Len(index.runs) \in Nat
      BY <2>1, IsSeqFacts DEF IInv, RunsRight
    <3>2. \A u : Stored(u) => Stored(u)'
      BY <1>1 DEF Stored
    <3> QED
      BY <1>1, <2>1, <3>1, <3>2, CallsStay DEF IInv
  <2>4. EpochsInOrder'
    BY <1>1, <1>5 DEF IInv, EpochsInOrder
  <2> QED
    BY <1>2, <2>1, <2>2, <2>3, <2>4 DEF IInv
<1> QED
  BY <1>4, <1>5 DEF Reconcile

LEMMA CallStep ==
    ASSUME IInv, NEW c \in Slot, Call(c) PROVE IInv'
<1> DEFINE k == [parent |-> message.parent, seen |-> message.seen, at |-> clock',
                 epoch |-> epoch, ask |-> None, stage |-> "asking"]
<1>1. /\ calls' = [calls EXCEPT ![c] = k]
      /\ UNCHANGED <<index, users, message, epoch, hook, line, opened, heard>>
  BY DEF Call, transcript
<1>2. CallsRight'
  <2>1. CallShape(k) /\ Stored(k.parent) /\ k.epoch \in Nat /\ k.stage # "saving"
    BY DEF CallShape, IInv, MessagesInOrder, EpochsInOrder
  <2> HIDE DEF k
  <2> QED
    BY <1>1, <2>1, CallMoves
<1>3. MessagesInOrder' /\ EpochsInOrder'
  BY <1>1 DEF IInv, MessagesInOrder, EpochsInOrder, Stored
<1>4. RunsRight' /\ ResumedKnowingly'
  BY <1>1 DEF IInv, ResumedKnowingly, Run, RunsRight, Stored, RunShape, IsSeq
<1> QED
  BY <1>2, <1>3, <1>4 DEF IInv

LEMMA GrantedStep ==
    ASSUME IInv, NEW c \in Slot, Granted(c) PROVE IInv'
<1> DEFINE k == [calls[c] EXCEPT !.stage = "waiting"]
<1>1. /\ calls[c] # None /\ calls' = [calls EXCEPT ![c] = k] /\ line' = Append(line, c)
      /\ UNCHANGED <<index, users, message, epoch, hook, opened, heard>>
  <2>1. calls' = [calls EXCEPT ![c] = k]
    BY DEF Granted, IInv, CallsRight
  <2> QED
    BY <2>1 DEF Granted, transcript
<1>2. CallsRight'
  <2>1. CallShape(calls[c]) /\ Stored(calls[c].parent) /\ calls[c].epoch \in Nat
    BY <1>1 DEF IInv, CallsRight
  <2>2. CallShape(k) /\ Stored(k.parent) /\ k.epoch \in Nat /\ k.stage # "saving"
    BY <2>1 DEF CallShape
  <2> HIDE DEF k
  <2> QED
    BY <1>1, <2>2, CallMoves
<1>3. MessagesInOrder'
  <2>1. line \in Seq(Slot \cup {None}) /\ c # None
    BY NoneAssumption DEF IInv, MessagesInOrder
  <2>2. /\ line' \in Seq(Slot \cup {None}) /\ Len(line') = Len(line) + 1 /\ Len(line) \in Nat
        /\ \A i \in 1..Len(line) : line'[i] = line[i]
        /\ line'[Len(line) + 1] = c
    BY <1>1, <2>1, AppendProperties
  <2>3. \A i \in 1..Len(line') : line'[i] = None => i \in 1..Len(line)
    BY <2>1, <2>2
  <2> QED
    BY <1>1, <2>1, <2>2, <2>3 DEF IInv, MessagesInOrder, Stored
<1>4. RunsRight' /\ ResumedKnowingly' /\ EpochsInOrder'
  BY <1>1 DEF IInv, ResumedKnowingly, Run, RunsRight, Stored, RunShape, IsSeq, EpochsInOrder
<1> QED
  BY <1>2, <1>3, <1>4 DEF IInv

LEMMA CheckStep ==
    ASSUME IInv, NEW c \in Slot, Check(c) PROVE IInv'
<1>1. /\ line # << >> /\ calls[c] # None
      /\ UNCHANGED <<index, users, message, epoch, hook, opened, heard>>
  BY DEF Check, Holds, transcript
<1>2. RunsRight' /\ ResumedKnowingly' /\ EpochsInOrder'
  BY <1>1 DEF IInv, ResumedKnowingly, Run, RunsRight, Stored, RunShape, IsSeq, EpochsInOrder
<1>3. CASE calls' = [calls EXCEPT ![c] = None] /\ line' = Tail(line)
  <2>1. CallsRight'
    BY <1>1, <1>3, CallMoves
  <2>2. MessagesInOrder'
    BY <1>1, <1>3, LineMoves DEF IInv
  <2> QED
    BY <1>2, <2>1, <2>2 DEF IInv
<1>4. ASSUME NEW q \in Request, UNCHANGED line,
             calls' = [calls EXCEPT ![c].stage = "saving",
                          ![c].ask = [q EXCEPT !.verified = Evidenced(calls[c], q)]]
      PROVE  IInv'
  <2> DEFINE a == [q EXCEPT !.verified = Evidenced(calls[c], q)]
             k1 == [calls[c] EXCEPT !.stage = "saving"]
             k == [k1 EXCEPT !.ask = a]
  <2>1. Asks(a, Len(index.runs))
    BY RequestAsks
  <2> HIDE DEF a
  <2>2. calls' = [calls EXCEPT ![c] = k]
    BY <1>4 DEF IInv, CallsRight, a
  <2>3. CallShape(calls[c]) /\ Stored(calls[c].parent) /\ calls[c].epoch \in Nat
    BY <1>1 DEF IInv, CallsRight
  <2>4. CallShape(k1) /\ k1.parent = calls[c].parent /\ k1.epoch = calls[c].epoch
    BY <2>3 DEF CallShape
  <2> HIDE DEF k1
  <2>5. CallShape(k) /\ Stored(k.parent) /\ k.epoch \in Nat /\ k.ask = a
    BY <2>3, <2>4 DEF CallShape
  <2> HIDE DEF k
  <2>6. CallsRight'
    BY <1>1, <2>1, <2>2, <2>5, CallMoves
  <2>7. MessagesInOrder'
    BY <1>1, <1>4 DEF IInv, MessagesInOrder, Stored
  <2> QED
    BY <1>2, <2>6, <2>7 DEF IInv
<1> QED
  BY <1>3, <1>4 DEF Check

\* A call that ends, with runs only added.
LEMMA CallEnds ==
    ASSUME IInv, NEW c \in Slot, calls' = [calls EXCEPT ![c] = None], UNCHANGED users,
           IsSeq(index.runs)', Len(index.runs) <= Len(index'.runs)
    PROVE  CallsRight'
<1>1. calls' = [d \in Slot |-> calls'[d]]
      /\ \A d \in Slot : calls'[d] = IF d = c THEN None ELSE calls[d]
  BY DEF IInv, CallsRight
<1>2. Len(index.runs) \in Nat /\ Len(index'.runs) \in Nat
  BY IsSeqFacts DEF IInv, RunsRight
<1>3. ASSUME NEW d \in Slot, calls'[d] # None
      PROVE  /\ CallShape(calls'[d]) /\ Stored(calls[d].parent)' /\ calls'[d].epoch \in Nat
             /\ calls'[d].stage = "saving" => Asks(calls'[d].ask, Len(index'.runs))
  <2>1. calls'[d] = calls[d] /\ calls[d] # None
    BY <1>1, <1>3
  <2>2. /\ CallShape(calls[d]) /\ Stored(calls[d].parent) /\ calls[d].epoch \in Nat
        /\ calls[d].stage = "saving" => Asks(calls[d].ask, Len(index.runs))
    BY <2>1 DEF IInv, CallsRight
  <2>3. Stored(calls[d].parent) => Stored(calls[d].parent)'
    BY <2>1 DEF Stored
  <2>4. Asks(calls[d].ask, Len(index.runs)) => Asks(calls[d].ask, Len(index'.runs))
    BY <1>2 DEF Asks
  <2> QED
    BY <2>1, <2>2, <2>3, <2>4
<1> QED
  BY <1>1, <1>3 DEF CallsRight

\* What a saved index is: the runs that were there, changed or not, and perhaps
\* a new one; those that run were opened by a call that knew the last message
\* dealt with.
RightlySaved ==
    /\ index' = [active |-> index'.active, runs |-> index'.runs]
    /\ IsSeq(index.runs)' /\ Len(index.runs) <= Len(index'.runs)
    /\ opened' \in Seq(Nat) /\ Len(opened') = Len(index'.runs)
    /\ \A r \in 1..Len(index'.runs) :
          /\ RunShape(index'.runs[r]) /\ Stored(index'.runs[r].boundary)
          /\ index'.runs[r].status = "running" => opened'[r] >= heard

LEMMA StartSaved ==
    ASSUME IInv, NEW e \in Nat, e >= heard, NEW parent, Stored(parent),
           index' = [active |-> Len(index.runs) + 1,
                     runs |-> Append(index.runs, NewProcess(parent))],
           opened' = Append(opened, e)
    PROVE  RightlySaved
<1> DEFINE n == NewProcess(parent)
           rs == Append(index.runs, n)
<1>1. IsSeq(index.runs) /\ Len(index.runs) \in Nat
  BY IsSeqFacts DEF IInv, RunsRight
<1>2. RunShape(n) /\ n.boundary = parent
  BY DEF NewProcess, RunShape
<1>3. index' = [active |-> index'.active, runs |-> index'.runs] /\ index'.runs = rs
  OBVIOUS
<1> HIDE DEF n
<1>4. /\ IsSeq(rs) /\ Len(rs) = Len(index.runs) + 1
      /\ \A r \in 1..Len(index.runs) : rs[r] = index.runs[r]
      /\ rs[Len(index.runs) + 1] = n
  BY <1>1, AppendIsSeq
<1> HIDE DEF rs
<1>5. /\ opened' \in Seq(Nat) /\ Len(opened') = Len(rs)
      /\ \A r \in 1..Len(index.runs) : opened'[r] = opened[r]
      /\ opened'[Len(index.runs) + 1] = e
  <2>1. opened \in Seq(Nat) /\ Len(opened) = Len(index.runs)
    BY DEF IInv, RunsRight
  <2> QED
    BY <1>4, <2>1, AppendProperties
<1>6. ASSUME NEW r \in 1..Len(rs)
      PROVE  /\ RunShape(rs[r]) /\ Stored(rs[r].boundary)
             /\ rs[r].status = "running" => opened'[r] >= heard
  <2>1. CASE r = Len(index.runs) + 1
    BY <1>2, <1>4, <1>5, <2>1
  <2>2. CASE r # Len(index.runs) + 1
    <3>1. r \in Run
      BY <1>1, <1>4, <2>2 DEF Run
    <3>2. rs[r] = index.runs[r] /\ opened'[r] = opened[r]
      BY <1>4, <1>5, <3>1 DEF Run
    <3> QED
      BY <3>1, <3>2 DEF IInv, RunsRight, ResumedKnowingly
  <2> QED
    BY <2>1, <2>2
<1>7. IsSeq(index.runs)'
  BY <1>3, <1>4 DEF IsSeq
<1> QED
  BY <1>1, <1>3, <1>4, <1>5, <1>6, <1>7 DEF RightlySaved

LEMMA MoveSaved ==
    ASSUME IInv, NEW c, NEW q, q.action \in Action \ {"start"}, q.run \in Run,
           c.epoch \in Nat, c.epoch >= heard, Stored(c.parent),
           NEW b, index' = [active |-> b,
                            runs |-> [index.runs EXCEPT ![q.run] = Moved(@, c, q)]],
           opened' = IF q.action = "resume" THEN [opened EXCEPT ![q.run] = c.epoch] ELSE opened
    PROVE  RightlySaved
<1> DEFINE n == Moved(index.runs[q.run], c, q)
           rs == Changed(index.runs, q.run, n)
<1>1. IsSeq(index.runs) /\ Len(index.runs) \in Nat /\ q.run \in 1..Len(index.runs)
  BY IsSeqFacts DEF IInv, RunsRight, Run
<1>2. /\ RunShape(n) /\ n.boundary \in {index.runs[q.run].boundary, c.parent}
      /\ n.status = "running" => index.runs[q.run].status = "running" \/ q.action = "resume"
  <2>1. RunShape(index.runs[q.run])
    BY DEF IInv, RunsRight
  <2> QED
    BY <2>1, MovedRight
<1>3. index' = [active |-> index'.active, runs |-> index'.runs] /\ index'.runs = rs
  BY DEF Changed
<1> HIDE DEF n
<1>4. /\ IsSeq(rs) /\ Len(rs) = Len(index.runs) /\ rs[q.run] = n
      /\ \A r \in 1..Len(index.runs) : r # q.run => rs[r] = index.runs[r]
  BY <1>1, ChangeIsSeq
<1> HIDE DEF rs
<1>5. /\ opened' \in Seq(Nat) /\ Len(opened') = Len(index.runs)
      /\ \A r \in 1..Len(index.runs) : r # q.run => opened'[r] = opened[r]
      /\ opened'[q.run] = IF q.action = "resume" THEN c.epoch ELSE opened[q.run]
  <2>1. opened \in Seq(Nat) /\ Len(opened) = Len(index.runs)
    BY DEF IInv, RunsRight
  <2> QED
    BY <1>1, <2>1
<1>6. ASSUME NEW r \in 1..Len(rs)
      PROVE  /\ RunShape(rs[r]) /\ Stored(rs[r].boundary)
             /\ rs[r].status = "running" => opened'[r] >= heard
  <2>1. r \in Run
    BY <1>4 DEF Run
  <2>2. /\ RunShape(index.runs[r]) /\ Stored(index.runs[r].boundary)
        /\ index.runs[r].status = "running" => opened[r] >= heard
    BY <2>1 DEF IInv, RunsRight, ResumedKnowingly
  <2>3. CASE r = q.run
    BY <1>2, <1>4, <1>5, <2>2, <2>3
  <2>4. CASE r # q.run
    BY <1>4, <1>5, <2>2, <2>4
  <2> QED
    BY <2>3, <2>4
<1>7. IsSeq(index.runs)'
  BY <1>3, <1>4 DEF IsSeq
<1> QED
  BY <1>1, <1>3, <1>4, <1>5, <1>6, <1>7 DEF RightlySaved

LEMMA SaveStep ==
    ASSUME IInv, NEW c \in Slot, Save(c) PROVE IInv'
<1> DEFINE k == calls[c]
           q == k.ask
<1>1. /\ line # << >> /\ k # None /\ k.stage = "saving"
      /\ calls' = [calls EXCEPT ![c] = None] /\ line' = Tail(line)
      /\ UNCHANGED <<users, message, epoch, hook, heard>>
  BY DEF Save, Holds, transcript
<1>2. MessagesInOrder' /\ EpochsInOrder'
  BY <1>1, LineMoves DEF IInv, EpochsInOrder
<1>3. CASE UNCHANGED <<index, opened>>
  <2>1. RunsRight' /\ ResumedKnowingly'
    BY <1>1, <1>3 DEF IInv, ResumedKnowingly, Run, RunsRight, Stored, RunShape, IsSeq
  <2>2. CallsRight'
    BY <1>1, <1>3, CallMoves
  <2> QED
    BY <1>2, <2>1, <2>2 DEF IInv
<1>4. CASE /\ EpochHolds(k) /\ index' = Saved(k, q)
           /\ opened' = CASE q.action = "start"  -> Append(opened, k.epoch)
                          [] q.action = "resume" -> [opened EXCEPT ![q.run] = k.epoch]
                          [] OTHER               -> opened
  <2>1. /\ Stored(k.parent) /\ k.epoch \in Nat /\ k.epoch >= heard
        /\ Asks(q, Len(index.runs))
    BY <1>1, <1>4 DEF IInv, CallsRight, EpochsInOrder, EpochHolds
  <2> HIDE DEF k, q
  <2>2. RightlySaved
    <3>1. CASE q.action = "start"
      <4>1. /\ opened' = Append(opened, k.epoch)
            /\ index' = [active |-> Len(index.runs) + 1,
                         runs |-> Append(index.runs, NewProcess(k.parent))]
        BY <1>4, <3>1 DEF Saved
      <4> QED
        BY <2>1, <4>1, StartSaved
    <3>2. CASE q.action # "start"
      <4>1. q.action \in Action \ {"start"} /\ q.run \in Run
        BY <2>1, <3>2 DEF Asks, Run
      <4>2. index' = [active |-> Binding(index.runs[q.run], k, q),
                      runs |-> [index.runs EXCEPT ![q.run] = Moved(@, k, q)]]
        BY <1>4, <3>2 DEF Saved
      <4>3. opened' = IF q.action = "resume" THEN [opened EXCEPT ![q.run] = k.epoch] ELSE opened
        BY <1>4, <3>2
      <4> QED
        BY <2>1, <4>1, <4>2, <4>3, MoveSaved
    <3> QED
      BY <3>1, <3>2
  <2>3. RunsRight' /\ ResumedKnowingly'
    BY <1>1, <2>2 DEF RightlySaved, RunsRight, ResumedKnowingly, Run, Stored, RunShape
  <2>4. CallsRight'
    BY <1>1, <2>2, CallEnds DEF RightlySaved
  <2> QED
    BY <1>2, <2>3, <2>4 DEF IInv
<1> QED
  BY <1>3, <1>4 DEF Save

LEMMA NextHolds ==
    ASSUME IInv, [Next]_vars PROVE IInv'
<1>1. CASE UNCHANGED vars
  BY <1>1 DEF vars, IInv, MessagesInOrder, EpochsInOrder, CallsRight, RunsRight,
              ResumedKnowingly, Run, Stored, CallShape, RunShape, Asks, IsSeq
<1>2. CASE Agent
  BY <1>2, AgentSteps
<1>3. CASE User
  BY <1>3, UserWritesStep, ReconcileStep, UserStoredStep DEF User
<1>4. ASSUME NEW c \in Slot, Call(c) \/ Granted(c) \/ Check(c) \/ Save(c)
      PROVE  IInv'
  BY <1>4, CallStep, GrantedStep, CheckStep, SaveStep
<1> QED
  BY <1>1, <1>2, <1>3, <1>4 DEF Next
-----------------------------------------------------------------------------
(* The theorems. *)

\* The invariant the argument needs: a run and a call are bound to messages
\* that are stored, so the message in the hook of chat.message is never the
\* one the active run is bound to, and resumeForSession interrupts the run.
THEOREM Invariance == Spec => []IInv
<1>1. IInv /\ [Next]_vars => IInv'
  BY NextHolds
<1> QED
  BY <1>1, InitHolds, PTL DEF Spec

\* No run goes on after a message of the user unless a call made in the
\* knowledge of that message started or resumed it (resumeForSession, #save).
THEOREM NoRunGoesOnUnasked == Spec => []ResumedKnowingly
<1>1. IInv => ResumedKnowingly
  BY DEF IInv
<1> QED
  BY <1>1, Invariance, PTL

-----------------------------------------------------------------------------
(* What a step passes on.  The invariant says of every run what the check   *)
(* of a checkpoint says of one that is reported on, and of a call that is   *)
(* about to save that the index is still the one it looked at.              *)

StepShape(x) ==
    x = [status |-> x.status, begun |-> x.begun, named |-> x.named, evidence |-> x.evidence,
         attempt |-> x.attempt]

\* The steps of a run: one is begun when what it depends on has passed, in the
\* knowledge of no later report; one that passed was reported later than it was named.
Reports(run, now) ==
    /\ IsSeq(run.submissions)
    /\ \A n \in 1..Len(run.submissions) :
          run.submissions[n].at \in Nat /\ run.submissions[n].at <= now

Attempts(run) ==
    /\ run.steps = [s \in Step |-> run.steps[s]]
    /\ \A s \in Step : run.steps[s] # None =>
          /\ StepShape(run.steps[s]) /\ run.steps[s].named \in Nat
          /\ \A d \in DependsOn[s] :
                /\ Passed(run, d)
                /\ \A n \in DecidedBy(run, d) : run.submissions[n].at <= run.steps[s].named

Earned(run, s) ==
    /\ \A n \in DecidedBy(run, s) :
          /\ run.steps[s].named < run.submissions[n].at
          /\ \A e \in run.steps[s].evidence :
                run.steps[s].begun < e.at /\ e.at < run.submissions[n].at
    /\ \A q \in Gate[s] : Met(run, q, run.steps[s].evidence)

Worked(run, now) ==
    /\ RunShape(run) /\ Reports(run, now) /\ Attempts(run)
    /\ \A s \in Step : Passed(run, s) => Earned(run, s)
    /\ run.status = "completed" => \A s \in Step : Passed(run, s)

\* What a call is going to save fits the index it found.
Prepared(k, x) ==
    LET q == k.ask
        run == x.runs[q.run] IN
    q.action \in {"begin", "report"} /\ ~OtherTurn(run, k, q) =>
       /\ q.step \in Step
       /\ q.action = "begin" => q.step \in Ready(run)
       /\ q.action = "report" => /\ StatusOf(run, q.step) = "active"
                                /\ run.steps[q.step].attempt = q.attempt
                                /\ run.steps[q.step].named < k.at

RunsWork == \A r \in Run : Worked(index.runs[r], clock)

\* Only who holds the lock is about to save.
CallsWork ==
    \A c \in Slot : calls[c] # None =>
       /\ calls[c].at \in Nat /\ calls[c].at <= clock
       /\ calls[c].stage = "saving" => Holds(c) /\ Prepared(calls[c], index)

WorkRight == clock \in Nat /\ RunsWork /\ CallsWork

-----------------------------------------------------------------------------
(* Runs that change. *)

\* What holds of a passed step depends on passed steps only.
LEMMA PassedStays ==
    ASSUME NEW run, NEW n, NEW s \in Step, Passed(run, s), Earned(run, s),
           \A t \in Step : Passed(run, t) =>
              n.steps[t] = run.steps[t] /\ DecidedBy(n, t) = DecidedBy(run, t),
           \A m \in 1..Len(run.submissions) : n.submissions[m] = run.submissions[m]
    PROVE  Passed(n, s) /\ Earned(n, s)
<1>1. \A t \in Step : Passed(run, t) => Passed(n, t) /\ CreatedBy(n, t) = CreatedBy(run, t)
  BY DEF Passed, StatusOf, CreatedBy
<1>2. ASSUME NEW q \in Gate[s], Met(run, q, run.steps[s].evidence)
      PROVE  Met(n, q, n.steps[s].evidence)
  <2>1. PICK e \in run.steps[s].evidence :
           e.kind = q.kind /\ (q.from # None => CreatedBy(run, q.from) = {e.task})
    BY <1>2 DEF Met
  <2>2. q.from # None => CreatedBy(n, q.from) = {e.task}
    <3>1. q.from # None => q.from \in Step
      BY NormalWorkflow DEF NormalWorkflow
    <3>2. q.from # None => Passed(run, q.from)
      BY <2>1 DEF CreatedBy
    <3> QED
      BY <1>1, <2>1, <3>1, <3>2
  <2>3. n.steps[s] = run.steps[s]
    OBVIOUS
  <2> QED
    BY <2>1, <2>2, <2>3 DEF Met
<1>3. \A m \in DecidedBy(run, s) : n.submissions[m] = run.submissions[m]
  BY DEF DecidedBy
<1>4. n.steps[s] = run.steps[s] /\ DecidedBy(n, s) = DecidedBy(run, s)
  OBVIOUS
<1> QED
  BY <1>1, <1>2, <1>3, <1>4 DEF Earned

\* A run of which only the status or the revision changes.
LEMMA SameWork ==
    ASSUME NEW run, NEW n, NEW now \in Nat, NEW later \in Nat, now <= later,
           Worked(run, now), RunShape(n), n.steps = run.steps, n.submissions = run.submissions,
           n.status = "completed" => run.status = "completed"
    PROVE  Worked(n, later)
<1>1. \A s : StatusOf(n, s) = StatusOf(run, s) /\ DecidedBy(n, s) = DecidedBy(run, s)
  BY DEF StatusOf, DecidedBy
<1>2. \A s : Passed(n, s) = Passed(run, s)
  BY <1>1 DEF Passed
<1>3. \A s \in Step : Passed(n, s) => Earned(n, s)
  BY <1>1, <1>2, PassedStays DEF Worked
<1>4. Attempts(n)
  BY <1>1, <1>2 DEF Worked, Attempts
<1>5. Reports(n, later)
  BY DEF Worked, Reports
<1> QED
  BY <1>2, <1>3, <1>4, <1>5 DEF Worked

LEMMA BegunWork ==
    ASSUME NEW run, clock \in Nat, Worked(run, clock), NEW s \in Ready(run), NEW at
    PROVE  Worked(BeginProcess(run, s, at), clock)
<1> DEFINE x == [status |-> "active", begun |-> at, named |-> clock, evidence |-> {},
                 attempt |-> IF run.steps[s] = None THEN 1 ELSE run.steps[s].attempt + 1]
           n == BeginProcess(run, s, at)
<1>1. /\ s \in Step /\ ~Passed(run, s) /\ run.status = "running"
      /\ \A d \in DependsOn[s] : Passed(run, d)
  BY DEF Ready
<1>2. /\ RunShape(n) /\ n.submissions = run.submissions /\ n.status = run.status
      /\ n.steps = [run.steps EXCEPT ![s] = x]
  <2>1. n = [run EXCEPT !.steps[s] = x]
    BY DEF BeginProcess
  <2> HIDE DEF n, x
  <2> QED
    BY <2>1 DEF Worked, RunShape
<1>3. StepShape(x) /\ x.named = clock /\ x.status = "active"
  BY DEF StepShape
<1> HIDE DEF x, n
<1>4. /\ n.steps = [t \in Step |-> n.steps[t]]
      /\ \A t \in Step : n.steps[t] = IF t = s THEN x ELSE run.steps[t]
  BY <1>1, <1>2 DEF Worked, Attempts
<1>5. \A t \in Step : t # s => DecidedBy(n, t) = DecidedBy(run, t)
  BY <1>2, <1>4 DEF DecidedBy
<1>6. \A t \in Step : Passed(n, t) => t # s /\ Passed(run, t)
  BY <1>3, <1>4 DEF Passed, StatusOf
<1>7. \A t \in Step : Passed(run, t) => t # s /\ Passed(n, t) /\ Earned(n, t)
  BY <1>1, <1>2, <1>4, <1>5, PassedStays DEF Worked
<1>8. Reports(n, clock)
  BY <1>2 DEF Worked, Reports
<1>9. Attempts(n)
  <2>1. ASSUME NEW t \in Step, n.steps[t] # None
        PROVE  /\ StepShape(n.steps[t]) /\ n.steps[t].named \in Nat
               /\ \A d \in DependsOn[t] :
                     /\ Passed(n, d)
                     /\ \A m \in DecidedBy(n, d) : n.submissions[m].at <= n.steps[t].named
    <3>1. \A d \in DependsOn[t] : d \in Step
      BY NormalWorkflow DEF NormalWorkflow
    <3>2. CASE t = s
      <4>1. \A d \in DependsOn[s] : Passed(n, d) /\ DecidedBy(n, d) \subseteq 1..Len(n.submissions)
        BY <1>1, <1>7, <3>1, <3>2 DEF DecidedBy
      <4> QED
        BY <1>3, <1>4, <1>8, <3>2, <4>1 DEF Reports
    <3>3. CASE t # s
      <4>1. n.steps[t] = run.steps[t]
        BY <1>4, <3>3
      <4>2. /\ StepShape(run.steps[t]) /\ run.steps[t].named \in Nat
            /\ \A d \in DependsOn[t] :
                  /\ Passed(run, d)
                  /\ \A m \in DecidedBy(run, d) : run.submissions[m].at <= run.steps[t].named
        BY <2>1, <4>1 DEF Worked, Attempts
      <4>3. \A d \in DependsOn[t] : Passed(n, d) /\ DecidedBy(n, d) = DecidedBy(run, d)
        BY <1>5, <1>7, <3>1, <4>2
      <4> QED
        BY <1>2, <4>1, <4>2, <4>3
    <3> QED
      BY <3>2, <3>3
  <2> QED
    BY <1>4, <2>1 DEF Attempts
<1> QED
  BY <1>1, <1>2, <1>6, <1>7, <1>8, <1>9 DEF Worked, n

\* What a report makes of a step.
Decided(x, status, evidence) == [[x EXCEPT !.status = status] EXCEPT !.evidence = evidence]

LEMMA DecidedStep ==
    ASSUME NEW x, StepShape(x), NEW status, NEW evidence
    PROVE  /\ StepShape(Decided(x, status, evidence))
           /\ Decided(x, status, evidence).status = status
           /\ Decided(x, status, evidence).evidence = evidence
           /\ Decided(x, status, evidence).named = x.named
           /\ Decided(x, status, evidence).attempt = x.attempt
<1> DEFINE y == [x EXCEPT !.status = status]
<1>1. /\ StepShape(y) /\ y.status = status /\ y.named = x.named /\ y.attempt = x.attempt
  BY DEF StepShape
<1>2. Decided(x, status, evidence) = [y EXCEPT !.evidence = evidence]
  BY DEF Decided
<1> HIDE DEF y
<1> QED
  BY <1>1, <1>2 DEF StepShape

\* What a report makes of a run.
LEMMA ReportMakes ==
    ASSUME NEW run, RunShape(run), Attempts(run), NEW q, NEW at, q.step \in Step,
           run.steps[q.step] # None
    PROVE  \E status, sub, m :
              /\ m = AcceptProcessReport(run, q, at) /\ RunShape(m)
              /\ m.steps = [run.steps EXCEPT ![q.step] = Decided(@, status, q.evidence)]
              /\ m.submissions = Append(run.submissions, sub)
              /\ sub.step = q.step /\ sub.attempt = q.attempt /\ sub.at = at
              /\ status # "active"
<1> DEFINE accepted == q.verified /\ q.fits /\ GateMet(run, q.step, q.evidence)
           status == IF accepted THEN "passed" ELSE "rejected"
           sub == [step |-> q.step, attempt |-> q.attempt, evidence |-> q.evidence,
                   fits |-> q.fits, at |-> at, accepted |-> accepted]
           decided == [run EXCEPT
                !.steps[q.step].status = status,
                !.steps[q.step].evidence = q.evidence,
                !.submissions = Append(@, sub)]
           done == [decided EXCEPT !.status = "completed"]
           Made(m) == /\ RunShape(m)
                      /\ m.steps = [run.steps EXCEPT ![q.step] = Decided(@, status, q.evidence)]
                      /\ m.submissions = Append(run.submissions, sub)
<1>1. AcceptProcessReport(run, q, at) \in {decided, done}
  BY DEF AcceptProcessReport
<1>2. sub.step = q.step /\ sub.attempt = q.attempt /\ sub.at = at /\ status # "active"
  OBVIOUS
<1> HIDE DEF accepted, sub
<1>3. Made(decided)
  <2> DEFINE S1 == [run.steps EXCEPT ![q.step].status = status]
             S2 == [S1 EXCEPT ![q.step].evidence = q.evidence]
             m1 == [run EXCEPT !.steps = S1]
             m2 == [m1 EXCEPT !.steps = S2]
             m3 == [m2 EXCEPT !.submissions = Append(run.submissions, sub)]
  <2> HIDE DEF status
  <2>1. RunShape(m1) /\ m1.steps = S1 /\ m1.submissions = run.submissions
    BY DEF RunShape
  <2>2. RunShape(m2) /\ m2.steps = S2 /\ m2.submissions = run.submissions
    <3> HIDE DEF S1, S2
    <3> HIDE DEF m1
    <3> QED
      BY <2>1 DEF RunShape
  <2>3. RunShape(m3) /\ m3.steps = S2 /\ m3.submissions = Append(run.submissions, sub)
    <3> HIDE DEF S2, m1, m2
    <3> QED
      BY <2>2 DEF RunShape
  <2>4. decided = m3
    <3>1. m1 = [run EXCEPT !.steps[q.step].status = status]
      OBVIOUS
    <3>2. m2 = [run EXCEPT !.steps[q.step].status = status, !.steps[q.step].evidence = q.evidence]
      <4>1. [run EXCEPT !.steps[q.step].status = status, !.steps[q.step].evidence = q.evidence]
            = [m1 EXCEPT !.steps[q.step].evidence = q.evidence]
        OBVIOUS
      <4>2. [m1 EXCEPT !.steps[q.step].evidence = q.evidence] = m2
        <5> HIDE DEF S1, m1
        <5> QED
          BY <2>1
      <4> QED
        BY <4>1, <4>2
    <3>3. decided = [m2 EXCEPT !.submissions = Append(@, sub)]
      BY <3>2
    <3> HIDE DEF m2, S1, S2
    <3> QED
      BY <2>2, <3>3
  <2>5. S2 = [run.steps EXCEPT ![q.step] = Decided(@, status, q.evidence)]
    <3> DEFINE y == [run.steps[q.step] EXCEPT !.status = status]
    <3>1. S1 = [run.steps EXCEPT ![q.step] = y]
      OBVIOUS
    <3>2. S1[q.step] = y
      BY <3>1 DEF Attempts
    <3>3. S2 = [S1 EXCEPT ![q.step] = [y EXCEPT !.evidence = q.evidence]]
      BY <3>2
    <3>4. Decided(run.steps[q.step], status, q.evidence) = [y EXCEPT !.evidence = q.evidence]
      BY DEF Decided
    <3> HIDE DEF y, S2, S1
    <3> QED
      BY <3>1, <3>3, <3>4 DEF Attempts
  <2> QED
    BY <2>3, <2>4, <2>5
<1> HIDE DEF decided
<1>4. Made(done)
  <2> HIDE DEF status
  <2> QED
    BY <1>3 DEF RunShape
<1> HIDE DEF done
<1>5. \E m \in {decided, done} : m = AcceptProcessReport(run, q, at) /\ Made(m)
  BY <1>1, <1>3, <1>4
<1> HIDE DEF status
<1> QED
  BY <1>2, <1>5

LEMMA ReportedWork ==
    ASSUME NEW run, NEW now \in Nat, Worked(run, now), NEW q, NEW at \in Nat, at <= now,
           q.step \in Step, StatusOf(run, q.step) = "active",
           run.steps[q.step].attempt = q.attempt, run.steps[q.step].named < at,
           NEW n, RunShape(n), n.steps = AcceptProcessReport(run, q, at).steps,
           n.submissions = AcceptProcessReport(run, q, at).submissions,
           Checkpoint(n), Provenance(n)
    PROVE  Worked(n, now)
<1> DEFINE u == q.step
           k == Len(run.submissions) + 1
<1>1. run.steps[u] # None /\ ~Passed(run, u)
  BY DEF StatusOf, Passed
<1>2. PICK status, sub :
        /\ n.steps = [run.steps EXCEPT ![u] = Decided(@, status, q.evidence)]
        /\ n.submissions = Append(run.submissions, sub)
        /\ sub.step = u /\ sub.attempt = q.attempt /\ sub.at = at /\ status # "active"
  <2>1. RunShape(run) /\ Attempts(run)
    BY DEF Worked
  <2>2. \E status, sub, m :
              /\ m = AcceptProcessReport(run, q, at) /\ RunShape(m)
              /\ m.steps = [run.steps EXCEPT ![q.step] = Decided(@, status, q.evidence)]
              /\ m.submissions = Append(run.submissions, sub)
              /\ sub.step = q.step /\ sub.attempt = q.attempt /\ sub.at = at
              /\ status # "active"
    BY <1>1, <2>1, ReportMakes
  <2>3. PICK status, sub, m :
              /\ m = AcceptProcessReport(run, q, at)
              /\ m.steps = [run.steps EXCEPT ![q.step] = Decided(@, status, q.evidence)]
              /\ m.submissions = Append(run.submissions, sub)
              /\ sub.step = q.step /\ sub.attempt = q.attempt /\ sub.at = at
              /\ status # "active"
    BY <2>2
  <2>4. n.steps = m.steps /\ n.submissions = m.submissions
    BY <2>3
  <2> QED
    BY <2>3, <2>4
<1> DEFINE x == Decided(run.steps[u], status, q.evidence)
<1>3. StepShape(x) /\ x.status = status /\ x.named = run.steps[u].named /\ x.attempt = q.attempt
  BY <1>1, DecidedStep DEF Worked, Attempts
<1>4. /\ n.steps = [t \in Step |-> n.steps[t]]
      /\ \A t \in Step : n.steps[t] = IF t = u THEN x ELSE run.steps[t]
  BY <1>2 DEF Worked, Attempts
<1> HIDE DEF x
<1>5. /\ IsSeq(n.submissions) /\ Len(n.submissions) = k /\ n.submissions[k] = sub
      /\ \A m \in 1..Len(run.submissions) : n.submissions[m] = run.submissions[m]
      /\ Len(run.submissions) \in Nat
  <2>1. IsSeq(run.submissions)
    BY DEF Worked, Reports
  <2> QED
    BY <1>2, <2>1, AppendIsSeq, IsSeqFacts
<1>6. Reports(n, now)
  BY <1>2, <1>5 DEF Worked, Reports
<1>7. \A t \in Step : t # u => DecidedBy(n, t) = DecidedBy(run, t)
  BY <1>2, <1>4, <1>5 DEF DecidedBy
<1>8. \A t \in Step : Passed(run, t) => t # u /\ Passed(n, t) /\ Earned(n, t)
  BY <1>1, <1>4, <1>5, <1>7, PassedStays DEF Worked
<1>9. Attempts(n)
  <2>1. ASSUME NEW t \in Step, n.steps[t] # None
        PROVE  /\ StepShape(n.steps[t]) /\ n.steps[t].named \in Nat
               /\ \A d \in DependsOn[t] :
                     /\ Passed(n, d)
                     /\ \A m \in DecidedBy(n, d) : n.submissions[m].at <= n.steps[t].named
    <3>1. \A d \in DependsOn[t] : d \in Step
      BY NormalWorkflow DEF NormalWorkflow
    <3>2. run.steps[t] # None
      BY <1>1, <1>4, <2>1
    <3>3. /\ StepShape(run.steps[t]) /\ run.steps[t].named \in Nat
          /\ \A d \in DependsOn[t] :
                /\ Passed(run, d)
                /\ \A m \in DecidedBy(run, d) : run.submissions[m].at <= run.steps[t].named
      BY <3>2 DEF Worked, Attempts
    <3>4. StepShape(n.steps[t]) /\ n.steps[t].named = run.steps[t].named
      BY <1>3, <1>4, <3>3
    <3>5. \A d \in DependsOn[t] : Passed(n, d) /\ DecidedBy(n, d) = DecidedBy(run, d)
      BY <1>7, <1>8, <3>1, <3>3
    <3>6. \A d \in DependsOn[t] : DecidedBy(run, d) \subseteq 1..Len(run.submissions)
      BY DEF DecidedBy
    <3> QED
      BY <1>5, <3>3, <3>4, <3>5, <3>6
  <2> QED
    BY <1>4, <2>1 DEF Attempts
<1>10. ASSUME NEW t \in Step, Passed(n, t) PROVE Earned(n, t)
  <2>1. CASE t # u
    <3>1. Passed(run, t)
      BY <1>4, <1>10, <2>1 DEF Passed, StatusOf
    <3> QED
      BY <1>8, <3>1
  <2>2. CASE t = u
    <3>1. n.steps[u] = x /\ n.steps[u] # None /\ StatusOf(n, u) # "active"
      BY <1>4, <1>10, <2>2 DEF Passed, StatusOf
    <3>2. PICK m : DecidedBy(n, u) = {m}
      BY <3>1 DEF Checkpoint
    <3>3. k \in DecidedBy(n, u)
      BY <1>2, <1>3, <1>5, <3>1 DEF DecidedBy
    <3>4. n.steps[u].named < n.submissions[k].at
      BY <1>2, <1>3, <1>5, <3>1
    <3>5. \A j \in DecidedBy(n, u), e \in n.steps[u].evidence :
             n.steps[u].begun < e.at /\ e.at < n.submissions[j].at
      BY <1>10, <2>2 DEF Provenance, Verified, Within
    <3>6. \A g \in Gate[u] : Met(n, g, n.steps[u].evidence)
      BY <1>10, <2>2, <3>1 DEF Checkpoint, GateMet
    <3> QED
      BY <2>2, <3>2, <3>3, <3>4, <3>5, <3>6 DEF Earned
  <2> QED
    BY <2>1, <2>2
<1> QED
  BY <1>6, <1>9, <1>10 DEF Worked, Checkpoint

\* The run after a call that was prepared, and held as a report must.
LEMMA MovedWork ==
    ASSUME NEW run, clock \in Nat, Worked(run, clock), NEW k, NEW q,
           q.action \in Action \ {"start"}, k.at \in Nat, k.at <= clock,
           q.action \in {"begin", "report"} /\ ~OtherTurn(run, k, q) =>
              /\ q.step \in Step
              /\ q.action = "begin" => q.step \in Ready(run)
              /\ q.action = "report" => /\ StatusOf(run, q.step) = "active"
                                        /\ run.steps[q.step].attempt = q.attempt
                                        /\ run.steps[q.step].named < k.at,
           q.action = "report" /\ ~OtherTurn(run, k, q) =>
              Checkpoint(Moved(run, k, q)) /\ Provenance(Moved(run, k, q))
    PROVE  Worked(Moved(run, k, q), clock)
<1> DEFINE n == Moved(run, k, q)
           Next1(m) == [m EXCEPT !.revision = @ + 1]
<1>1. RunShape(n)
  BY MovedRight DEF Worked
<1>2. \A m : RunShape(m) => /\ Next1(m).steps = m.steps /\ Next1(m).submissions = m.submissions
                            /\ Next1(m).status = m.status
  BY DEF RunShape
<1>3. CASE OtherTurn(run, k, q) \/ q.action \notin {"begin", "report"}
  <2> DEFINE m(s) == [run EXCEPT !.status = s]
             r == [run EXCEPT !.status = "running", !.boundary = k.parent]
  <2>1. \E s \in {"interrupted", "paused", "stopped"} : n = Next1(m(s)) \/ n = Next1(r)
    BY <1>3 DEF Moved, Action
  <2>2. \A s : /\ RunShape(m(s)) /\ m(s).status = s
               /\ m(s).steps = run.steps /\ m(s).submissions = run.submissions
    BY DEF Worked, RunShape
  <2>3. /\ RunShape(r) /\ r.status = "running"
        /\ r.steps = run.steps /\ r.submissions = run.submissions
    <3> DEFINE p == [run EXCEPT !.status = "running"]
    <3>1. r = [p EXCEPT !.boundary = k.parent]
      OBVIOUS
    <3>2. /\ RunShape(p) /\ p.status = "running"
          /\ p.steps = run.steps /\ p.submissions = run.submissions
      BY DEF Worked, RunShape
    <3> HIDE DEF p, r
    <3> QED
      BY <3>1, <3>2 DEF RunShape
  <2> HIDE DEF m, r, Next1
  <2>4. n.steps = run.steps /\ n.submissions = run.submissions /\ n.status # "completed"
    BY <1>2, <2>1, <2>2, <2>3
  <2> HIDE DEF n
  <2> QED
    BY <1>1, <2>4, SameWork DEF n
<1>4. CASE q.action = "begin" /\ ~OtherTurn(run, k, q)
  <2> DEFINE b == BeginProcess(run, q.step, k.at)
  <2>1. n = Next1(b)
    BY <1>4 DEF Moved
  <2>2. Worked(b, clock)
    BY <1>4, BegunWork
  <2> HIDE DEF b, n
  <2>3. RunShape(b)
    BY <2>2 DEF Worked
  <2>4. n.steps = b.steps /\ n.submissions = b.submissions /\ n.status = b.status
    BY <1>2, <2>1, <2>3
  <2> QED
    BY <1>1, <2>2, <2>4, SameWork DEF n
<1>5. CASE q.action = "report" /\ ~OtherTurn(run, k, q)
  <2> DEFINE b == AcceptProcessReport(run, q, k.at)
  <2>1. n = Next1(b)
    BY <1>5 DEF Moved
  <2>2. RunShape(b)
    <3>1. run.steps[q.step] # None /\ q.step \in Step
      BY <1>5 DEF StatusOf
    <3>2. RunShape(run) /\ Attempts(run)
      BY DEF Worked
    <3>3. \E status, sub, m :
              /\ m = AcceptProcessReport(run, q, k.at) /\ RunShape(m)
              /\ m.steps = [run.steps EXCEPT ![q.step] = Decided(@, status, q.evidence)]
              /\ m.submissions = Append(run.submissions, sub)
              /\ sub.step = q.step /\ sub.attempt = q.attempt /\ sub.at = k.at
              /\ status # "active"
      BY <3>1, <3>2, ReportMakes
    <3> QED
      BY <3>3
  <2> HIDE DEF b, n
  <2>3. n.steps = b.steps /\ n.submissions = b.submissions
    BY <1>2, <2>1, <2>2
  <2> QED
    BY <1>1, <1>5, <2>3, ReportedWork DEF b, n
<1> QED
  BY <1>3, <1>4, <1>5

-----------------------------------------------------------------------------
(* The steps, once more. *)

LEMMA InitWorks == Init => WorkRight
<1> SUFFICES ASSUME Init PROVE WorkRight
  OBVIOUS
<1>1. Run = {}
  BY DEF Init, Run
<1>2. clock = 0 /\ \A c \in Slot : calls[c] = None
  BY DEF Init
<1> QED
  BY <1>1, <1>2 DEF WorkRight, RunsWork, CallsWork

\* The runs are left alone while time goes on.
LEMMA TimeGoesOn ==
    ASSUME WorkRight, RunsRight, index' = index, clock' \in Nat, clock <= clock'
    PROVE  RunsWork'
<1>1. ASSUME NEW r \in Run PROVE Worked(index.runs[r], clock')
  <2> DEFINE run == index.runs[r]
  <2>1. Worked(run, clock) /\ RunShape(run) /\ clock \in Nat
    BY DEF WorkRight, RunsWork, RunsRight
  <2> HIDE DEF run
  <2>2. Worked(run, clock')
    BY <2>1, SameWork
  <2> QED
    BY <2>2 DEF run
<1>2. Run' = Run
  BY DEF Run
<1> QED
  BY <1>1, <1>2 DEF RunsWork

\* One call changes, the others go on: those about to save keep the lock, and the
\* index is left to them.
LEMMA OneCallMoves ==
    ASSUME IInv, WorkRight, NEW c \in Slot, NEW k, calls' = [calls EXCEPT ![c] = k],
           clock' \in Nat, clock <= clock',
           \A d \in Slot : d # c /\ Holds(d) => Holds(d)' /\ index' = index,
           k # None => /\ k.at \in Nat /\ k.at <= clock'
                       /\ k.stage = "saving" => Holds(c)' /\ Prepared(k, index')
    PROVE  CallsWork'
<1>1. \A d \in Slot : calls'[d] = IF d = c THEN k ELSE calls[d]
  BY DEF IInv, CallsRight
<1>2. ASSUME NEW d \in Slot, calls'[d] # None
      PROVE  /\ calls'[d].at \in Nat /\ calls'[d].at <= clock'
             /\ calls'[d].stage = "saving" => Holds(d)' /\ Prepared(calls'[d], index')
  <2>1. CASE d = c
    BY <1>1, <1>2, <2>1
  <2>2. CASE d # c
    <3>1. calls'[d] = calls[d]
      BY <1>1, <2>2
    <3>2. /\ calls[d].at \in Nat /\ calls[d].at <= clock /\ clock \in Nat
          /\ calls[d].stage = "saving" => Holds(d) /\ Prepared(calls[d], index)
      BY <1>2, <3>1 DEF WorkRight, CallsWork
    <3> QED
      BY <2>2, <3>1, <3>2
  <2> QED
    BY <2>1, <2>2
<1> QED
  BY <1>2 DEF CallsWork

LEMMA NoCallMoves ==
    ASSUME WorkRight, UNCHANGED <<calls, clock>>,
           \A d \in Slot : Holds(d) => Holds(d)' /\ index' = index
    PROVE  CallsWork'
<1>1. ASSUME NEW d \in Slot, calls'[d] # None
      PROVE  /\ calls'[d].at \in Nat /\ calls'[d].at <= clock'
             /\ calls'[d].stage = "saving" => Holds(d)' /\ Prepared(calls'[d], index')
  <2>1. /\ calls[d].at \in Nat /\ calls[d].at <= clock
        /\ calls[d].stage = "saving" => Holds(d) /\ Prepared(calls[d], index)
    BY <1>1 DEF WorkRight, CallsWork
  <2> QED
    BY <2>1
<1> QED
  BY <1>1 DEF CallsWork

\* Who joins the line does so behind its head.
LEMMA HeadStays ==
    ASSUME IInv, NEW x \in Slot \cup {None}, line' = Append(line, x), NEW c, Holds(c)
    PROVE  Holds(c)'
<1>1. line \in Seq(Slot \cup {None}) /\ line # << >> /\ Head(line) = c
  BY DEF IInv, MessagesInOrder, Holds
<1>2. Len(line) \in Nat /\ Len(line) # 0 /\ Head(line) = line[1]
  BY <1>1, EmptySeq, HeadTailProperties
<1>3. /\ Append(line, x) \in Seq(Slot \cup {None}) /\ Append(line, x)[1] = line[1]
      /\ Len(Append(line, x)) = Len(line) + 1
  BY <1>1, <1>2, AppendProperties
<1>4. Append(line, x) # << >> /\ Head(Append(line, x)) = line[1]
  BY <1>2, <1>3, HeadTailProperties, EmptySeq
<1> QED
  BY <1>1, <1>2, <1>4 DEF Holds

LEMMA SurroundingsWork ==
    ASSUME IInv, WorkRight, Agent \/ UserWrites \/ UserStored PROVE WorkRight'
<1>1. UNCHANGED <<index, clock, calls>>
  BY DEF Agent, CreateTask, ReadTask, TaskMoves, NextMessage, UserWrites, UserStored
<1>2. ASSUME NEW d \in Slot, Holds(d) PROVE Holds(d)'
  <2>1. CASE line' = line
    BY <1>2, <2>1 DEF Holds
  <2>2. CASE line' = Append(line, None)
    BY <1>2, <2>2, HeadStays
  <2> QED
    BY <2>1, <2>2 DEF Agent, CreateTask, ReadTask, TaskMoves, NextMessage, UserWrites, UserStored
<1>3. CallsWork'
  BY <1>1, <1>2, NoCallMoves
<1>4. clock' \in Nat /\ clock <= clock' /\ index' = index
  BY <1>1 DEF WorkRight
<1>5. RunsWork'
  BY <1>4, TimeGoesOn DEF IInv
<1> QED
  BY <1>3, <1>4, <1>5 DEF WorkRight

LEMMA ReconcileWorks ==
    ASSUME IInv, WorkRight, Reconcile PROVE WorkRight'
<1>1. line # << >> /\ Head(line) = None /\ UNCHANGED <<clock, calls>>
  BY DEF Reconcile
<1>2. CallsWork'
  <2>1. \A d \in Slot : ~Holds(d)
    BY <1>1, NoneAssumption DEF Holds
  <2> QED
    BY <1>1, <2>1, NoCallMoves
<1>3. clock' \in Nat /\ clock <= clock'
  BY <1>1 DEF WorkRight
<1>4. CASE index' = index
  <2>1. RunsWork'
    BY <1>3, <1>4, TimeGoesOn DEF IInv
  <2> QED
    BY <1>2, <1>3, <2>1 DEF WorkRight
<1>5. CASE index' # index
  <2> DEFINE a == index.active
             run == index.runs[a]
             n == [run EXCEPT !.status = "interrupted", !.revision = @ + 1]
  <2>1. /\ Accepted(index) /\ a # 0
        /\ index' = [index EXCEPT !.runs[a] = n]
    BY <1>5 DEF Reconcile, ResumedForSession
  <2>2. a \in 1..Len(index.runs)
    BY <2>1 DEF Accepted
  <2>3. Worked(run, clock) /\ RunShape(run) /\ clock \in Nat
    BY <2>2 DEF WorkRight, RunsWork, Run, IInv, RunsRight
  <2>4. /\ RunShape(n) /\ n.steps = run.steps /\ n.submissions = run.submissions
        /\ n.status = "interrupted"
    <3> HIDE DEF run
    <3> DEFINE m == [run EXCEPT !.status = "interrupted"]
    <3>1. n = [m EXCEPT !.revision = @ + 1]
      OBVIOUS
    <3>2. /\ RunShape(m) /\ m.steps = run.steps /\ m.submissions = run.submissions
          /\ m.status = "interrupted"
      BY <2>3 DEF RunShape
    <3> HIDE DEF m, n
    <3> QED
      BY <3>1, <3>2 DEF RunShape
  <2> HIDE DEF n
  <2>5. Worked(n, clock)
    <3> HIDE DEF run
    <3> QED
      BY <2>3, <2>4, SameWork
  <2>6. index'.runs = Changed(index.runs, a, n)
    BY <2>1 DEF IInv, RunsRight, Changed
  <2>7. /\ Len(index'.runs) = Len(index.runs) /\ index'.runs[a] = n
        /\ \A r \in 1..Len(index.runs) : r # a => index'.runs[r] = index.runs[r]
    BY <2>2, <2>6, ChangeIsSeq DEF IInv, RunsRight
  <2>8. \A r \in 1..Len(index.runs) : Worked(index'.runs[r], clock)
    BY <2>5, <2>7 DEF WorkRight, RunsWork, Run
  <2>9. RunsWork'
    BY <1>1, <2>7, <2>8 DEF RunsWork, Run
  <2> QED
    BY <1>2, <1>3, <2>9 DEF WorkRight
<1> QED
  BY <1>4, <1>5

LEMMA CallWorks ==
    ASSUME IInv, WorkRight, NEW c \in Slot, Call(c) PROVE WorkRight'
<1> DEFINE k == [parent |-> message.parent, seen |-> message.seen, at |-> clock',
                 epoch |-> epoch, ask |-> None, stage |-> "asking"]
<1>1. calls' = [calls EXCEPT ![c] = k] /\ clock' = clock + 2 /\ UNCHANGED <<index, line>>
  BY DEF Call
<1>2. clock' \in Nat /\ clock <= clock' /\ clock \in Nat
  BY <1>1 DEF WorkRight
<1>3. k.at \in Nat /\ k.at <= clock' /\ k.stage # "saving"
  BY <1>2
<1> HIDE DEF k
<1>4. CallsWork'
  <2>1. \A d \in Slot : Holds(d) => Holds(d)'
    BY <1>1 DEF Holds
  <2> QED
    BY <1>1, <1>2, <1>3, <2>1, OneCallMoves
<1>5. RunsWork'
  BY <1>1, <1>2, TimeGoesOn DEF IInv
<1> QED
  BY <1>2, <1>4, <1>5 DEF WorkRight

LEMMA GrantedWorks ==
    ASSUME IInv, WorkRight, NEW c \in Slot, Granted(c) PROVE WorkRight'
<1> DEFINE k == [calls[c] EXCEPT !.stage = "waiting"]
<1>1. /\ calls[c] # None /\ calls' = [calls EXCEPT ![c] = k] /\ line' = Append(line, c)
      /\ UNCHANGED <<index, clock>>
  <2>1. calls' = [calls EXCEPT ![c] = k]
    BY DEF Granted, IInv, CallsRight
  <2> QED
    BY <2>1 DEF Granted
<1>2. clock' \in Nat /\ clock <= clock'
  BY <1>1 DEF WorkRight
<1>3. k.at = calls[c].at /\ k.stage = "waiting" /\ k.at \in Nat /\ k.at <= clock'
  <2>1. CallShape(calls[c]) /\ calls[c].at \in Nat /\ calls[c].at <= clock
    BY <1>1 DEF IInv, CallsRight, WorkRight, CallsWork
  <2> QED
    BY <1>1, <2>1 DEF CallShape
<1> HIDE DEF k
<1>4. CallsWork'
  <2>1. \A d \in Slot : Holds(d) => Holds(d)'
    BY <1>1, HeadStays
  <2> QED
    BY <1>1, <1>2, <1>3, <2>1, OneCallMoves
<1>5. RunsWork'
  BY <1>1, <1>2, TimeGoesOn DEF IInv
<1> QED
  BY <1>2, <1>4, <1>5 DEF WorkRight

\* What a call may ask for has all its parts.
LEMMA RequestParts ==
    ASSUME NEW q \in Request, NEW v
    PROVE  LET a == [q EXCEPT !.verified = v] IN
           /\ a.action = q.action /\ a.run = q.run /\ a.step = q.step /\ a.attempt = q.attempt
           /\ a.action \in {"begin", "report"} => a.step \in Step
<1> DEFINE a(k) == [k EXCEPT !.verified = v]
           Right(k) == /\ a(k).action = k.action /\ a(k).run = k.run /\ a(k).step = k.step
                       /\ a(k).attempt = k.attempt
                       /\ a(k).action \in {"begin", "report"} => a(k).step \in Step
<1>1. \A x, r, w, s : s \in Step \/ x \notin {"begin", "report"} => Right(Ask(x, r, w, s))
  BY DEF Ask
<1>2. \A r, w, n, m, e, f : \A s \in Step : Right(Report(r, w, s, n, m, e, f))
  BY DEF Report
<1>3. CASE q = Ask("start", 0, 0, None)
  <2>1. Right(Ask("start", 0, 0, None))
    BY <1>1
  <2> QED
    BY <1>3, <2>1
<1>4. ASSUME NEW r \in Run, q \in AskOf(r) PROVE Right(q)
  <2> HIDE DEF Right
  <2>1. \/ \E x \in {"resume", "pause", "stop"} : \E w : q = Ask(x, r, w, None)
        \/ \E w : \E s \in Step : q = Ask("begin", r, w, s)
        \/ \E w, n, m, e, f : \E s \in Step : q = Report(r, w, s, n, m, e, f)
    BY <1>4 DEF AskOf
  <2> QED
    BY <1>1, <1>2, <2>1
<1> QED
  BY <1>3, <1>4 DEF Request

LEMMA CheckWorks ==
    ASSUME IInv, WorkRight, NEW c \in Slot, Check(c) PROVE WorkRight'
<1>1. Holds(c) /\ calls[c] # None /\ calls[c].stage = "waiting" /\ UNCHANGED <<index, clock>>
  BY DEF Check
<1>2. clock' \in Nat /\ clock <= clock'
  BY <1>1 DEF WorkRight
<1>3. RunsWork'
  BY <1>1, <1>2, TimeGoesOn DEF IInv
<1>4. CASE calls' = [calls EXCEPT ![c] = None]
  <2>1. \A d \in Slot : d # c => ~Holds(d)
    BY <1>1 DEF Holds
  <2>2. CallsWork'
    BY <1>2, <1>4, <2>1, OneCallMoves
  <2> QED
    BY <1>2, <1>3, <2>2 DEF WorkRight
<1>5. ASSUME NEW q \in Request, UNCHANGED line, Passes(calls[c], q),
             calls' = [calls EXCEPT ![c].stage = "saving",
                          ![c].ask = [q EXCEPT !.verified = Evidenced(calls[c], q)]]
      PROVE  WorkRight'
  <2> DEFINE a == [q EXCEPT !.verified = Evidenced(calls[c], q)]
             k1 == [calls[c] EXCEPT !.stage = "saving"]
             k == [k1 EXCEPT !.ask = a]
  <2>1. /\ a.action = q.action /\ a.run = q.run /\ a.step = q.step /\ a.attempt = q.attempt
        /\ a.action \in {"begin", "report"} => a.step \in Step
    BY RequestParts
  <2> HIDE DEF a
  <2>2. calls' = [calls EXCEPT ![c] = k]
    BY <1>5 DEF IInv, CallsRight, a
  <2>3. CallShape(calls[c]) /\ calls[c].at \in Nat /\ calls[c].at <= clock
    BY <1>1 DEF IInv, CallsRight, WorkRight, CallsWork
  <2>4. CallShape(k1) /\ k1.parent = calls[c].parent /\ k1.at = calls[c].at
    BY <2>3 DEF CallShape
  <2> HIDE DEF k1
  <2>5. k.ask = a /\ k.parent = calls[c].parent /\ k.at = calls[c].at
    BY <2>4 DEF CallShape
  <2> HIDE DEF k
  <2>6. Prepared(k, index)
    <3> DEFINE run == index.runs[q.run]
    <3> SUFFICES ASSUME a.action \in {"begin", "report"}, ~OtherTurn(run, k, a)
                 PROVE  /\ a.step \in Step
                        /\ a.action = "begin" => a.step \in Ready(run)
                        /\ a.action = "report" => /\ StatusOf(run, a.step) = "active"
                                                  /\ run.steps[a.step].attempt = a.attempt
                                                  /\ run.steps[a.step].named < k.at
      BY <2>1, <2>5 DEF Prepared
    <3>1. ~OtherTurn(run, calls[c], q)
      BY <2>1, <2>5 DEF OtherTurn
    <3>2. Fitting(run, calls[c], q)
      BY <1>5, <2>1, <3>1 DEF Passes
    <3> QED
      BY <2>1, <2>5, <3>2 DEF Fitting
  <2>7. CallsWork'
    <3>1. \A d \in Slot : Holds(d) => Holds(d)' /\ index' = index
      BY <1>1, <1>5 DEF Holds
    <3>2. k.at \in Nat /\ k.at <= clock' /\ Holds(c)' /\ Prepared(k, index')
      BY <1>1, <2>3, <2>5, <2>6, <3>1
    <3> QED
      BY <1>2, <2>2, <3>1, <3>2, OneCallMoves
  <2> QED
    BY <1>2, <1>3, <2>7 DEF WorkRight
<1> QED
  BY <1>4, <1>5 DEF Check

LEMMA SaveWorks ==
    ASSUME IInv, WorkRight, NEW c \in Slot, Save(c) PROVE WorkRight'
<1> DEFINE k == calls[c]
           q == k.ask
<1>1. /\ Holds(c) /\ k # None /\ k.stage = "saving" /\ clock' = clock
      /\ calls' = [calls EXCEPT ![c] = None]
  BY DEF Save
<1>2. clock' \in Nat /\ clock <= clock' /\ clock \in Nat
  BY <1>1 DEF WorkRight
<1>3. CallsWork'
  <2>1. \A d \in Slot : d # c => ~Holds(d)
    BY <1>1 DEF Holds
  <2> QED
    BY <1>1, <1>2, <2>1, OneCallMoves
<1>4. CASE UNCHANGED index
  <2>1. RunsWork'
    BY <1>2, <1>4, TimeGoesOn DEF IInv
  <2> QED
    BY <1>2, <1>3, <2>1 DEF WorkRight
<1>5. CASE ReportHolds(k, q) /\ index' = Saved(k, q)
  <2>1. Asks(q, Len(index.runs)) /\ k.at \in Nat /\ k.at <= clock /\ Prepared(k, index)
    BY <1>1 DEF IInv, CallsRight, WorkRight, CallsWork
  <2> HIDE DEF k, q
  <2>2. IsSeq(index.runs) /\ Len(index.runs) \in Nat
        /\ \A r \in 1..Len(index.runs) : Worked(index.runs[r], clock)
    BY IsSeqFacts DEF IInv, RunsRight, WorkRight, RunsWork, Run
  <2>3. CASE q.action = "start"
    <3> DEFINE n == NewProcess(k.parent)
    <3>1. index'.runs = Append(index.runs, n)
      BY <1>5, <2>3 DEF Saved
    <3>2. Worked(n, clock)
      <4>1. /\ n.steps = [s \in Step |-> None] /\ n.submissions = << >>
            /\ n.status = "running" /\ RunShape(n)
        BY DEF NewProcess, RunShape
      <4> HIDE DEF n
      <4>2. \A s \in Step : ~Passed(n, s) /\ n.steps[s] = None
        BY <4>1 DEF Passed, StatusOf
      <4>3. Reports(n, clock)
        BY <4>1, EmptySeq DEF Reports, IsSeq
      <4> QED
        BY <4>1, <4>2, <4>3 DEF Worked, Attempts
    <3> HIDE DEF n
    <3>3. \A r \in 1..Len(index'.runs) : Worked(index'.runs[r], clock)
      BY <2>2, <3>1, <3>2, AppendIsSeq
    <3>4. RunsWork'
      BY <1>1, <3>3 DEF RunsWork, Run
    <3> QED
      BY <1>2, <1>3, <3>4 DEF WorkRight
  <2>4. CASE q.action # "start"
    <3> DEFINE run == index.runs[q.run]
               n == Moved(run, k, q)
    <3>1. q.action \in Action \ {"start"} /\ q.run \in 1..Len(index.runs)
      BY <2>1, <2>4 DEF Asks
    <3>2. /\ index'.runs = Changed(index.runs, q.run, n)
          /\ Saved(k, q).runs = Changed(index.runs, q.run, n)
      BY <1>5, <2>4 DEF Saved, Changed
    <3>3. Saved(k, q).runs[q.run] = n
      <4> HIDE DEF n
      <4> QED
        BY <2>2, <3>1, <3>2, ChangeIsSeq
    <3>4. q.action = "report" /\ ~OtherTurn(run, k, q) => Checkpoint(n) /\ Provenance(n)
      <4> HIDE DEF n
      <4> QED
        BY <1>5, <3>3 DEF ReportHolds
    <3>5. q.action \in {"begin", "report"} /\ ~OtherTurn(run, k, q) =>
              /\ q.step \in Step
              /\ q.action = "begin" => q.step \in Ready(run)
              /\ q.action = "report" => /\ StatusOf(run, q.step) = "active"
                                        /\ run.steps[q.step].attempt = q.attempt
                                        /\ run.steps[q.step].named < k.at
      BY <2>1 DEF Prepared, q
    <3>6. Worked(n, clock)
      <4>1. Worked(run, clock)
        BY <2>2, <3>1
      <4> HIDE DEF run
      <4> QED
        BY <1>2, <2>1, <3>1, <3>4, <3>5, <4>1, MovedWork
    <3> HIDE DEF n
    <3>7. \A r \in 1..Len(index'.runs) : Worked(index'.runs[r], clock)
      BY <2>2, <3>1, <3>2, <3>6, ChangeIsSeq
    <3>8. RunsWork'
      BY <1>1, <3>7 DEF RunsWork, Run
    <3> QED
      BY <1>2, <1>3, <3>8 DEF WorkRight
  <2> QED
    BY <2>3, <2>4
<1> QED
  BY <1>4, <1>5 DEF Save

LEMMA NextWorks ==
    ASSUME IInv, WorkRight, [Next]_vars PROVE WorkRight'
<1>1. CASE UNCHANGED vars
  <2>1. UNCHANGED <<index, calls, clock, line>>
    BY <1>1 DEF vars
  <2>2. clock' \in Nat /\ clock <= clock' /\ index' = index
    BY <2>1 DEF WorkRight
  <2>3. \A d \in Slot : Holds(d) => Holds(d)'
    BY <2>1 DEF Holds
  <2>4. CallsWork'
    BY <2>1, <2>3, NoCallMoves
  <2>5. RunsWork'
    BY <2>2, TimeGoesOn DEF IInv
  <2> QED
    BY <2>2, <2>4, <2>5 DEF WorkRight
<1>2. CASE Agent \/ User
  BY <1>2, SurroundingsWork, ReconcileWorks DEF User
<1>3. ASSUME NEW c \in Slot, Call(c) \/ Granted(c) \/ Check(c) \/ Save(c)
      PROVE  WorkRight'
  BY <1>3, CallWorks, GrantedWorks, CheckWorks, SaveWorks
<1> QED
  BY <1>1, <1>2, <1>3 DEF Next

-----------------------------------------------------------------------------
(* The theorems. *)

\* What is checked of a run when a report is saved holds of every run all the
\* time (assertProcess, #provenance; the lock of withWorkflowRunLock).
THEOREM StepsAreEarned == Spec => []WorkRight
<1>1. IInv /\ WorkRight /\ [Next]_vars => WorkRight'
  BY NextWorks
<1> QED
  BY <1>1, InitWorks, Invariance, PTL DEF Spec

\* A passed step stands on evidence that lies between its begin and its report,
\* meets its gate with the task its dependency created, and was reported after
\* what it depends on (assertProcess, #provenance, verifyEvidence).
THEOREM PassesInOrder == Spec => []PassedInOrder
<1>1. ASSUME WorkRight, NEW r \in Run
      PROVE  LET run == index.runs[r] IN
             /\ \A s \in Step : Passed(run, s) =>
                \A n \in DecidedBy(run, s) :
                   /\ \A e \in run.steps[s].evidence :
                         run.steps[s].begun < e.at /\ e.at < run.submissions[n].at
                   /\ \A q \in Gate[s] : \E e \in run.steps[s].evidence :
                         /\ e.kind = q.kind
                         /\ q.from # None => \E d \in run.steps[q.from].evidence :
                                                d.kind = "task-created" /\ d.task = e.task
                   /\ \A d \in DependsOn[s] :
                         /\ Passed(run, d)
                         /\ \A m \in DecidedBy(run, d) :
                               run.submissions[m].at < run.submissions[n].at
             /\ run.status = "completed" => \A s \in Step : Passed(run, s)
  <2> DEFINE run == index.runs[r]
  <2>1. Worked(run, clock)
    BY <1>1 DEF WorkRight, RunsWork
  <2> HIDE DEF run
  <2>2. ASSUME NEW s \in Step, Passed(run, s), NEW n \in DecidedBy(run, s)
        PROVE  /\ \A e \in run.steps[s].evidence :
                     run.steps[s].begun < e.at /\ e.at < run.submissions[n].at
               /\ \A q \in Gate[s] : \E e \in run.steps[s].evidence :
                     /\ e.kind = q.kind
                     /\ q.from # None => \E d \in run.steps[q.from].evidence :
                                            d.kind = "task-created" /\ d.task = e.task
               /\ \A d \in DependsOn[s] :
                     /\ Passed(run, d)
                     /\ \A m \in DecidedBy(run, d) :
                           run.submissions[m].at < run.submissions[n].at
    <3>1. Earned(run, s) /\ Attempts(run) /\ Reports(run, clock)
      BY <2>1, <2>2 DEF Worked
    <3>2. \A q \in Gate[s] : \E e \in run.steps[s].evidence :
             /\ e.kind = q.kind
             /\ q.from # None => \E d \in run.steps[q.from].evidence :
                                    d.kind = "task-created" /\ d.task = e.task
      <4>1. \A t, x : CreatedBy(run, t) = {x} =>
               \E d \in run.steps[t].evidence : d.kind = "task-created" /\ d.task = x
        BY DEF CreatedBy
      <4> SUFFICES ASSUME NEW q \in Gate[s]
                   PROVE  \E e \in run.steps[s].evidence :
                             /\ e.kind = q.kind
                             /\ q.from # None => \E d \in run.steps[q.from].evidence :
                                                    d.kind = "task-created" /\ d.task = e.task
        OBVIOUS
      <4>2. PICK e \in run.steps[s].evidence :
               e.kind = q.kind /\ (q.from # None => CreatedBy(run, q.from) = {e.task})
        BY <3>1 DEF Earned, Met
      <4>3. q.from # None => \E d \in run.steps[q.from].evidence :
                                d.kind = "task-created" /\ d.task = e.task
        BY <4>1, <4>2
      <4> QED
        BY <4>2, <4>3
    <3>3. run.steps[s] # None
      BY <2>2 DEF Passed, StatusOf
    <3>4. ASSUME NEW d \in DependsOn[s], NEW m \in DecidedBy(run, d)
          PROVE  run.submissions[m].at < run.submissions[n].at
      <4>1. run.submissions[m].at <= run.steps[s].named /\ run.steps[s].named \in Nat
        BY <3>1, <3>3 DEF Attempts
      <4>2. run.steps[s].named < run.submissions[n].at
        BY <3>1, <2>2 DEF Earned
      <4>3. run.submissions[m].at \in Nat /\ run.submissions[n].at \in Nat
        BY <3>1, <2>2, <3>4 DEF DecidedBy, Reports
      <4> QED
        BY <4>1, <4>2, <4>3
    <3>5. \A d \in DependsOn[s] : Passed(run, d)
      BY <3>1, <3>3 DEF Attempts
    <3> QED
      BY <3>1, <3>2, <3>4, <3>5, <2>2 DEF Earned
  <2>3. run.status = "completed" => \A s \in Step : Passed(run, s)
    BY <2>1 DEF Worked
  <2> QED
    BY <2>2, <2>3 DEF run
<1>2. WorkRight => PassedInOrder
  BY <1>1 DEF PassedInOrder
<1> QED
  BY <1>2, StepsAreEarned, PTL
=============================================================================
