------------------------- MODULE CommandTaskProofs -------------------------
(***************************************************************************)
(* Theorems about CommandTask, for any number of commands, of slots, of    *)
(* calls and of faults: what the ledger calls safe is over, a command that *)
(* may run keeps its slot, no command is started twice, and a disposal     *)
(* that succeeded leaves nothing open.  The last part is about the         *)
(* executions behind its port, CommandExecution.                           *)
(***************************************************************************)
EXTENDS CommandTask, CommandExecution, SequenceTheorems, WellFoundedInduction, TLAPS

-----------------------------------------------------------------------------
(* The inductive invariant.  It is stated of a state s that a job works on and of
   the world e around it, so that what holds of Now carries over to what the
   operators make of it. *)

Status == {"queued"} \cup Claimed \cup Safe
Flag == {"launch", "dispatching", "aborted", "handle", "attached", "notified",
         "disposePending", "disposeFailed"}
Place == {None, "queued", "active"}

World == [proc |-> proc, view |-> view, started |-> started, woken |-> woken, closed |-> closed,
          drained |-> closed /\ stopper["dispose"].pc # "stop",
          recovering |-> stopper["dispose"].pc = "recover"]

Typed(s) ==
    /\ s = [ledger |-> s.ledger, mem |-> s.mem, ahead |-> s.ahead, pending |-> s.pending,
            slot |-> s.slot, flag |-> s.flag, lane |-> s.lane, quarantine |-> s.quarantine]
    /\ s.ledger \in [Command -> Status \cup {None}]
    /\ s.mem \in [Command -> Status \cup {None}]
    /\ s.ahead \in [Command -> Nat]
    /\ s.pending \in [Command -> Status \cup {None}]
    /\ s.slot \in [Command -> Place]
    /\ s.flag \in [Command -> SUBSET Flag]

\* What the runtime knows of a command is what the ledger says, or older.
Row(s, c) ==
    /\ s.mem[c] # None => s.ledger[c] # None
    /\ s.mem[c] # None /\ s.ahead[c] = 0 => s.ledger[c] = s.mem[c]
    /\ s.mem[c] \in Safe => s.ledger[c] \in Safe
    /\ s.mem[c] \in Claimed => s.ledger[c] \notin {None, "queued"}
    /\ s.mem[c] \in Claimed => s.slot[c] = "active"
    /\ "attached" \in s.flag[c] => s.mem[c] \notin {None, "queued"}
    /\ "launch" \in s.flag[c] => s.mem[c] \in {"queued"} \cup Safe /\ s.ledger[c] \notin Claimed

\* What the ledger says of a command is true of its execution.
Truth(s, e, c) ==
    /\ s.ledger[c] \in {None, "queued"} => c \notin e.started
    /\ s.mem[c] = "queued" => c \notin e.started
    /\ s.ledger[c] \in Safe => e.proc[c] # "alive" /\ e.view[c] # "running"
    /\ c \in e.woken => s.mem[c] # None
    /\ c \in e.woken /\ "launch" \in s.flag[c] => s.slot[c] = "active"

\* A command that waits for its dispatch was never started and has a slot.
Waiting(s, c) ==
    /\ "dispatching" \in s.flag[c]
    /\ s.mem[c] \in {"queued"} \cup Safe /\ s.ledger[c] \notin Claimed
    /\ s.mem[c] = "queued" => s.slot[c] = "active"

JobShape(j) ==
    /\ j = [kind |-> j.kind, cmd |-> j.cmd, pc |-> j.pc, force |-> j.force, by |-> j.by,
            todo |-> j.todo]
    /\ j.todo \subseteq Command

JobRight(s, j) ==
    /\ JobShape(j)
    /\ j.kind = "start" => j.cmd \in Command /\ j.by = None
    /\ j.kind = "settle" =>
          j.cmd \in Command /\ s.mem[j.cmd] \notin {None, "queued"} /\ j.by \in Stopper \cup {None}
    /\ j.kind = "cancel" => j.todo # {} /\ j.by \in Stopper /\ \A c \in j.todo : s.mem[c] # None
    /\ j.kind = "recover" => j.by \in Stopper /\ j.pc \in {"first", "each"}
    /\ j.kind = "dispatch" => (j.pc = "first" => j.todo # {}) /\ \A c \in j.todo : Waiting(s, c)

IsSeq(q) == q \in Seq({q[i] : i \in DOMAIN q})

Dispatches(q, i, c) == q[i].kind = "dispatch" /\ c \in q[i].todo

LaneRight(s) ==
    /\ IsSeq(s.lane)
    /\ \A i \in 1..Len(s.lane) : JobRight(s, s.lane[i])
    /\ \A i \in 1..Len(s.lane) : i # 1 => s.lane[i].pc = "first"
    /\ \A i, k \in 1..Len(s.lane) : \A c \in Command :
          Dispatches(s.lane, i, c) /\ Dispatches(s.lane, k, c) => i = k

Spared(q, c) == \A i \in 1..Len(q) : ~Dispatches(q, i, c)

\* The job at the head, between two of its awaits.
HeadRight(s, e, j) ==
    /\ j.pc = "each" => /\ j.kind \in {"start", "recover"}
                        /\ \A c \in Command : s.ledger[c] # None => s.mem[c] # None
                        /\ \A c \in j.todo : s.mem[c] # None
    /\ j.pc = "enqueue" =>
          /\ s.mem[j.cmd] = "queued" /\ s.ledger[j.cmd] \notin Claimed
          /\ "launch" \notin s.flag[j.cmd] /\ j.cmd \notin e.woken
          /\ j.kind = "start" /\ Spared(s.lane, j.cmd)
    /\ j.pc \in {"authorize", "submit"} =>
          /\ j.cmd \in Command
          /\ "dispatching" \in s.flag[j.cmd] /\ "launch" \notin s.flag[j.cmd]
          /\ j.cmd \notin e.started
          /\ j.kind = "dispatch" /\ Spared(s.lane, j.cmd)
    /\ j.pc = "authorize" =>
          s.mem[j.cmd] = "queued" /\ s.slot[j.cmd] = "active" /\ s.ledger[j.cmd] \notin Claimed
    /\ j.pc = "submit" => s.mem[j.cmd] = "running" /\ s.ledger[j.cmd] \in Claimed

\* A closed runtime launches nothing, and a resumed one nothing from before.
Fence(s, e) ==
    /\ e.closed => \A c \in Command : "launch" \notin s.flag[c]
    /\ e.drained => \A i \in 1..Len(s.lane) : s.lane[i].kind # "start"
    /\ \A i \in 1..Len(s.lane) : s.lane[i].kind = "recover" /\ s.lane[i].by = "resume" =>
          /\ \A k \in 1..i : s.lane[k].kind # "start"
          /\ \A c \in Command : "launch" \notin s.flag[c]

OfDispose(j) == j.kind = "recover" /\ j.by = "dispose"

\* A disposal has one recovery under way.
Single(s, e) ==
    \A i \in 1..Len(s.lane) : OfDispose(s.lane[i]) =>
        e.recovering /\ \A k \in 1..Len(s.lane) : OfDispose(s.lane[k]) => k = i

Good(s, e) ==
    /\ Typed(s)
    /\ \A c \in Command : Row(s, c) /\ Truth(s, e, c)
    /\ LaneRight(s)
    /\ s.lane # <<>> => HeadRight(s, e, s.lane[1])
    /\ Fence(s, e) /\ Single(s, e)

\* A process and a handle are of a command that was started.
WorldRight ==
    /\ proc \in [Command -> {"none", "alive", "gone"}]
    /\ view \in [Command -> View \cup {"absent"}]
    /\ \A c \in Command :
          /\ c \notin started => proc[c] = "none" /\ view[c] = "absent"
          /\ view[c] = "stopped" => proc[c] # "alive"

CallShape(k) ==
    /\ k = [pc |-> k.pc, late |-> k.late, first |-> k.first, stage |-> k.stage]
    /\ k.first = [c \in Command |-> k.first[c]]
    /\ k.stage = [c \in Command |-> k.stage[c]]

\* A call that waits for a handle knows its command.
StopperRight ==
    /\ stopper = [d \in Stopper |-> stopper[d]]
    /\ \A d \in Stopper : CallShape(stopper[d])
    /\ stopper["resume"].pc # "stop"
    /\ \A d \in Stopper : \A c \in Command :
          /\ stopper[d].stage[c] = "stop" => mem[c] # None
          /\ stopper[d].stage[c] = "await" => mem[c] \notin {None, "queued"}

\* A disposal knows every row once it cancels.
DisposalRight ==
    /\ stopper["dispose"].pc # "idle" => closed
    /\ stopper["dispose"].pc = "cancel" =>
          \A c \in Command :
             /\ ledger[c] # None => mem[c] # None
             /\ mem[c] = "queued" => stopper["dispose"].stage[c] \in {"job", "failed"}
    /\ disposed => closed /\ \A c \in Command : ledger[c] \in {None} \cup Safe

IInv == Good(Now, World) /\ WorldRight /\ StopperRight /\ DisposalRight

-----------------------------------------------------------------------------
(* Numbers and sequences. *)

LEMMA MinimalOf ==
    ASSUME NEW R, IsWellFoundedOn(R, Nat), NEW S \in SUBSET Nat, S # {}
    PROVE  \E x \in S : \A y \in S : ~ (<<y, x>> \in R)
  BY WFMin

LEMMA LeastOf ==
    ASSUME NEW R, IsWellFoundedOn(R, Nat), \A x, y \in Nat : x < y => <<x, y>> \in R,
           NEW S \in SUBSET Nat, S # {}
    PROVE  \E c \in S : \A d \in S : c <= d
<1>1. S \subseteq Nat
  OBVIOUS
<1>2. \E x \in S : \A y \in S : ~ (<<y, x>> \in R)
  BY MinimalOf
<1>3. PICK x \in S : \A y \in S : ~ (<<y, x>> \in R)
  BY <1>2
<1>4. ASSUME NEW y \in S PROVE x <= y
  <2>1. x \in Nat /\ y \in Nat
    BY <1>1
  <2>2. ~ (y < x)
    BY <1>3, <2>1
  <2> QED
    BY <2>1, <2>2
<1> QED
  BY <1>4

LEMMA CommandsAreNumbers ==
    Command \subseteq Nat
  BY DEF Command

\* First is there when there is something to choose from.
LEMMA FirstIsThere ==
    ASSUME NEW S \in SUBSET Command, S # {}
    PROVE  First(S) \in S
<1>1. \A x, y \in Nat : x < y => <<x, y>> \in OpToRel(<, Nat)
  BY DEF OpToRel
<1>2. IsWellFoundedOn(OpToRel(<, Nat), Nat)
  BY NatLessThanWellFounded
<1>3. S \in SUBSET Nat
  BY CommandsAreNumbers
<1>4. \E c \in S : \A d \in S : c <= d
  BY <1>1, <1>2, <1>3, LeastOf
<1> QED
  BY <1>4 DEF First

LEMMA IsSeqFacts ==
    ASSUME NEW q, IsSeq(q)
    PROVE  Len(q) \in Nat /\ DOMAIN q = 1..Len(q)
  BY DEF IsSeq

LEMMA IsSeqIntro ==
    ASSUME NEW S, NEW q \in Seq(S)
    PROVE  IsSeq(q)
  BY DEF IsSeq

LEMMA AppendIsSeq ==
    ASSUME NEW q, IsSeq(q), NEW x
    PROVE  /\ IsSeq(Append(q, x)) /\ Append(q, x) # <<>>
           /\ Len(Append(q, x)) = Len(q) + 1
           /\ \A i \in 1..Len(q) : Append(q, x)[i] = q[i]
           /\ Append(q, x)[Len(q) + 1] = x
<1> DEFINE S == {q[i] : i \in DOMAIN q} \cup {x}
<1>1. q \in Seq(S) /\ x \in S
  BY SeqMonotonic DEF IsSeq
<1> HIDE DEF S
<1>2. /\ Append(q, x) \in Seq(S) /\ Append(q, x) # <<>>
      /\ Len(Append(q, x)) = Len(q) + 1
      /\ \A i \in 1..Len(q) : Append(q, x)[i] = q[i]
      /\ Append(q, x)[Len(q) + 1] = x
  BY <1>1, AppendProperties
<1>3. IsSeq(Append(q, x))
  BY <1>2, IsSeqIntro
<1> QED
  BY <1>2, <1>3

LEMMA TailIsSeq ==
    ASSUME NEW q, IsSeq(q), q # <<>>
    PROVE  /\ IsSeq(Tail(q)) /\ Len(q) \in Nat \ {0}
           /\ Len(Tail(q)) = Len(q) - 1
           /\ \A i \in 1..Len(Tail(q)) : Tail(q)[i] = q[i + 1]
<1> DEFINE S == {q[i] : i \in DOMAIN q}
<1>1. q \in Seq(S)
  BY DEF IsSeq
<1> HIDE DEF S
<1>2. /\ Tail(q) \in Seq(S) /\ Len(Tail(q)) = Len(q) - 1 /\ Len(q) \in Nat \ {0}
      /\ \A i \in 1..Len(Tail(q)) : Tail(q)[i] = q[i + 1]
  BY <1>1
<1> QED
  BY <1>2, IsSeqIntro

LEMMA FrontIsSeq ==
    ASSUME NEW q, IsSeq(q), q # <<>>, NEW x
    PROVE  LET r == [q EXCEPT ![1] = x] IN
           /\ IsSeq(r) /\ r # <<>> /\ Len(r) = Len(q) /\ Len(q) \in Nat \ {0}
           /\ r[1] = x /\ \A i \in 1..Len(q) : i # 1 => r[i] = q[i]
<1> DEFINE r == [q EXCEPT ![1] = x]
<1> DEFINE S == {q[i] : i \in DOMAIN q} \cup {x}
<1>1. q \in Seq(S) /\ x \in S
  BY SeqMonotonic DEF IsSeq
<1> HIDE DEF S
<1>2. Len(q) \in Nat \ {0}
  BY <1>1
<1>3. /\ r \in Seq(S) /\ Len(r) = Len(q)
      /\ \A i \in 1..Len(q) : r[i] = IF i = 1 THEN x ELSE q[i]
  BY <1>1, <1>2, ExceptSeq
<1> HIDE DEF r
<1>4. IsSeq(r) /\ r # <<>>
  BY <1>2, <1>3, IsSeqIntro
<1>5. r[1] = x /\ \A i \in 1..Len(q) : i # 1 => r[i] = q[i]
  BY <1>2, <1>3
<1> QED
  BY <1>2, <1>3, <1>4, <1>5 DEF r

-----------------------------------------------------------------------------
(* States: what an assignment to one field leaves. *)

State(l, m, a, p, o, f, q, z) ==
    [ledger |-> l, mem |-> m, ahead |-> a, pending |-> p, slot |-> o, flag |-> f, lane |-> q,
     quarantine |-> z]

LEMMA Assigned ==
    ASSUME NEW s, Typed(s), NEW x
    PROVE  /\ [s EXCEPT !.ledger = x] =
              State(x, s.mem, s.ahead, s.pending, s.slot, s.flag, s.lane, s.quarantine)
           /\ [s EXCEPT !.mem = x] =
              State(s.ledger, x, s.ahead, s.pending, s.slot, s.flag, s.lane, s.quarantine)
           /\ [s EXCEPT !.ahead = x] =
              State(s.ledger, s.mem, x, s.pending, s.slot, s.flag, s.lane, s.quarantine)
           /\ [s EXCEPT !.pending = x] =
              State(s.ledger, s.mem, s.ahead, x, s.slot, s.flag, s.lane, s.quarantine)
           /\ [s EXCEPT !.slot = x] =
              State(s.ledger, s.mem, s.ahead, s.pending, x, s.flag, s.lane, s.quarantine)
           /\ [s EXCEPT !.flag = x] =
              State(s.ledger, s.mem, s.ahead, s.pending, s.slot, x, s.lane, s.quarantine)
           /\ [s EXCEPT !.lane = x] =
              State(s.ledger, s.mem, s.ahead, s.pending, s.slot, s.flag, x, s.quarantine)
           /\ [s EXCEPT !.quarantine = x] =
              State(s.ledger, s.mem, s.ahead, s.pending, s.slot, s.flag, s.lane, x)
  BY DEF Typed, State

\* The same fields but for the one that is named.
LEMMA LedgerSet ==
    ASSUME NEW s, Typed(s), NEW x \in [Command -> Status \cup {None}]
    PROVE  LET t == [s EXCEPT !.ledger = x] IN
           /\ Typed(t) /\ t.ledger = x
           /\ t.mem = s.mem /\ t.ahead = s.ahead /\ t.pending = s.pending
           /\ t.slot = s.slot /\ t.flag = s.flag /\ t.lane = s.lane /\ t.quarantine = s.quarantine
<1>1. [s EXCEPT !.ledger = x] =
              State(x, s.mem, s.ahead, s.pending, s.slot, s.flag, s.lane, s.quarantine)
  BY Assigned
<1> QED
  BY <1>1 DEF State, Typed

LEMMA MemSet ==
    ASSUME NEW s, Typed(s), NEW x \in [Command -> Status \cup {None}]
    PROVE  LET t == [s EXCEPT !.mem = x] IN
           /\ Typed(t) /\ t.mem = x
           /\ t.ledger = s.ledger /\ t.ahead = s.ahead /\ t.pending = s.pending
           /\ t.slot = s.slot /\ t.flag = s.flag /\ t.lane = s.lane /\ t.quarantine = s.quarantine
<1>1. [s EXCEPT !.mem = x] =
              State(s.ledger, x, s.ahead, s.pending, s.slot, s.flag, s.lane, s.quarantine)
  BY Assigned
<1> QED
  BY <1>1 DEF State, Typed

LEMMA AheadSet ==
    ASSUME NEW s, Typed(s), NEW x \in [Command -> Nat]
    PROVE  LET t == [s EXCEPT !.ahead = x] IN
           /\ Typed(t) /\ t.ahead = x
           /\ t.ledger = s.ledger /\ t.mem = s.mem /\ t.pending = s.pending
           /\ t.slot = s.slot /\ t.flag = s.flag /\ t.lane = s.lane /\ t.quarantine = s.quarantine
<1>1. [s EXCEPT !.ahead = x] =
              State(s.ledger, s.mem, x, s.pending, s.slot, s.flag, s.lane, s.quarantine)
  BY Assigned
<1> QED
  BY <1>1 DEF State, Typed

LEMMA PendingSet ==
    ASSUME NEW s, Typed(s), NEW x \in [Command -> Status \cup {None}]
    PROVE  LET t == [s EXCEPT !.pending = x] IN
           /\ Typed(t) /\ t.pending = x
           /\ t.ledger = s.ledger /\ t.mem = s.mem /\ t.ahead = s.ahead
           /\ t.slot = s.slot /\ t.flag = s.flag /\ t.lane = s.lane /\ t.quarantine = s.quarantine
<1>1. [s EXCEPT !.pending = x] =
              State(s.ledger, s.mem, s.ahead, x, s.slot, s.flag, s.lane, s.quarantine)
  BY Assigned
<1> QED
  BY <1>1 DEF State, Typed

LEMMA SlotSet ==
    ASSUME NEW s, Typed(s), NEW x \in [Command -> Place]
    PROVE  LET t == [s EXCEPT !.slot = x] IN
           /\ Typed(t) /\ t.slot = x
           /\ t.ledger = s.ledger /\ t.mem = s.mem /\ t.ahead = s.ahead /\ t.pending = s.pending
           /\ t.flag = s.flag /\ t.lane = s.lane /\ t.quarantine = s.quarantine
<1>1. [s EXCEPT !.slot = x] =
              State(s.ledger, s.mem, s.ahead, s.pending, x, s.flag, s.lane, s.quarantine)
  BY Assigned
<1> QED
  BY <1>1 DEF State, Typed

LEMMA FlagSet ==
    ASSUME NEW s, Typed(s), NEW x \in [Command -> SUBSET Flag]
    PROVE  LET t == [s EXCEPT !.flag = x] IN
           /\ Typed(t) /\ t.flag = x
           /\ t.ledger = s.ledger /\ t.mem = s.mem /\ t.ahead = s.ahead /\ t.pending = s.pending
           /\ t.slot = s.slot /\ t.lane = s.lane /\ t.quarantine = s.quarantine
<1>1. [s EXCEPT !.flag = x] =
              State(s.ledger, s.mem, s.ahead, s.pending, s.slot, x, s.lane, s.quarantine)
  BY Assigned
<1> QED
  BY <1>1 DEF State, Typed

LEMMA LaneSet ==
    ASSUME NEW s, Typed(s), NEW x
    PROVE  LET t == [s EXCEPT !.lane = x] IN
           /\ Typed(t) /\ t.lane = x
           /\ t.ledger = s.ledger /\ t.mem = s.mem /\ t.ahead = s.ahead /\ t.pending = s.pending
           /\ t.slot = s.slot /\ t.flag = s.flag /\ t.quarantine = s.quarantine
<1>1. [s EXCEPT !.lane = x] =
              State(s.ledger, s.mem, s.ahead, s.pending, s.slot, s.flag, x, s.quarantine)
  BY Assigned
<1> QED
  BY <1>1 DEF State, Typed

LEMMA QuarantineSet ==
    ASSUME NEW s, Typed(s), NEW x
    PROVE  LET t == [s EXCEPT !.quarantine = x] IN
           /\ Typed(t) /\ t.quarantine = x
           /\ t.ledger = s.ledger /\ t.mem = s.mem /\ t.ahead = s.ahead /\ t.pending = s.pending
           /\ t.slot = s.slot /\ t.flag = s.flag /\ t.lane = s.lane
<1>1. [s EXCEPT !.quarantine = x] =
              State(s.ledger, s.mem, s.ahead, s.pending, s.slot, s.flag, s.lane, x)
  BY DEF Typed, State
<1> DEFINE t == [s EXCEPT !.quarantine = x]
<1>2. /\ t.quarantine = x
      /\ t.ledger = s.ledger /\ t.mem = s.mem /\ t.ahead = s.ahead /\ t.pending = s.pending
      /\ t.slot = s.slot /\ t.flag = s.flag /\ t.lane = s.lane
      /\ t = State(t.ledger, t.mem, t.ahead, t.pending, t.slot, t.flag, t.lane, t.quarantine)
  BY <1>1 DEF State
<1> HIDE DEF t
<1>3. Typed(t)
  BY <1>2 DEF State, Typed
<1> QED
  BY <1>2, <1>3 DEF t

-----------------------------------------------------------------------------
(* What keeps a state right: a change of the rows, of the flags, of the lane. *)

\* The rows move on, the lane stays.
LEMMA RowsMove ==
    ASSUME NEW s, NEW e, Good(s, e), NEW t, Typed(t), t.lane = s.lane,
           \A c \in Command : Row(t, c) /\ Truth(t, e, c),
           \A c \in Command : "launch" \in t.flag[c] => "launch" \in s.flag[c],
           \A c \in Command : Waiting(s, c) => Waiting(t, c) \/ Spared(s.lane, c),
           \A c \in Command : /\ s.mem[c] # None => t.mem[c] # None
                              /\ s.mem[c] \notin {None, "queued"} => t.mem[c] \notin {None, "queued"},
           s.lane # <<>> => HeadRight(t, e, s.lane[1])
    PROVE  Good(t, e)
<1>1. ASSUME NEW i \in 1..Len(s.lane) PROVE JobRight(t, s.lane[i])
  <2>1. JobRight(s, s.lane[i])
    BY DEF Good, LaneRight
  <2>2. s.lane[i].todo \subseteq Command
    BY <2>1 DEF JobRight, JobShape
  <2>3. s.lane[i].kind = "dispatch" => \A c \in s.lane[i].todo : Waiting(t, c)
    BY <2>1, <2>2 DEF JobRight, Spared, Dispatches
  <2> QED
    BY <2>1, <2>2, <2>3 DEF JobRight
<1>2. LaneRight(t)
  BY <1>1 DEF Good, LaneRight
<1>3. Fence(t, e) /\ Single(t, e)
  BY DEF Good, Fence, Single
<1> QED
  BY <1>2, <1>3 DEF Good

\* Flags come and go, but no launch appears, no dispatch goes, and a handle is
\* only of a command that was submitted.
LEMMA FlagsMove ==
    ASSUME NEW s, NEW e, Good(s, e), NEW F \in [Command -> SUBSET Flag],
           \A c \in Command : "launch" \in F[c] => "launch" \in s.flag[c],
           \A c \in Command : "dispatching" \in s.flag[c] => "dispatching" \in F[c],
           \A c \in Command : "attached" \in F[c] =>
                "attached" \in s.flag[c] \/ s.mem[c] \notin {None, "queued"}
    PROVE  Good([s EXCEPT !.flag = F], e)
<1> DEFINE t == [s EXCEPT !.flag = F]
<1>1. /\ Typed(t) /\ t.flag = F
      /\ t.ledger = s.ledger /\ t.mem = s.mem /\ t.ahead = s.ahead /\ t.pending = s.pending
      /\ t.slot = s.slot /\ t.lane = s.lane /\ t.quarantine = s.quarantine
  BY FlagSet DEF Good
<1> HIDE DEF t
<1>2. \A c \in Command : Row(s, c) /\ Truth(s, e, c)
  BY DEF Good
<1>3. \A c \in Command : Row(t, c) /\ Truth(t, e, c)
  BY <1>1, <1>2 DEF Row, Truth
<1>4. \A c \in Command : Waiting(s, c) => Waiting(t, c)
  BY <1>1 DEF Waiting
<1>5. ASSUME s.lane # <<>> PROVE HeadRight(t, e, s.lane[1])
  <2>1. HeadRight(s, e, s.lane[1])
    BY <1>5 DEF Good
  <2>2. Len(s.lane) \in Nat \ {0}
    BY <1>5, TailIsSeq DEF Good, LaneRight
  <2>3. s.lane[1].kind = "start" => s.lane[1].cmd \in Command
    BY <2>2 DEF Good, LaneRight, JobRight
  <2> QED
    BY <1>1, <2>1, <2>3 DEF HeadRight
<1>6. Good(t, e)
  BY <1>1, <1>3, <1>4, <1>5, RowsMove
<1> QED
  BY <1>6 DEF t

\* A job joins the lane.
Joins(s, e, j) ==
    /\ JobRight(s, j) /\ j.pc = "first"
    /\ j.kind = "dispatch" => \A c \in j.todo : Spared(s.lane, c)
    /\ j.kind = "dispatch" /\ s.lane # <<>> =>
          /\ s.lane[1].pc \in {"enqueue", "authorize", "submit"} => s.lane[1].cmd \notin j.todo
    /\ e.drained => j.kind # "start"
    /\ OfDispose(j) => e.recovering /\ \A k \in 1..Len(s.lane) : ~OfDispose(s.lane[k])
    /\ j.kind = "recover" /\ j.by = "resume" =>
          /\ \A k \in 1..Len(s.lane) : s.lane[k].kind # "start"
          /\ \A c \in Command : "launch" \notin s.flag[c]

LEMMA JobJoins ==
    ASSUME NEW s, NEW e, Good(s, e), NEW j, Joins(s, e, j)
    PROVE  Good([s EXCEPT !.lane = Append(s.lane, j)], e)
<1> DEFINE q == Append(s.lane, j)
           t == [s EXCEPT !.lane = q]
<1>1. /\ Typed(t) /\ t.lane = q
      /\ t.ledger = s.ledger /\ t.mem = s.mem /\ t.ahead = s.ahead /\ t.pending = s.pending
      /\ t.slot = s.slot /\ t.flag = s.flag /\ t.quarantine = s.quarantine
  BY LaneSet DEF Good
<1>2. IsSeq(s.lane) /\ Len(s.lane) \in Nat
  BY IsSeqFacts DEF Good, LaneRight
<1>3. /\ IsSeq(q) /\ q # <<>> /\ Len(q) = Len(s.lane) + 1
      /\ \A i \in 1..Len(s.lane) : q[i] = s.lane[i]
      /\ q[Len(s.lane) + 1] = j
  BY <1>2, AppendIsSeq
<1>n. s.lane # <<>> => Len(s.lane) # 0
  BY <1>2, TailIsSeq
<1>m. s.lane = <<>> => Len(s.lane) = 0
  OBVIOUS
<1> HIDE DEF q, t
<1>4. \A c \in Command : Row(t, c) /\ Truth(t, e, c)
  BY <1>1 DEF Good, Row, Truth
<1>5. \A i \in 1..Len(q) : i \in 1..Len(s.lane) \/ i = Len(s.lane) + 1
  BY <1>2, <1>3
<1>6. \A i \in 1..Len(s.lane) : JobRight(s, s.lane[i])
  BY DEF Good, LaneRight
<1>7. \A i \in 1..Len(q) : JobRight(s, q[i])
  BY <1>3, <1>5, <1>6 DEF Joins
<1>8. \A k : JobRight(s, k) => JobRight(t, k)
  BY <1>1 DEF JobRight, Waiting
<1>9. LaneRight(t)
  <2>1. ASSUME NEW i \in 1..Len(q), i # 1 PROVE q[i].pc = "first"
    BY <1>3, <1>5, <2>1 DEF Good, LaneRight, Joins
  <2>2. ASSUME NEW i \in 1..Len(q), NEW k \in 1..Len(q), NEW c \in Command,
               Dispatches(q, i, c), Dispatches(q, k, c)
        PROVE  i = k
    <3>1. CASE i \in 1..Len(s.lane) /\ k \in 1..Len(s.lane)
      BY <1>3, <2>2, <3>1 DEF Good, LaneRight, Dispatches
    <3>2. CASE i \in 1..Len(s.lane) /\ k = Len(s.lane) + 1
      BY <1>3, <2>2, <3>2 DEF Joins, Dispatches, Spared
    <3>3. CASE k \in 1..Len(s.lane) /\ i = Len(s.lane) + 1
      BY <1>3, <2>2, <3>3 DEF Joins, Dispatches, Spared
    <3> QED
      BY <1>5, <3>1, <3>2, <3>3
  <2> QED
    BY <1>1, <1>3, <1>7, <1>8, <2>1, <2>2 DEF LaneRight
<1>10. HeadRight(t, e, q[1])
  <2>1. CASE s.lane = <<>>
    <3>1. q[1].pc = "first"
      BY <1>m, <1>3, <2>1 DEF Joins
    <3> QED
      BY <3>1 DEF HeadRight
  <2>2. CASE s.lane # <<>>
    <3>1. 1 \in 1..Len(s.lane) /\ q[1] = s.lane[1]
      BY <1>2, <1>3, <1>n, <2>2
    <3>2. HeadRight(s, e, s.lane[1])
      BY <2>2 DEF Good
    <3>3. ASSUME NEW c, Spared(s.lane, c),
                 j.kind = "dispatch" => c \notin j.todo
          PROVE  Spared(q, c)
      BY <1>3, <1>5, <3>3 DEF Spared, Dispatches
    <3>4. s.lane[1].pc \in {"enqueue", "authorize", "submit"} /\ j.kind = "dispatch"
             => s.lane[1].cmd \notin j.todo
      BY <2>2 DEF Joins
    <3> QED
      BY <1>1, <3>1, <3>2, <3>3, <3>4 DEF HeadRight
  <2> QED
    BY <2>1, <2>2
<1>11. Fence(t, e)
  <2>1. e.drained => \A i \in 1..Len(q) : q[i].kind # "start"
    BY <1>3, <1>5 DEF Good, Fence, Joins
  <2>2. ASSUME NEW i \in 1..Len(q), q[i].kind = "recover", q[i].by = "resume"
        PROVE  (\A k \in 1..i : q[k].kind # "start") /\ \A c \in Command : "launch" \notin s.flag[c]
    <3>1. CASE i \in 1..Len(s.lane)
      <4>1. /\ \A k \in 1..i : s.lane[k].kind # "start"
            /\ \A c \in Command : "launch" \notin s.flag[c]
        BY <1>3, <2>2, <3>1 DEF Good, Fence
      <4>2. \A k \in 1..i : k \in 1..Len(s.lane)
        BY <1>2, <3>1
      <4> QED
        BY <1>3, <4>1, <4>2
    <3>2. CASE i = Len(s.lane) + 1
      <4>1. j.kind = "recover" /\ j.by = "resume"
        BY <1>3, <2>2, <3>2
      <4>2. \A k \in 1..i : k \in 1..Len(s.lane) \/ k = i
        BY <1>2, <3>2
      <4> QED
        BY <1>3, <3>2, <4>1, <4>2 DEF Joins
    <3> QED
      BY <1>5, <3>1, <3>2
  <2> QED
    BY <1>1, <2>1, <2>2 DEF Good, Fence
<1>s. Single(t, e)
  <2>1. ASSUME NEW i \in 1..Len(q), OfDispose(q[i]), NEW k \in 1..Len(q), OfDispose(q[k])
        PROVE  e.recovering /\ i = k
    <3>1. CASE i \in 1..Len(s.lane) /\ k \in 1..Len(s.lane)
      BY <1>3, <2>1, <3>1 DEF Good, Single
    <3>2. CASE i = Len(s.lane) + 1 \/ k = Len(s.lane) + 1
      BY <1>3, <1>5, <2>1, <3>2 DEF Joins
    <3> QED
      BY <1>5, <3>1, <3>2
  <2> QED
    BY <1>1, <2>1 DEF Single
<1>12. Good(t, e)
  BY <1>1, <1>4, <1>9, <1>10, <1>11, <1>s DEF Good
<1> QED
  BY <1>12 DEF t, q

\* The job at the head is done.
LEMMA JobLeaves ==
    ASSUME NEW s, NEW e, Good(s, e), s.lane # <<>>
    PROVE  Good([s EXCEPT !.lane = Tail(s.lane)], e)
<1> DEFINE q == Tail(s.lane)
           t == [s EXCEPT !.lane = q]
<1>1. /\ Typed(t) /\ t.lane = q
      /\ t.ledger = s.ledger /\ t.mem = s.mem /\ t.ahead = s.ahead /\ t.pending = s.pending
      /\ t.slot = s.slot /\ t.flag = s.flag /\ t.quarantine = s.quarantine
  BY LaneSet DEF Good
<1>2. /\ IsSeq(q) /\ Len(s.lane) \in Nat \ {0}
      /\ Len(q) = Len(s.lane) - 1
      /\ \A i \in 1..Len(q) : q[i] = s.lane[i + 1]
  BY TailIsSeq DEF Good, LaneRight
<1>3. \A i \in 1..Len(q) : i + 1 \in 1..Len(s.lane) /\ i + 1 # 1
  BY <1>2
<1> HIDE DEF q, t
<1>4. \A c \in Command : Row(t, c) /\ Truth(t, e, c)
  BY <1>1 DEF Good, Row, Truth
<1>5. \A i \in 1..Len(q) : q[i].pc = "first"
  BY <1>2, <1>3 DEF Good, LaneRight
<1>6. \A i \in 1..Len(q) : JobRight(t, q[i])
  BY <1>1, <1>2, <1>3 DEF Good, LaneRight, JobRight, Waiting
<1>7. ASSUME NEW i \in 1..Len(q), NEW k \in 1..Len(q), NEW c \in Command,
             Dispatches(q, i, c), Dispatches(q, k, c)
      PROVE  i = k
  <2>1. Dispatches(s.lane, i + 1, c) /\ Dispatches(s.lane, k + 1, c)
    BY <1>2, <1>7 DEF Dispatches
  <2>2. i + 1 = k + 1
    BY <1>3, <2>1 DEF Good, LaneRight
  <2> QED
    BY <2>2, <1>2
<1>8. LaneRight(t)
  BY <1>1, <1>2, <1>5, <1>6, <1>7 DEF LaneRight
<1>9. q # <<>> => HeadRight(t, e, q[1])
  <2>1. q # <<>> => 1 \in 1..Len(q)
    BY <1>2, TailIsSeq
  <2> QED
    BY <1>5, <2>1 DEF HeadRight
<1>10. Fence(t, e)
  <2>1. e.drained => \A i \in 1..Len(q) : q[i].kind # "start"
    BY <1>2, <1>3 DEF Good, Fence
  <2>2. ASSUME NEW i \in 1..Len(q), q[i].kind = "recover", q[i].by = "resume"
        PROVE  (\A k \in 1..i : q[k].kind # "start") /\ \A c \in Command : "launch" \notin s.flag[c]
    <3>1. s.lane[i + 1].kind = "recover" /\ s.lane[i + 1].by = "resume"
      BY <1>2, <2>2
    <3>2. /\ \A k \in 1..(i + 1) : s.lane[k].kind # "start"
          /\ \A c \in Command : "launch" \notin s.flag[c]
      BY <1>3, <3>1 DEF Good, Fence
    <3>3. \A k \in 1..i : k \in 1..Len(q) /\ k + 1 \in 1..(i + 1)
      BY <1>2
    <3> QED
      BY <1>2, <3>2, <3>3
  <2> QED
    BY <1>1, <2>1, <2>2 DEF Good, Fence
<1>s. Single(t, e)
  <2>1. ASSUME NEW i \in 1..Len(q), OfDispose(q[i]), NEW k \in 1..Len(q), OfDispose(q[k])
        PROVE  e.recovering /\ i = k
    <3>1. e.recovering /\ i + 1 = k + 1
      BY <1>2, <1>3, <2>1 DEF Good, Single
    <3> QED
      BY <1>2, <3>1
  <2> QED
    BY <1>1, <2>1 DEF Single
<1>11. Good(t, e)
  BY <1>1, <1>4, <1>8, <1>9, <1>10, <1>s DEF Good
<1> QED
  BY <1>11 DEF t, q

\* The job at the head moves on.
LEMMA JobMoves ==
    ASSUME NEW s, NEW e, Good(s, e), s.lane # <<>>, NEW j, JobRight(s, j),
           j.kind = s.lane[1].kind, j.by = s.lane[1].by,
           j.kind = "dispatch" => j.todo \subseteq s.lane[1].todo,
           HeadRight(Front(s, j), e, j)
    PROVE  Good(Front(s, j), e)
<1> DEFINE q == [s.lane EXCEPT ![1] = j]
           t == [s EXCEPT !.lane = q]
<1>0. Front(s, j) = t
  BY DEF Front
<1>1. /\ Typed(t) /\ t.lane = q
      /\ t.ledger = s.ledger /\ t.mem = s.mem /\ t.ahead = s.ahead /\ t.pending = s.pending
      /\ t.slot = s.slot /\ t.flag = s.flag /\ t.quarantine = s.quarantine
  BY LaneSet DEF Good
<1>2. /\ IsSeq(q) /\ q # <<>> /\ Len(q) = Len(s.lane) /\ Len(s.lane) \in Nat \ {0}
      /\ q[1] = j /\ \A i \in 1..Len(s.lane) : i # 1 => q[i] = s.lane[i]
  BY FrontIsSeq DEF Good, LaneRight
<1> HIDE DEF q, t
<1>4. \A c \in Command : Row(t, c) /\ Truth(t, e, c)
  BY <1>1 DEF Good, Row, Truth
<1>5. \A i \in 1..Len(q) : i # 1 => q[i].pc = "first"
  BY <1>2 DEF Good, LaneRight
<1>6. \A i \in 1..Len(q) : JobRight(t, q[i])
  <2>1. \A i \in 1..Len(q) : JobRight(s, q[i])
    BY <1>2 DEF Good, LaneRight
  <2> QED
    BY <1>1, <2>1 DEF JobRight, Waiting
<1>7. ASSUME NEW i \in 1..Len(q), NEW k \in 1..Len(q), NEW c \in Command,
             Dispatches(q, i, c), Dispatches(q, k, c)
      PROVE  i = k
  <2>1. Dispatches(s.lane, i, c) /\ Dispatches(s.lane, k, c)
    BY <1>2, <1>7 DEF Dispatches
  <2> QED
    BY <1>2, <2>1 DEF Good, LaneRight
<1>8. LaneRight(t)
  BY <1>1, <1>2, <1>5, <1>6, <1>7 DEF LaneRight
<1>9. HeadRight(t, e, q[1])
  BY <1>0, <1>2
<1>10. \A i \in 1..Len(q) : q[i].kind = s.lane[i].kind /\ q[i].by = s.lane[i].by
  BY <1>2
<1>11. Fence(t, e)
  <2>1. e.drained => \A i \in 1..Len(q) : q[i].kind # "start"
    BY <1>2, <1>10 DEF Good, Fence
  <2>2. ASSUME NEW i \in 1..Len(q), q[i].kind = "recover", q[i].by = "resume"
        PROVE  (\A k \in 1..i : q[k].kind # "start") /\ \A c \in Command : "launch" \notin s.flag[c]
    <3>1. /\ \A k \in 1..i : s.lane[k].kind # "start"
          /\ \A c \in Command : "launch" \notin s.flag[c]
      BY <1>2, <1>10, <2>2 DEF Good, Fence
    <3>2. \A k \in 1..i : k \in 1..Len(q)
      BY <1>2
    <3> QED
      BY <1>10, <3>1, <3>2
  <2> QED
    BY <1>1, <2>1, <2>2 DEF Good, Fence
<1>s. Single(t, e)
  BY <1>1, <1>2, <1>10 DEF Good, Single, OfDispose
<1>12. Good(t, e)
  BY <1>1, <1>2, <1>4, <1>8, <1>9, <1>11, <1>s DEF Good
<1> QED
  BY <1>0, <1>12

\* The world moves on.
LEMMA WorldMoves ==
    ASSUME NEW s, NEW e, Good(s, e), NEW n, n.started = e.started, n.woken \subseteq e.woken,
           \A c \in Command : s.ledger[c] \in Safe => n.proc[c] # "alive" /\ n.view[c] # "running",
           n.closed => e.closed \/ \A c \in Command : "launch" \notin s.flag[c],
           n.drained => e.drained \/ s.lane = <<>>,
           ~n.recovering => ~e.recovering \/ \A k \in 1..Len(s.lane) : ~OfDispose(s.lane[k])
    PROVE  Good(s, n)
<1>1. \A c \in Command : Truth(s, n, c)
  BY DEF Good, Truth
<1>2. s.lane # <<>> => HeadRight(s, n, s.lane[1])
  BY DEF Good, HeadRight
<1>3. s.lane = <<>> => Len(s.lane) = 0
  OBVIOUS
<1>4. Fence(s, n) /\ Single(s, n)
  BY <1>3 DEF Good, Fence, Single
<1> QED
  BY <1>1, <1>2, <1>4 DEF Good

-----------------------------------------------------------------------------
(* The operators: batches and admission. *)

\* Only flags and the lane differ.
Beside(s, t) ==
    /\ t.ledger = s.ledger /\ t.mem = s.mem /\ t.ahead = s.ahead /\ t.pending = s.pending
    /\ t.slot = s.slot /\ t.quarantine = s.quarantine

LEMMA BatchJoins ==
    ASSUME NEW s, NEW e, Good(s, e), NEW kind, NEW by, NEW S \in SUBSET Command,
           kind = "cancel" => by \in Stopper /\ \A c \in S : s.mem[c] # None,
           kind = "dispatch" => \A c \in S : Waiting(s, c) /\ Spared(s.lane, c),
           kind = "dispatch" /\ s.lane # <<>> =>
              (s.lane[1].pc \in {"enqueue", "authorize", "submit"} => s.lane[1].cmd \notin S),
           kind \in {"cancel", "dispatch"}
    PROVE  /\ Good(Batch(s, kind, by, S), e)
           /\ Beside(s, Batch(s, kind, by, S)) /\ Batch(s, kind, by, S).flag = s.flag
<1>1. CASE S = {}
  BY <1>1 DEF Batch, Beside
<1>2. CASE S # {}
  <2> DEFINE j == Job(kind, 0, by, FALSE, S)
             t == [s EXCEPT !.lane = Append(s.lane, j)]
  <2>1. Batch(s, kind, by, S) = t
    BY <1>2 DEF Batch
  <2>2. Typed(s)
    BY DEF Good
  <2>3. Beside(s, t) /\ t.flag = s.flag
    BY <2>2, LaneSet DEF Beside
  <2>4. /\ j.kind = kind /\ j.by = by /\ j.todo = S /\ j.pc = "first"
        /\ j = [kind |-> j.kind, cmd |-> j.cmd, pc |-> j.pc, force |-> j.force, by |-> j.by,
                todo |-> j.todo]
    BY DEF Job
  <2> HIDE DEF j
  <2>5. JobRight(s, j)
    BY <1>2, <2>4 DEF JobRight, JobShape
  <2>6. Joins(s, e, j)
    BY <2>4, <2>5 DEF Joins, OfDispose
  <2>7. Good(t, e)
    BY <2>6, JobJoins
  <2> QED
    BY <2>1, <2>3, <2>7
<1> QED
  BY <1>1, <1>2

LEMMA LaneHead ==
    ASSUME NEW s, NEW e, Good(s, e), s.lane # <<>>
    PROVE  /\ Len(s.lane) \in Nat \ {0} /\ 1 \in 1..Len(s.lane)
           /\ JobRight(s, s.lane[1]) /\ HeadRight(s, e, s.lane[1])
<1>1. Len(s.lane) \in Nat \ {0}
  BY TailIsSeq DEF Good, LaneRight
<1> QED
  BY <1>1 DEF Good, LaneRight

LEMMA AdmitRight ==
    ASSUME NEW s, NEW e, Good(s, e), NEW S \in SUBSET Command,
           \A c \in S : "launch" \in s.flag[c] => s.slot[c] = "active"
    PROVE  /\ Good(Admit(s, S), e) /\ Beside(s, Admit(s, S))
           /\ \A c \in Command : Admit(s, S).flag[c] \ {"dispatching"} = s.flag[c] \ {"dispatching"}
<1> DEFINE go == {c \in S : Admissible(s, c)}
           F == [c \in Command |-> IF c \in go THEN s.flag[c] \cup {"dispatching"} ELSE s.flag[c]]
           u == [s EXCEPT !.flag = F]
<1>1. Admit(s, S) = Batch(u, "dispatch", None, go)
  BY DEF Admit
<1>2. Typed(s) /\ s.flag \in [Command -> SUBSET Flag]
  BY DEF Good, Typed
<1>3. F \in [Command -> SUBSET Flag]
  BY <1>2 DEF Flag
<1>4. Good(u, e)
  <2>1. \A c \in Command : /\ "launch" \in F[c] => "launch" \in s.flag[c]
                           /\ "dispatching" \in s.flag[c] => "dispatching" \in F[c]
                           /\ "attached" \in F[c] => "attached" \in s.flag[c]
    OBVIOUS
  <2> HIDE DEF F
  <2> QED
    BY <1>3, <2>1, FlagsMove
<1>5. Beside(s, u) /\ u.flag = F /\ u.lane = s.lane
  BY <1>2, <1>3, FlagSet DEF Beside
<1>6. ASSUME NEW c \in go
      PROVE  Waiting(u, c) /\ Spared(u.lane, c)
  <2>1. /\ "launch" \in s.flag[c] /\ "dispatching" \notin s.flag[c] /\ s.slot[c] = "active"
        /\ c \in Command
    BY DEF Admissible
  <2>2. Row(s, c)
    BY <2>1 DEF Good
  <2>3. Waiting(u, c)
    BY <1>5, <2>1, <2>2 DEF Row, Waiting, Beside
  <2>4. ~Waiting(s, c)
    BY <2>1 DEF Waiting
  <2>5. Spared(s.lane, c)
    BY <2>4 DEF Good, LaneRight, JobRight, Spared, Dispatches
  <2> QED
    BY <1>5, <2>3, <2>5
<1>7. ASSUME u.lane # <<>>, u.lane[1].pc \in {"enqueue", "authorize", "submit"}
      PROVE  u.lane[1].cmd \notin go
  <2>1. HeadRight(s, e, s.lane[1])
    BY <1>5, <1>7 DEF Good
  <2> QED
    BY <1>5, <1>7, <2>1 DEF HeadRight, Admissible
<1>8. go \in SUBSET Command
  OBVIOUS
<1>f. \A c \in Command : F[c] \ {"dispatching"} = s.flag[c] \ {"dispatching"}
  OBVIOUS
<1> HIDE DEF go, u, F
<1>9. /\ Good(Batch(u, "dispatch", None, go), e)
      /\ Beside(u, Batch(u, "dispatch", None, go)) /\ Batch(u, "dispatch", None, go).flag = u.flag
  BY <1>4, <1>6, <1>7, <1>8, BatchJoins
<1> QED
  BY <1>1, <1>5, <1>9, <1>f DEF Beside

\* Aborted commands launch no more.
LEMMA AbortedRight ==
    ASSUME NEW s, NEW e, Good(s, e), NEW S \in SUBSET Command
    PROVE  /\ Good(Aborted(s, S), e) /\ Beside(s, Aborted(s, S)) /\ Aborted(s, S).lane = s.lane
           /\ \A c \in Command : /\ "launch" \in Aborted(s, S).flag[c] => "launch" \in s.flag[c]
                                 /\ c \in S => "launch" \notin Aborted(s, S).flag[c]
                                 /\ Aborted(s, S).flag[c] \ {"launch", "aborted"} =
                                      s.flag[c] \ {"launch", "aborted"}
<1> DEFINE F == [c \in Command |-> IF c \in S THEN (s.flag[c] \ {"launch"}) \cup {"aborted"}
                                   ELSE s.flag[c]]
<1>1. Aborted(s, S) = [s EXCEPT !.flag = F]
  BY DEF Aborted
<1>2. Typed(s) /\ s.flag \in [Command -> SUBSET Flag]
  BY DEF Good, Typed
<1>3. F \in [Command -> SUBSET Flag]
  BY <1>2 DEF Flag
<1>4. \A c \in Command : /\ "launch" \in F[c] => "launch" \in s.flag[c]
                         /\ c \in S => "launch" \notin F[c]
                         /\ "dispatching" \in s.flag[c] => "dispatching" \in F[c]
                         /\ "attached" \in F[c] => "attached" \in s.flag[c]
                         /\ F[c] \ {"launch", "aborted"} = s.flag[c] \ {"launch", "aborted"}
  BY DEF Flag
<1> HIDE DEF F
<1>5. Good([s EXCEPT !.flag = F], e)
  BY <1>3, <1>4, FlagsMove
<1>6. Beside(s, [s EXCEPT !.flag = F]) /\ [s EXCEPT !.flag = F].flag = F
      /\ [s EXCEPT !.flag = F].lane = s.lane
  BY <1>2, <1>3, FlagSet DEF Beside
<1> QED
  BY <1>1, <1>4, <1>5, <1>6

LEMMA CancelsRight ==
    ASSUME NEW s, NEW e, Good(s, e), NEW d \in Stopper, NEW S \in SUBSET Command,
           \A c \in S : s.mem[c] # None
    PROVE  Good(Cancels(s, d, S), e) /\ Beside(s, Cancels(s, d, S))
<1> DEFINE t == Aborted(s, S)
<1>1. Good(t, e) /\ Beside(s, t)
  BY AbortedRight
<1>2. Cancels(s, d, S) = Batch(t, "cancel", d, S)
  BY DEF Cancels
<1> HIDE DEF t
<1>3. Good(Batch(t, "cancel", d, S), e) /\ Beside(t, Batch(t, "cancel", d, S))
  BY <1>1, BatchJoins DEF Beside
<1> QED
  BY <1>1, <1>2, <1>3 DEF Beside

-----------------------------------------------------------------------------
(* The operators: release and the write. *)

\* The head of the lane is not between two of its awaits that set a command apart.
Calm(s) == s.lane # <<>> => s.lane[1].pc \in {"first", "each"}

\* What is known of a command is never forgotten or taken back.
Later(s, t) ==
    \A c \in Command :
        /\ s.mem[c] # None => t.mem[c] # None
        /\ s.mem[c] \notin {None, "queued"} => t.mem[c] \notin {None, "queued"}
        /\ t.mem[c] = "queued" => s.mem[c] \in {None, "queued"}
        /\ s.ledger[c] \in Safe => t.ledger[c] \in Safe
        /\ s.ledger[c] = None => t.ledger[c] = None

LEMMA LaterByFields ==
    ASSUME NEW s, NEW t, t.ledger = s.ledger, t.mem = s.mem
    PROVE  Later(s, t)
  BY DEF Later

LEMMA LaterTwice ==
    ASSUME NEW s, NEW t, NEW u, Later(s, t), Later(t, u)
    PROVE  Later(s, u)
  BY DEF Later

LEMMA SparedUnlessWaiting ==
    ASSUME NEW s, NEW e, Good(s, e), NEW c \in Command, ~Waiting(s, c)
    PROVE  Spared(s.lane, c)
  BY DEF Good, LaneRight, JobRight, Spared, Dispatches

LEMMA BatchCalm ==
    ASSUME NEW s, NEW e, Good(s, e), Calm(s), NEW kind, NEW by, NEW S
    PROVE  Calm(Batch(s, kind, by, S))
<1>1. CASE S = {}
  BY <1>1 DEF Batch
<1>2. CASE S # {}
  <2> DEFINE j == Job(kind, 0, by, FALSE, S)
             t == [s EXCEPT !.lane = Append(s.lane, j)]
  <2>1. Batch(s, kind, by, S) = t
    BY <1>2 DEF Batch
  <2>3. j.pc = "first"
    BY DEF Job
  <2> HIDE DEF j
  <2>t. Typed(s)
    BY DEF Good
  <2>2. t.lane = Append(s.lane, j)
    BY <2>t, LaneSet
  <2>4. IsSeq(s.lane) /\ Len(s.lane) \in Nat /\ (s.lane = <<>> => Len(s.lane) = 0)
    BY IsSeqFacts DEF Good, LaneRight
  <2> HIDE DEF t
  <2>5. s.lane = <<>> => t.lane[1] = j
    BY <2>2, <2>4, AppendIsSeq
  <2>6. s.lane # <<>> => t.lane[1] = s.lane[1]
    BY <2>2, <2>4, AppendIsSeq, LaneHead
  <2> QED
    BY <2>1, <2>3, <2>5, <2>6 DEF Calm
<1> QED
  BY <1>1, <1>2

LEMMA AdmitCalm ==
    ASSUME NEW s, NEW e, Good(s, e), Calm(s), NEW S \in SUBSET Command
    PROVE  Calm(Admit(s, S))
<1> DEFINE go == {c \in S : Admissible(s, c)}
           F == [c \in Command |-> IF c \in go THEN s.flag[c] \cup {"dispatching"} ELSE s.flag[c]]
           u == [s EXCEPT !.flag = F]
<1>1. Admit(s, S) = Batch(u, "dispatch", None, go)
  BY DEF Admit
<1>2. Typed(s) /\ s.flag \in [Command -> SUBSET Flag]
  BY DEF Good, Typed
<1>3. F \in [Command -> SUBSET Flag]
  BY <1>2 DEF Flag
<1>4. \A c \in Command : /\ "launch" \in F[c] => "launch" \in s.flag[c]
                         /\ "dispatching" \in s.flag[c] => "dispatching" \in F[c]
                         /\ "attached" \in F[c] => "attached" \in s.flag[c]
  OBVIOUS
<1> HIDE DEF F, go
<1>5. Good(u, e) /\ u.lane = s.lane
  BY <1>2, <1>3, <1>4, FlagsMove, FlagSet
<1> HIDE DEF u
<1> QED
  BY <1>1, <1>5, BatchCalm DEF Calm

\* A slot is given, or taken from a command that is over.
LEMMA SlotsMove ==
    ASSUME NEW s, NEW e, Good(s, e), NEW O \in [Command -> Place],
           \A c \in Command : s.slot[c] = "active" /\ O[c] # "active" =>
                s.mem[c] \in Safe /\ "launch" \notin s.flag[c]
    PROVE  LET t == [s EXCEPT !.slot = O] IN
           /\ Good(t, e) /\ t.slot = O /\ t.lane = s.lane
           /\ t.ledger = s.ledger /\ t.mem = s.mem /\ t.ahead = s.ahead /\ t.pending = s.pending
           /\ t.flag = s.flag /\ t.quarantine = s.quarantine
<1> DEFINE t == [s EXCEPT !.slot = O]
<1>1. /\ Typed(t) /\ t.slot = O
      /\ t.ledger = s.ledger /\ t.mem = s.mem /\ t.ahead = s.ahead /\ t.pending = s.pending
      /\ t.flag = s.flag /\ t.lane = s.lane /\ t.quarantine = s.quarantine
  BY SlotSet DEF Good
<1> HIDE DEF t
<1>2. \A c \in Command : Row(s, c) /\ Truth(s, e, c)
  BY DEF Good
<1>3. \A c \in Command : s.mem[c] \in Safe => s.mem[c] \notin Claimed /\ s.mem[c] # "queued"
  BY DEF Safe, Claimed
<1>4. \A c \in Command : Row(t, c) /\ Truth(t, e, c)
  BY <1>1, <1>2, <1>3 DEF Row, Truth
<1>5. \A c \in Command : Waiting(s, c) => Waiting(t, c)
  BY <1>1, <1>3 DEF Waiting
<1>6. ASSUME s.lane # <<>> PROVE HeadRight(t, e, s.lane[1])
  <2>1. HeadRight(s, e, s.lane[1])
    BY <1>6 DEF Good
  <2> QED
    BY <1>1, <1>3, <2>1 DEF HeadRight
<1>7. Good(t, e)
  BY <1>1, <1>4, <1>5, <1>6, RowsMove
<1> QED
  BY <1>1, <1>7 DEF t

LEMMA ReleaseRight ==
    ASSUME NEW s, NEW e, Good(s, e), Calm(s), NEW c \in Command
    PROVE  LET t == Release(s, c) IN
           /\ Good(t, e) /\ Calm(t)
           /\ t.ledger = s.ledger /\ t.mem = s.mem
           /\ s.mem[c] \notin Safe => t = s
<1>1. CASE s.mem[c] \notin Safe
  BY <1>1 DEF Release
<1>2. CASE s.mem[c] \in Safe
  <2> DEFINE G == s.flag[c] \ {"launch"}
             r == [s EXCEPT !.flag[c] = G]
             O == [s.slot EXCEPT ![c] = None]
             t == [r EXCEPT !.slot = O]
             N == In(t, "queued")
             n == First(N)
             u == [t EXCEPT !.slot[n] = "active"]
  <2>1. Typed(s) /\ s.flag \in [Command -> SUBSET Flag] /\ s.slot \in [Command -> Place]
    BY DEF Good, Typed
  <2>2. [s EXCEPT !.flag[c] = @ \ {"launch"}, !.slot[c] = None] = t
    <3>1. [s EXCEPT !.flag[c] = @ \ {"launch"}, !.slot[c] = None] = [r EXCEPT !.slot[c] = None]
      OBVIOUS
    <3>2. [s.flag EXCEPT ![c] = G] \in [Command -> SUBSET Flag]
      BY <2>1
    <3>3. r = [s EXCEPT !.flag = [s.flag EXCEPT ![c] = G]]
      OBVIOUS
    <3>4. r.slot = s.slot
      BY <2>1, <3>2, <3>3, FlagSet
    <3> QED
      BY <3>1, <3>4
  <2>3. Release(s, c) = IF s.slot[c] # None /\ N # {} /\ Cardinality(In(t, "active")) < Slots
                        THEN Admit(u, {n}) ELSE t
    BY <1>2, <2>2 DEF Release
  <2>4. /\ Good(r, e) /\ Beside(s, r) /\ r.lane = s.lane
        /\ r.flag = [s.flag EXCEPT ![c] = G]
    <3> DEFINE F == [s.flag EXCEPT ![c] = G]
    <3>1. /\ F \in [Command -> SUBSET Flag]
          /\ \A d \in Command : /\ "launch" \in F[d] => "launch" \in s.flag[d]
                                /\ "dispatching" \in s.flag[d] => "dispatching" \in F[d]
                                /\ "attached" \in F[d] => "attached" \in s.flag[d]
      BY <2>1
    <3> HIDE DEF F
    <3>2. Good([s EXCEPT !.flag = F], e)
      BY <3>1, FlagsMove
    <3>3. LET x == [s EXCEPT !.flag = F] IN Beside(s, x) /\ x.lane = s.lane /\ x.flag = F
      BY <2>1, <3>1, FlagSet DEF Beside
    <3>4. r = [s EXCEPT !.flag = F]
      BY DEF F
    <3> HIDE DEF r
    <3> QED
      BY <3>2, <3>3, <3>4 DEF F
  <2>5. "launch" \notin r.flag[c]
    BY <2>1, <2>4
  <2> HIDE DEF G, r
  <2>6. /\ Good(t, e) /\ t.slot = O /\ t.lane = s.lane /\ t.ledger = s.ledger /\ t.mem = s.mem
    <3>1. /\ O \in [Command -> Place]
          /\ \A d \in Command : s.slot[d] = "active" /\ O[d] # "active" => d = c
      BY <2>1 DEF Place
    <3> HIDE DEF O
    <3>2. \A d \in Command : r.slot[d] = "active" /\ O[d] # "active" =>
                r.mem[d] \in Safe /\ "launch" \notin r.flag[d]
      BY <1>2, <2>4, <2>5, <3>1 DEF Beside
    <3>t. t = [r EXCEPT !.slot = O]
      OBVIOUS
    <3> HIDE DEF t
    <3>g. Good(r, e)
      BY <2>4
    <3>3. /\ Good(t, e) /\ t.slot = O /\ t.lane = r.lane /\ t.ledger = r.ledger
          /\ t.mem = r.mem
      BY <3>g, <3>t, <3>1, <3>2, SlotsMove
    <3> QED
      BY <2>4, <3>3 DEF Beside
  <2> HIDE DEF t
  <2>7. Calm(t)
    BY <2>6 DEF Calm
  <2>8. ASSUME N # {}
        PROVE  LET v == Admit(u, {n}) IN
               Good(v, e) /\ Calm(v) /\ v.ledger = s.ledger /\ v.mem = s.mem
    <3>1. N \in SUBSET Command
      BY DEF In
    <3>2. n \in N
      BY <2>8, <3>1, FirstIsThere
    <3>3. n \in Command
      BY <3>1, <3>2
    <3> HIDE DEF N, n, O
    <3>4. Typed(t) /\ t.slot \in [Command -> Place]
      BY <2>6 DEF Good, Typed
    <3> DEFINE P == [t.slot EXCEPT ![n] = "active"]
    <3>5. /\ P \in [Command -> Place] /\ P[n] = "active"
          /\ \A d \in Command : t.slot[d] = "active" => P[d] = "active"
      BY <3>3, <3>4 DEF Place
    <3>6. u = [t EXCEPT !.slot = P]
      OBVIOUS
    <3> HIDE DEF P, u
    <3>7. /\ Good(u, e) /\ u.slot = P /\ u.lane = t.lane /\ u.ledger = t.ledger /\ u.mem = t.mem
      BY <2>6, <3>5, <3>6, SlotsMove
    <3>8. Calm(u)
      BY <2>7, <3>7 DEF Calm
    <3>9. {n} \in SUBSET Command /\ u.slot[n] = "active"
      BY <3>3, <3>5, <3>7
    <3>10. Good(Admit(u, {n}), e) /\ Beside(u, Admit(u, {n}))
      BY <3>7, <3>9, AdmitRight
    <3>11. Calm(Admit(u, {n}))
      BY <3>7, <3>8, <3>9, AdmitCalm
    <3> QED
      BY <2>6, <3>7, <3>10, <3>11 DEF Beside
  <2> HIDE DEF N, n, u
  <2>9. CASE s.slot[c] # None /\ N # {} /\ Cardinality(In(t, "active")) < Slots
    <3>1. Release(s, c) = Admit(u, {n})
      BY <2>3, <2>9
    <3> QED
      BY <1>2, <2>8, <2>9, <3>1
  <2>10. CASE ~(s.slot[c] # None /\ N # {} /\ Cardinality(In(t, "active")) < Slots)
    <3>1. Release(s, c) = t
      BY <2>3, <2>10
    <3> QED
      BY <1>2, <2>6, <2>7, <3>1
  <2> QED
    BY <2>9, <2>10
<1> QED
  BY <1>1, <1>2

\* What may be written of a command.
Legit(s, e, c, next) ==
    /\ s.mem[c] \in {"queued"} \cup Claimed /\ next \in Claimed \cup Safe
    /\ next \in Safe => e.proc[c] # "alive" /\ e.view[c] # "running"
    /\ next \in Claimed => s.slot[c] = "active" /\ "launch" \notin s.flag[c] /\ Spared(s.lane, c)

LEMMA StatusApart ==
    /\ Safe \cap Claimed = {} /\ "queued" \notin Safe \cup Claimed /\ None \notin Safe \cup Claimed
    /\ Status = {"queued"} \cup Claimed \cup Safe /\ None # "queued"
  BY DEF Safe, Claimed, Status, None

\* The record is in the ledger, and known to be or not.
LEMMA RowWritten ==
    ASSUME NEW s, NEW e, Good(s, e), Calm(s), NEW c \in Command, NEW next, Legit(s, e, c, next),
           Indexes(s, c, next), NEW t, Typed(t), t.lane = s.lane, t.slot = s.slot,
           t.ledger = [s.ledger EXCEPT ![c] = next],
           \/ t.mem = s.mem /\ t.ahead = [s.ahead EXCEPT ![c] = 1]
           \/ t.mem = [s.mem EXCEPT ![c] = next] /\ t.ahead = [s.ahead EXCEPT ![c] = 0],
           \A d \in Command : t.flag[d] \ {"disposeFailed"} = s.flag[d] \ {"disposeFailed"}
    PROVE  Good(t, e) /\ Calm(t) /\ Later(s, t)
<1>1. /\ s.ledger \in [Command -> Status \cup {None}] /\ s.mem \in [Command -> Status \cup {None}]
      /\ s.ahead \in [Command -> Nat]
  BY DEF Good, Typed
<1>2. \A d \in Command : Row(s, d) /\ Truth(s, e, d)
  BY DEF Good
<1>3. /\ \A d \in Command : d # c => /\ t.ledger[d] = s.ledger[d] /\ t.mem[d] = s.mem[d]
                                     /\ t.ahead[d] = s.ahead[d]
      /\ t.ledger[c] = next
      /\ \/ t.mem[c] = s.mem[c] /\ t.ahead[c] = 1
         \/ t.mem[c] = next /\ t.ahead[c] = 0
  BY <1>1
<1>4. \A d \in Command : /\ "launch" \in t.flag[d] <=> "launch" \in s.flag[d]
                         /\ "attached" \in t.flag[d] <=> "attached" \in s.flag[d]
                         /\ "dispatching" \in t.flag[d] <=> "dispatching" \in s.flag[d]
  OBVIOUS
<1>5. ASSUME NEW d \in Command, d # c
      PROVE  Row(t, d) /\ Truth(t, e, d) /\ (Waiting(s, d) => Waiting(t, d))
  BY <1>2, <1>3, <1>4, <1>5 DEF Row, Truth, Waiting
<1>6. next \notin {None, "queued"} /\ (next \in Safe => next \notin Claimed)
      /\ (next \in Claimed => next \notin Safe)
      /\ s.mem[c] # None /\ s.mem[c] \notin Safe
  BY StatusApart DEF Legit
<1>7. Row(t, c)
  <2>1. "attached" \in s.flag[c] => s.mem[c] \notin {None, "queued"}
    BY <1>2 DEF Row
  <2>2. s.mem[c] \in Claimed => s.slot[c] = "active"
    BY <1>2 DEF Row
  <2>3. "launch" \in s.flag[c] => s.mem[c] \in {"queued"} \cup Safe /\ next \in Safe
    BY <1>2 DEF Row, Legit
  <2> QED
    BY <1>3, <1>4, <1>6, <2>1, <2>2, <2>3 DEF Row, Legit
<1>8. Truth(t, e, c)
  BY <1>2, <1>3, <1>4, <1>6 DEF Truth, Legit
<1>9. Waiting(s, c) => Waiting(t, c) \/ Spared(s.lane, c)
  BY <1>3, <1>4, <1>6 DEF Waiting, Legit
<1>10. \A d \in Command : /\ s.mem[d] # None => t.mem[d] # None
                          /\ s.mem[d] \notin {None, "queued"} => t.mem[d] \notin {None, "queued"}
  BY <1>3, <1>6
<1>11. ASSUME s.lane # <<>> PROVE HeadRight(t, e, s.lane[1])
  <2>1. HeadRight(s, e, s.lane[1]) /\ s.lane[1].todo \subseteq Command
    BY <1>11, LaneHead DEF JobRight, JobShape
  <2>2. \A d \in Command : t.ledger[d] # None => s.ledger[d] # None
    BY <1>2, <1>3, <1>6 DEF Row
  <2>3. s.lane[1].pc \in {"first", "each"}
    BY <1>11 DEF Calm
  <2> QED
    BY <1>10, <2>1, <2>2, <2>3 DEF HeadRight
<1>12. Good(t, e)
  BY <1>4, <1>5, <1>7, <1>8, <1>9, <1>10, <1>11, RowsMove
<1>13. Later(s, t)
  <2>1. s.ledger[c] \in Safe => next \in Safe
    <3>1. s.ahead[c] = 0 => s.ledger[c] = s.mem[c]
      BY <1>2, <1>6 DEF Row
    <3> QED
      BY <1>6, <3>1 DEF Indexes
  <2>2. s.ledger[c] # None
    BY <1>2, <1>6 DEF Row
  <2> QED
    BY <1>3, <1>6, <1>10, <2>1, <2>2 DEF Later
<1> QED
  BY <1>12, <1>13 DEF Calm

LEMMA PendingMoves ==
    ASSUME NEW s, NEW e, Good(s, e), NEW c \in Command, NEW next \in Status
    PROVE  LET t == [s EXCEPT !.pending[c] = next] IN
           /\ Good(t, e) /\ t.ledger = s.ledger /\ t.mem = s.mem /\ t.ahead = s.ahead
           /\ t.slot = s.slot /\ t.flag = s.flag /\ t.lane = s.lane
<1> DEFINE P == [s.pending EXCEPT ![c] = next]
           t == [s EXCEPT !.pending = P]
<1>1. Typed(s) /\ P \in [Command -> Status \cup {None}]
  BY DEF Good, Typed
<1>2. [s EXCEPT !.pending[c] = next] = t
  OBVIOUS
<1> HIDE DEF P
<1>3. /\ Typed(t) /\ t.ledger = s.ledger /\ t.mem = s.mem /\ t.ahead = s.ahead
      /\ t.slot = s.slot /\ t.flag = s.flag /\ t.lane = s.lane
  BY <1>1, PendingSet
<1> HIDE DEF t
<1>4. \A d \in Command : Row(t, d) /\ Truth(t, e, d) /\ (Waiting(s, d) => Waiting(t, d))
  BY <1>3 DEF Good, Row, Truth, Waiting
<1>5. s.lane # <<>> => HeadRight(t, e, s.lane[1])
  BY <1>3 DEF Good, HeadRight
<1>6. Good(t, e)
  BY <1>3, <1>4, <1>5, RowsMove
<1> QED
  BY <1>2, <1>3, <1>6

LEMMA WriteRight ==
    ASSUME NEW s, NEW e, Good(s, e), Calm(s), NEW c \in Command, NEW next, Legit(s, e, c, next),
           NEW r \in Write(s, c, next)
    PROVE  /\ Good(r.to, e) /\ Calm(r.to) /\ Later(s, r.to) /\ r.ok \in BOOLEAN
           /\ r.ok => r.to.mem = [s.mem EXCEPT ![c] = next]
           /\ ~r.ok => r.to.mem = s.mem /\ r.to.lane = s.lane
           /\ r.ok /\ next \notin Safe =>
                 /\ r.to.lane = s.lane /\ r.to.slot = s.slot /\ r.to.ledger = [s.ledger EXCEPT ![c] = next]
                 /\ \A d \in Command : r.to.flag[d] \ {"disposeFailed"} = s.flag[d] \ {"disposeFailed"}
<1> DEFINE a == [s EXCEPT !.pending[c] = next]
           b == [a EXCEPT !.ledger[c] = next, !.ahead[c] = 1]
           w == [s EXCEPT !.ledger[c] = next, !.mem[c] = next, !.ahead[c] = 0,
                          !.pending[c] = None, !.flag[c] = @ \ {"disposeFailed"}]
<1>0. /\ Typed(s) /\ next \in Status /\ s.ledger \in [Command -> Status \cup {None}]
      /\ s.mem \in [Command -> Status \cup {None}] /\ s.ahead \in [Command -> Nat]
      /\ s.pending \in [Command -> Status \cup {None}] /\ s.flag \in [Command -> SUBSET Flag]
  BY StatusApart DEF Good, Typed, Legit
<1>1. \/ r = [to |-> a, ok |-> FALSE, fault |-> FALSE]
      \/ r = [to |-> a, ok |-> FALSE, fault |-> TRUE]
      \/ Indexes(s, c, next) /\ r = [to |-> b, ok |-> FALSE, fault |-> TRUE]
      \/ Indexes(s, c, next) /\ r = [to |-> Release(w, c), ok |-> TRUE, fault |-> FALSE]
  BY DEF Write
<1>2. /\ Good(a, e) /\ a.ledger = s.ledger /\ a.mem = s.mem /\ a.ahead = s.ahead
      /\ a.slot = s.slot /\ a.flag = s.flag /\ a.lane = s.lane
  BY <1>0, PendingMoves
<1>3. /\ Typed(b) /\ b.ledger = [s.ledger EXCEPT ![c] = next] /\ b.mem = s.mem
      /\ b.ahead = [s.ahead EXCEPT ![c] = 1] /\ b.slot = s.slot /\ b.flag = s.flag
      /\ b.lane = s.lane
  <2> HIDE DEF a
  <2> DEFINE L == [a.ledger EXCEPT ![c] = next]
             A == [a.ahead EXCEPT ![c] = 1]
             b1 == [a EXCEPT !.ledger = L]
             b2 == [b1 EXCEPT !.ahead = A]
  <2>1. L \in [Command -> Status \cup {None}] /\ A \in [Command -> Nat]
    BY <1>0, <1>2
  <2>2. Typed(a)
    BY <1>2 DEF Good
  <2>3. L = [s.ledger EXCEPT ![c] = next] /\ A = [s.ahead EXCEPT ![c] = 1]
    BY <1>2
  <2>4. b = [b1 EXCEPT !.ahead[c] = 1]
    OBVIOUS
  <2> HIDE DEF b, L
  <2>5. /\ Typed(b1) /\ b1.ledger = L /\ b1.mem = a.mem /\ b1.ahead = a.ahead
        /\ b1.slot = a.slot /\ b1.flag = a.flag /\ b1.lane = a.lane
    BY <2>1, <2>2, LedgerSet
  <2> HIDE DEF b1
  <2>6. b = b2
    BY <2>4, <2>5
  <2> HIDE DEF A
  <2>7. /\ Typed(b2) /\ b2.ledger = L /\ b2.mem = a.mem /\ b2.ahead = A
        /\ b2.slot = a.slot /\ b2.flag = a.flag /\ b2.lane = a.lane
    BY <2>1, <2>5, AheadSet
  <2> QED
    BY <1>2, <2>3, <2>6, <2>7
<1>4. /\ Typed(w) /\ w.ledger = [s.ledger EXCEPT ![c] = next]
      /\ w.mem = [s.mem EXCEPT ![c] = next] /\ w.ahead = [s.ahead EXCEPT ![c] = 0]
      /\ w.slot = s.slot /\ w.lane = s.lane
      /\ w.flag = [s.flag EXCEPT ![c] = @ \ {"disposeFailed"}]
  <2> DEFINE L == [s.ledger EXCEPT ![c] = next]
             M == [s.mem EXCEPT ![c] = next]
             A == [s.ahead EXCEPT ![c] = 0]
             P == [s.pending EXCEPT ![c] = None]
             F == [s.flag EXCEPT ![c] = @ \ {"disposeFailed"}]
             w1 == [s EXCEPT !.ledger = L]
             w2 == [w1 EXCEPT !.mem[c] = next]
             w3 == [w2 EXCEPT !.ahead[c] = 0]
             w4 == [w3 EXCEPT !.pending[c] = None]
             w5 == [w4 EXCEPT !.flag[c] = @ \ {"disposeFailed"}]
  <2>1. /\ L \in [Command -> Status \cup {None}] /\ M \in [Command -> Status \cup {None}]
        /\ A \in [Command -> Nat] /\ P \in [Command -> Status \cup {None}]
        /\ F \in [Command -> SUBSET Flag]
    BY <1>0
  <2>2. w = w5
    OBVIOUS
  <2> HIDE DEF w, L
  <2>3. /\ Typed(w1) /\ w1.ledger = L /\ w1.mem = s.mem /\ w1.ahead = s.ahead
        /\ w1.pending = s.pending /\ w1.slot = s.slot /\ w1.flag = s.flag /\ w1.lane = s.lane
    BY <1>0, <2>1, LedgerSet
  <2> HIDE DEF w1
  <2>4. w2 = [w1 EXCEPT !.mem = M]
    BY <2>3
  <2> HIDE DEF w2, M
  <2>5. /\ Typed(w2) /\ w2.ledger = L /\ w2.mem = M /\ w2.ahead = s.ahead
        /\ w2.pending = s.pending /\ w2.slot = s.slot /\ w2.flag = s.flag /\ w2.lane = s.lane
    BY <2>1, <2>3, <2>4, MemSet
  <2>6. w3 = [w2 EXCEPT !.ahead = A]
    BY <2>5
  <2> HIDE DEF w3, A
  <2>7. /\ Typed(w3) /\ w3.ledger = L /\ w3.mem = M /\ w3.ahead = A
        /\ w3.pending = s.pending /\ w3.slot = s.slot /\ w3.flag = s.flag /\ w3.lane = s.lane
    BY <2>1, <2>5, <2>6, AheadSet
  <2>8. w4 = [w3 EXCEPT !.pending = P]
    BY <2>7
  <2> HIDE DEF w4, P
  <2>9. /\ Typed(w4) /\ w4.ledger = L /\ w4.mem = M /\ w4.ahead = A
        /\ w4.slot = s.slot /\ w4.flag = s.flag /\ w4.lane = s.lane
    BY <2>1, <2>7, <2>8, PendingSet
  <2>10. w5 = [w4 EXCEPT !.flag = F]
    BY <2>9
  <2> HIDE DEF w5, F
  <2>11. /\ Typed(w5) /\ w5.ledger = L /\ w5.mem = M /\ w5.ahead = A
         /\ w5.slot = s.slot /\ w5.flag = F /\ w5.lane = s.lane
    BY <2>1, <2>9, <2>10, FlagSet
  <2> QED
    BY <2>2, <2>11 DEF L, M, A, F
<1> HIDE DEF a, b, w
<1>5. CASE r.to = a /\ r.ok = FALSE
  BY <1>2, <1>5, LaterByFields DEF Calm
<1>6. CASE Indexes(s, c, next) /\ r.to = b /\ r.ok = FALSE
  <2>1. \A d \in Command : b.flag[d] \ {"disposeFailed"} = s.flag[d] \ {"disposeFailed"}
    BY <1>3
  <2>d. \/ b.mem = s.mem /\ b.ahead = [s.ahead EXCEPT ![c] = 1]
        \/ b.mem = [s.mem EXCEPT ![c] = next] /\ b.ahead = [s.ahead EXCEPT ![c] = 0]
    BY <1>3
  <2>p. /\ Indexes(s, c, next) /\ Typed(b) /\ b.lane = s.lane /\ b.slot = s.slot
        /\ b.ledger = [s.ledger EXCEPT ![c] = next]
    BY <1>3, <1>6
  <2>2. Good(b, e) /\ Calm(b) /\ Later(s, b)
    BY <2>d, <2>p, <2>1, RowWritten
  <2> QED
    BY <1>3, <1>6, <2>2
<1>7. CASE Indexes(s, c, next) /\ r.to = Release(w, c) /\ r.ok = TRUE
  <2>1. \A d \in Command : w.flag[d] \ {"disposeFailed"} = s.flag[d] \ {"disposeFailed"}
    BY <1>0, <1>4
  <2>2. Good(w, e) /\ Calm(w) /\ Later(s, w)
    BY <1>4, <1>7, <2>1, RowWritten
  <2>3. LET t == Release(w, c) IN
           /\ Good(t, e) /\ Calm(t) /\ t.ledger = w.ledger /\ t.mem = w.mem
           /\ w.mem[c] \notin Safe => t = w
    BY <2>2, ReleaseRight
  <2>4. w.mem[c] = next /\ w.ledger[c] = next
    BY <1>0, <1>4
  <2>5. Later(s, r.to)
    BY <1>7, <2>2, <2>3 DEF Later
  <2> QED
    <3>1. r.to.mem = [s.mem EXCEPT ![c] = next] /\ r.ok \in BOOLEAN
      BY <1>4, <1>7, <2>3
    <3>2. ASSUME next \notin Safe
          PROVE  /\ r.to.lane = s.lane /\ r.to.slot = s.slot
                 /\ r.to.ledger = [s.ledger EXCEPT ![c] = next]
                 /\ \A d \in Command : r.to.flag[d] \ {"disposeFailed"} = s.flag[d] \ {"disposeFailed"}
      <4>1. r.to = w
        BY <1>7, <2>3, <2>4, <3>2
      <4> QED
        BY <1>4, <2>1, <4>1
    <3> QED
      BY <1>7, <2>3, <2>5, <3>1, <3>2
<1>8. \/ r.to = a /\ r.ok = FALSE
      \/ Indexes(s, c, next) /\ r.to = b /\ r.ok = FALSE
      \/ Indexes(s, c, next) /\ r.to = Release(w, c) /\ r.ok = TRUE
  BY <1>1
<1> QED
  BY <1>5, <1>6, <1>7, <1>8

-----------------------------------------------------------------------------
(* The operators: settlement and recovery. *)

\* The outcome r of what was done to s.
Sound(s, e, r) ==
    /\ Good(r.to, e) /\ Calm(r.to) /\ Later(s, r.to) /\ r.ok \in BOOLEAN
    /\ ~r.ok => r.to.lane = s.lane

LEMMA KeptSound ==
    ASSUME NEW s, NEW e, NEW t, Good(t, e), Calm(t), Later(s, t), NEW r \in Kept(t)
    PROVE  Sound(s, e, r)
<1>1. r.to = t /\ r.ok = TRUE
  BY DEF Kept
<1> QED
  BY <1>1 DEF Sound

LEMMA WriteSound ==
    ASSUME NEW s, NEW e, Good(s, e), Calm(s), NEW c \in Command, NEW next, Legit(s, e, c, next),
           NEW r \in Write(s, c, next)
    PROVE  Sound(s, e, r)
<1>1. /\ Good(r.to, e) /\ Calm(r.to) /\ Later(s, r.to) /\ r.ok \in BOOLEAN
      /\ r.ok => r.to.mem = [s.mem EXCEPT ![c] = next]
      /\ ~r.ok => r.to.mem = s.mem /\ r.to.lane = s.lane
      /\ r.ok /\ next \notin Safe =>
            /\ r.to.lane = s.lane /\ r.to.slot = s.slot /\ r.to.ledger = [s.ledger EXCEPT ![c] = next]
            /\ \A d \in Command : r.to.flag[d] \ {"disposeFailed"} = s.flag[d] \ {"disposeFailed"}
  BY WriteRight, ZenonT(40)
<1> QED
  BY <1>1 DEF Sound

LEMMA SoundAfter ==
    ASSUME NEW s, NEW e, NEW t, Later(s, t), t.lane = s.lane, NEW r, Sound(t, e, r)
    PROVE  Sound(s, e, r)
  BY DEF Sound, Later

\* What may be written of a command that was never submitted, and of one that was.
LEMMA QueuedLegit ==
    ASSUME NEW s, Good(s, World), WorldRight, NEW c \in Command, s.mem[c] = "queued",
           NEW next \in Safe
    PROVE  Legit(s, World, c, next)
<1>1. c \notin started
  BY DEF Good, Truth, World
<1>2. proc[c] = "none" /\ view[c] = "absent"
  BY <1>1 DEF WorldRight
<1> QED
  BY <1>2, StatusApart DEF Legit, World

LEMMA ClaimedLegit ==
    ASSUME NEW s, NEW e, Good(s, e), NEW c \in Command, s.mem[c] \in Claimed,
           NEW next \in Claimed \cup Safe,
           next \in Safe => e.proc[c] # "alive" /\ e.view[c] # "running"
    PROVE  Legit(s, e, c, next)
<1>1. Row(s, c)
  BY DEF Good
<1>2. ~Waiting(s, c)
  BY StatusApart DEF Waiting
<1>3. Spared(s.lane, c)
  BY <1>2, SparedUnlessWaiting
<1>4. "launch" \notin s.flag[c] /\ s.slot[c] = "active"
  BY <1>1, StatusApart DEF Row
<1> QED
  BY <1>3, <1>4 DEF Legit

LEMMA SettledSound ==
    ASSUME NEW s, Good(s, World), Calm(s), WorldRight, NEW c \in Command,
           s.mem[c] \notin {None, "queued"}, NEW force, NEW r \in Settled(s, c, force)
    PROVE  Sound(s, World, r)
<1>1. CASE (("disposePending" \in s.flag[c] /\ ~force) \/ view[c] = "running")
  <2>1. r \in Kept(s)
    BY <1>1 DEF Settled
  <2> QED
    BY <2>1, KeptSound, LaterByFields
<1>2. CASE ~(("disposePending" \in s.flag[c] /\ ~force) \/ view[c] = "running") /\ s.mem[c] \in Safe
  <2>1. r \in Kept(Release(s, c))
    BY <1>2 DEF Settled
  <2>2. LET t == Release(s, c) IN
        Good(t, World) /\ Calm(t) /\ t.ledger = s.ledger /\ t.mem = s.mem
    BY ReleaseRight
  <2> QED
    BY <2>1, <2>2, KeptSound, LaterByFields
<1>3. CASE ~(("disposePending" \in s.flag[c] /\ ~force) \/ view[c] = "running") /\ s.mem[c] \notin Safe
  <2>1. r \in Write(s, c, StatusOf(view[c]))
    BY <1>3 DEF Settled
  <2>2. s.mem[c] \in Claimed
    BY <1>3, StatusApart DEF Good, Typed
  <2>3. StatusOf(view[c]) \in Claimed \cup Safe
    BY DEF StatusOf, StoppedView, Claimed, Safe
  <2>4. StatusOf(view[c]) \in Safe => view[c] = "stopped"
    BY DEF StatusOf, StoppedView, Safe
  <2>5. StatusOf(view[c]) \in Safe => proc[c] # "alive" /\ view[c] # "running"
    BY <2>4 DEF WorldRight
  <2>6. Legit(s, World, c, StatusOf(view[c]))
    BY <2>2, <2>3, <2>5, ClaimedLegit DEF World
  <2> QED
    BY <2>1, <2>6, WriteSound
<1> QED
  BY <1>1, <1>2, <1>3

LEMMA HandleFound ==
    ASSUME NEW s, NEW e, Good(s, e), Calm(s), NEW c \in Command, NEW G \in SUBSET {"handle", "attached"},
           "attached" \in G => s.mem[c] \notin {None, "queued"}
    PROVE  LET t == [s EXCEPT !.flag[c] = @ \cup G] IN
           Good(t, e) /\ Calm(t) /\ Beside(s, t) /\ t.lane = s.lane
<1> DEFINE F == [s.flag EXCEPT ![c] = @ \cup G]
           t == [s EXCEPT !.flag = F]
<1>1. Typed(s) /\ s.flag \in [Command -> SUBSET Flag]
  BY DEF Good, Typed
<1>2. /\ F \in [Command -> SUBSET Flag] /\ F[c] = s.flag[c] \cup G
      /\ \A d \in Command : d # c => F[d] = s.flag[d]
  BY <1>1 DEF Flag
<1>3. [s EXCEPT !.flag[c] = @ \cup G] = t
  OBVIOUS
<1> HIDE DEF F
<1>4. \A d \in Command : /\ "launch" \in F[d] => "launch" \in s.flag[d]
                         /\ "dispatching" \in s.flag[d] => "dispatching" \in F[d]
                         /\ "attached" \in F[d] =>
                               "attached" \in s.flag[d] \/ s.mem[d] \notin {None, "queued"}
  BY <1>2
<1>5. Good(t, e)
  BY <1>2, <1>4, FlagsMove
<1>6. Beside(s, t) /\ t.lane = s.lane
  BY <1>1, <1>2, FlagSet DEF Beside
<1> QED
  BY <1>3, <1>5, <1>6 DEF Calm

LEMMA EachSound ==
    ASSUME NEW s, Good(s, World), Calm(s), WorldRight, NEW c \in Command, s.mem[c] # None,
           NEW resolving, NEW r \in Each(s, c, resolving)
    PROVE  Sound(s, World, r)
<1>0. s.mem[c] \in {"queued"} \cup Claimed \cup Safe
  BY StatusApart DEF Good, Typed
<1>1. CASE s.mem[c] \in Safe
  <2>1. r \in Kept(Release(s, c))
    BY <1>1, StatusApart DEF Each
  <2>2. LET t == Release(s, c) IN
        Good(t, World) /\ Calm(t) /\ t.ledger = s.ledger /\ t.mem = s.mem
    BY ReleaseRight
  <2> QED
    BY <2>1, <2>2, KeptSound, LaterByFields
<1>2. CASE s.mem[c] = "queued"
  <2> DEFINE t == Aborted(s, {c})
  <2>0. /\ Good(t, World) /\ Beside(s, t) /\ t.lane = s.lane
    BY AbortedRight
  <2>1. \/ r \in Kept(s)
        \/ r \in Write(t, c, "cancelled")
        \/ r \in Write(s, c, "interrupted")
    BY <1>2, StatusApart DEF Each
  <2> HIDE DEF t
  <2>2. CASE r \in Kept(s)
    BY <2>2, KeptSound, LaterByFields
  <2>3. CASE r \in Write(t, c, "cancelled")
    <3>1. Legit(t, World, c, "cancelled")
      BY <1>2, <2>0, QueuedLegit DEF Beside, Safe
    <3>2. Calm(t) /\ Later(s, t)
      BY <2>0, LaterByFields DEF Calm, Beside
    <3>3. Sound(t, World, r)
      BY <2>0, <2>3, <3>1, <3>2, WriteSound
    <3> QED
      BY <2>0, <3>2, <3>3, SoundAfter
  <2>4. CASE r \in Write(s, c, "interrupted")
    <3>1. Legit(s, World, c, "interrupted")
      BY <1>2, QueuedLegit DEF Safe
    <3> QED
      BY <2>4, <3>1, WriteSound
  <2> QED
    BY <2>1, <2>2, <2>3, <2>4
<1>3. CASE s.mem[c] \in Claimed
  <2> DEFINE t == [s EXCEPT !.flag[c] = @ \cup {"handle", "attached"}]
  <2>0. s.mem[c] \notin {None, "queued"} /\ s.mem[c] \notin Safe
    BY <1>3, StatusApart
  <2>1. \/ r \in Kept(s)
        \/ r \in Settled(t, c, resolving)
        \/ r \in Write(s, c, "missing")
    BY <2>0 DEF Each
  <2>2. Good(t, World) /\ Calm(t) /\ Beside(s, t) /\ t.lane = s.lane
    BY <2>0, HandleFound
  <2> HIDE DEF t
  <2>3. CASE r \in Kept(s)
    BY <2>3, KeptSound, LaterByFields
  <2>4. CASE r \in Settled(t, c, resolving)
    <3>1. t.mem[c] \notin {None, "queued"}
      BY <2>0, <2>2 DEF Beside
    <3>2. Sound(t, World, r)
      BY <2>2, <2>4, <3>1, SettledSound
    <3>3. Later(s, t)
      BY <2>2, LaterByFields DEF Beside
    <3> QED
      BY <2>2, <3>2, <3>3, SoundAfter
  <2>5. CASE r \in Write(s, c, "missing")
    <3>1. "missing" \in Claimed /\ "missing" \notin Safe
      BY DEF Claimed, Safe
    <3>2. Legit(s, World, c, "missing")
      BY <1>3, <3>1, ClaimedLegit
    <3> QED
      BY <2>5, <3>2, WriteSound
  <2> QED
    BY <2>1, <2>3, <2>4, <2>5
<1> QED
  BY <1>0, <1>1, <1>2, <1>3

LEMMA RetainedRight ==
    ASSUME NEW s, NEW e, Good(s, e), NEW S
    PROVE  LET t == Retained(s, S) IN
           /\ Good(t, e) /\ t.lane = s.lane /\ t.flag = s.flag
           /\ t.ledger = s.ledger /\ t.mem = s.mem /\ t.ahead = s.ahead /\ t.pending = s.pending
           /\ \A c \in Command : t.slot[c] =
                 IF c \in S /\ s.ledger[c] \in Claimed THEN "active" ELSE s.slot[c]
<1> DEFINE O == [c \in Command |-> IF c \in S /\ s.ledger[c] \in Claimed THEN "active" ELSE s.slot[c]]
           t == [s EXCEPT !.slot = O]
<1>1. Retained(s, S) = t
  BY DEF Retained
<1>2. O \in [Command -> Place]
  BY DEF Good, Typed, Place
<1>3. \A c \in Command : O[c] = IF c \in S /\ s.ledger[c] \in Claimed THEN "active" ELSE s.slot[c]
  OBVIOUS
<1> HIDE DEF O
<1>4. \A c \in Command : s.slot[c] = "active" /\ O[c] # "active" =>
                s.mem[c] \in Safe /\ "launch" \notin s.flag[c]
  BY <1>3
<1>t. t = [s EXCEPT !.slot = O]
  OBVIOUS
<1> HIDE DEF t
<1>5. /\ Good(t, e) /\ t.slot = O /\ t.lane = s.lane
      /\ t.ledger = s.ledger /\ t.mem = s.mem /\ t.ahead = s.ahead /\ t.pending = s.pending
      /\ t.flag = s.flag
  BY <1>2, <1>4, <1>t, SlotsMove
<1> QED
  BY <1>1, <1>3, <1>5

\* After loading, the runtime knows every row.
LEMMA TakenRight ==
    ASSUME NEW s, NEW e, Good(s, e), Calm(s), NEW S, S = {c \in Command : s.ledger[c] # None}
    PROVE  LET t == Taken(s, S) IN
           /\ Good(t, e) /\ Later(s, t) /\ t.lane = s.lane /\ t.flag = s.flag
           /\ \A c \in Command : t.ledger[c] # None => t.mem[c] # None
           /\ t.ledger = s.ledger
<1> DEFINE u == Retained(s, S)
           M == [c \in Command |-> IF c \in S THEN u.ledger[c] ELSE u.mem[c]]
           A == [c \in Command |-> IF c \in S THEN 0 ELSE u.ahead[c]]
           P == [c \in Command |-> IF c \in S THEN None ELSE u.pending[c]]
           t1 == [u EXCEPT !.mem = M]
           t2 == [t1 EXCEPT !.ahead = [c \in Command |-> IF c \in S THEN 0 ELSE @[c]]]
           t == [t2 EXCEPT !.pending = [c \in Command |-> IF c \in S THEN None ELSE @[c]]]
<1>u. /\ Good(u, e) /\ u.lane = s.lane /\ u.flag = s.flag
      /\ u.ledger = s.ledger /\ u.mem = s.mem /\ u.ahead = s.ahead /\ u.pending = s.pending
      /\ \A c \in Command : u.slot[c] =
            IF c \in S /\ s.ledger[c] \in Claimed THEN "active" ELSE s.slot[c]
  BY RetainedRight
<1>1. Taken(s, S) = t
  <2>1. Taken(s, S) = [u EXCEPT !.mem = [c \in Command |-> IF c \in S THEN s.ledger[c] ELSE @[c]],
            !.ahead = [c \in Command |-> IF c \in S THEN 0 ELSE @[c]],
            !.pending = [c \in Command |-> IF c \in S THEN None ELSE @[c]]]
    BY DEF Taken
  <2> HIDE DEF u
  <2>2. M = [c \in Command |-> IF c \in S THEN s.ledger[c] ELSE u.mem[c]]
    BY <1>u
  <2>3. Taken(s, S) = [[[u EXCEPT !.mem = [c \in Command |-> IF c \in S THEN s.ledger[c] ELSE u.mem[c]]]
                EXCEPT !.ahead = [c \in Command |-> IF c \in S THEN 0 ELSE @[c]]]
                EXCEPT !.pending = [c \in Command |-> IF c \in S THEN None ELSE @[c]]]
    BY <2>1
  <2> QED
    BY <2>2, <2>3
<1> HIDE DEF u
<1>2. /\ Typed(u) /\ M \in [Command -> Status \cup {None}] /\ A \in [Command -> Nat]
      /\ P \in [Command -> Status \cup {None}]
  BY <1>u DEF Good, Typed
<1>3. \A c \in Command : /\ M[c] = IF c \in S THEN u.ledger[c] ELSE u.mem[c]
                         /\ A[c] = IF c \in S THEN 0 ELSE u.ahead[c]
  OBVIOUS
<1> HIDE DEF M
<1>4. /\ Typed(t1) /\ t1.mem = M /\ t1.ledger = u.ledger /\ t1.ahead = u.ahead
      /\ t1.pending = u.pending /\ t1.slot = u.slot /\ t1.flag = u.flag /\ t1.lane = u.lane
  BY <1>2, MemSet
<1> HIDE DEF t1
<1>5. t2 = [t1 EXCEPT !.ahead = A]
  BY <1>4
<1> HIDE DEF t2, A
<1>6. /\ Typed(t2) /\ t2.mem = M /\ t2.ledger = u.ledger /\ t2.ahead = A
      /\ t2.pending = u.pending /\ t2.slot = u.slot /\ t2.flag = u.flag /\ t2.lane = u.lane
  BY <1>2, <1>4, <1>5, AheadSet
<1>7. t = [t2 EXCEPT !.pending = P]
  BY <1>6
<1> HIDE DEF t, P
<1>8. /\ Typed(t) /\ t.mem = M /\ t.ledger = u.ledger /\ t.ahead = A
      /\ t.slot = u.slot /\ t.flag = u.flag /\ t.lane = u.lane
  BY <1>2, <1>6, <1>7, PendingSet
<1>9. \A c \in Command : Row(u, c) /\ Truth(u, e, c)
  BY <1>u DEF Good
<1>10. ASSUME NEW c \in Command, u.ledger[c] = None
       PROVE  /\ Row(t, c) /\ Truth(t, e, c) /\ (Waiting(u, c) => Waiting(t, c))
              /\ u.mem[c] = None /\ t.mem[c] = None
  <2>1. c \notin S
    BY <1>u, <1>10
  <2>2. M[c] = u.mem[c] /\ A[c] = u.ahead[c]
    BY <1>3, <2>1
  <2>3. u.mem[c] = None
    BY <1>9, <1>10 DEF Row
  <2> QED
    BY <1>8, <1>9, <2>2, <2>3 DEF Row, Truth, Waiting
<1>11. ASSUME NEW c \in Command, u.ledger[c] # None
       PROVE  /\ Row(t, c) /\ Truth(t, e, c) /\ (Waiting(u, c) => Waiting(t, c))
              /\ t.mem[c] # None
              /\ u.mem[c] \notin {None, "queued"} => t.mem[c] \notin {None, "queued"}
              /\ t.mem[c] = "queued" => u.mem[c] \in {None, "queued"}
  <2>1. c \in S
    BY <1>u, <1>11
  <2>2. M[c] = u.ledger[c] /\ A[c] = 0
    BY <1>3, <2>1
  <2>3. /\ u.ledger[c] \in Status \cup {None} /\ u.mem[c] \in Status \cup {None}
    BY <1>2 DEF Typed
  <2>4. u.mem[c] \notin {None, "queued"} => u.ledger[c] \notin {None, "queued"}
    BY <1>9, <2>3, StatusApart DEF Row
  <2>5. u.ledger[c] \in Claimed => u.slot[c] = "active"
    BY <1>u, <2>1
  <2>6. Row(t, c)
    <3>1. "attached" \in u.flag[c] => u.mem[c] \notin {None, "queued"}
      BY <1>9 DEF Row
    <3>2. "launch" \in u.flag[c] => u.ledger[c] \notin Claimed
      BY <1>9 DEF Row
    <3> QED
      BY <1>8, <1>11, <2>2, <2>3, <2>4, <2>5, <3>1, <3>2, StatusApart DEF Row
  <2>7. Truth(t, e, c)
    BY <1>8, <1>9, <1>11, <2>2 DEF Truth
  <2>8. Waiting(u, c) => Waiting(t, c)
    <3>1. u.mem[c] \in Safe => u.ledger[c] \in Safe
      BY <1>9 DEF Row
    <3> QED
      BY <1>8, <1>11, <2>2, <2>3, <3>1, StatusApart DEF Waiting
  <2> QED
    BY <1>8, <1>11, <2>2, <2>4, <2>6, <2>7, <2>8
<1>12. ASSUME u.lane # <<>> PROVE HeadRight(t, e, u.lane[1])
  <2>1. u.lane[1].pc \in {"first", "each"} /\ HeadRight(u, e, u.lane[1])
        /\ u.lane[1].todo \subseteq Command
    BY <1>u, <1>12, LaneHead DEF Calm, JobRight, JobShape
  <2>2. \A c \in Command : /\ t.ledger[c] # None => t.mem[c] # None
                           /\ u.mem[c] # None => t.mem[c] # None
    BY <1>8, <1>10, <1>11
  <2> QED
    BY <2>1, <2>2 DEF HeadRight
<1>13. Good(t, e)
  <2>1. \A c \in Command : /\ Row(t, c) /\ Truth(t, e, c) /\ (Waiting(u, c) => Waiting(t, c))
                           /\ u.mem[c] # None => t.mem[c] # None
                           /\ u.mem[c] \notin {None, "queued"} => t.mem[c] \notin {None, "queued"}
    BY <1>10, <1>11
  <2>2. /\ Good(u, e) /\ Typed(t) /\ t.lane = u.lane
        /\ \A c \in Command : "launch" \in t.flag[c] => "launch" \in u.flag[c]
    BY <1>u, <1>8
  <2> QED
    BY <1>12, <2>1, <2>2, RowsMove
<1>14. \A c \in Command : t.ledger[c] # None => t.mem[c] # None
  BY <1>8, <1>11
<1>15. Later(s, t)
  BY <1>u, <1>8, <1>10, <1>11 DEF Later
<1> QED
  BY <1>1, <1>u, <1>8, <1>13, <1>14, <1>15

-----------------------------------------------------------------------------
(* A step leaves a state t and a world. *)

LEMMA NowIs ==
    ASSUME NEW t, Typed(t), Become(t)
    PROVE  Now' = t
  BY DEF Typed, Become, Now

LEMMA GoodNext ==
    ASSUME NEW t, NEW n, Good(t, n), Now' = t, World' = n
    PROVE  Good(Now, World)'
  BY DEF Good

LEMMA WorldSame ==
    ASSUME UNCHANGED <<proc, view, started, woken, closed>>,
           stopper'["dispose"].pc = stopper["dispose"].pc
    PROVE  World' = World
  BY DEF World

\* One call goes on.
LEMMA StopperMoves ==
    ASSUME StopperRight, NEW t, Later(Now, t), Now' = t, NEW d \in Stopper, NEW k,
           stopper' = [stopper EXCEPT ![d] = k],
           CallShape(k), d = "resume" => k.pc # "stop",
           \A c \in Command : /\ k.stage[c] = "stop" => t.mem[c] # None
                              /\ k.stage[c] = "await" => t.mem[c] \notin {None, "queued"}
    PROVE  /\ StopperRight'
           /\ stopper'[d] = k /\ \A x \in Stopper : x # d => stopper'[x] = stopper[x]
<1>1. /\ stopper' = [x \in Stopper |-> stopper'[x]]
      /\ stopper'[d] = k /\ \A x \in Stopper : x # d => stopper'[x] = stopper[x]
  BY DEF StopperRight
<1>2. mem' = t.mem
  BY DEF Now
<1>3. \A x \in Stopper : CallShape(stopper'[x])
  BY <1>1 DEF StopperRight
<1>4. "resume" \in Stopper
  BY DEF Stopper
<1>5. stopper'["resume"].pc # "stop"
  BY <1>1, <1>4 DEF StopperRight
<1>6. \A x \in Stopper : \A c \in Command :
          /\ stopper'[x].stage[c] = "stop" => mem'[c] # None
          /\ stopper'[x].stage[c] = "await" => mem'[c] \notin {None, "queued"}
  BY <1>1, <1>2 DEF StopperRight, Later, Now
<1> QED
  BY <1>1, <1>3, <1>5, <1>6 DEF StopperRight, CallShape

LEMMA StopperStays ==
    ASSUME StopperRight, NEW t, Later(Now, t), Now' = t, UNCHANGED stopper
    PROVE  StopperRight'
<1>1. mem' = t.mem
  BY DEF Now
<1>2. \A x \in Stopper : \A c \in Command :
          /\ stopper[x].stage[c] = "stop" => mem'[c] # None
          /\ stopper[x].stage[c] = "await" => mem'[c] \notin {None, "queued"}
  BY <1>1 DEF StopperRight, Later, Now
<1> QED
  BY <1>2 DEF StopperRight, CallShape

\* What a disposal knows, when its own call is k afterwards.
LEMMA DisposalMoves ==
    ASSUME DisposalRight, NEW t, NEW e, Good(t, e), Later(Now, t), Now' = t,
           closed => closed', UNCHANGED disposed,
           stopper'["dispose"].pc # "idle" => closed',
           stopper'["dispose"].pc = "cancel" =>
              \A c \in Command :
                 /\ t.ledger[c] # None => t.mem[c] # None
                 /\ t.mem[c] = "queued" => stopper'["dispose"].stage[c] \in {"job", "failed"}
    PROVE  DisposalRight'
<1>1. mem' = t.mem /\ ledger' = t.ledger
  BY DEF Now
<1>2. disposed => \A c \in Command : t.ledger[c] \in {None} \cup Safe
  BY DEF DisposalRight, Later, Now
<1> QED
  BY <1>1, <1>2 DEF DisposalRight

\* The calls of a disposal that cancels, when they did not change.
LEMMA DisposalKnows ==
    ASSUME DisposalRight, NEW t, NEW e, Good(t, e), Later(Now, t),
           stopper["dispose"].pc = "cancel", NEW c \in Command
    PROVE  /\ t.ledger[c] # None => t.mem[c] # None
           /\ t.mem[c] = "queued" => stopper["dispose"].stage[c] \in {"job", "failed"}
<1>1. /\ ledger[c] = None => t.ledger[c] = None
      /\ mem[c] # None => t.mem[c] # None
      /\ t.mem[c] = "queued" => mem[c] \in {None, "queued"}
  BY DEF Later, Now
<1>2. /\ ledger[c] # None => mem[c] # None
      /\ mem[c] = "queued" => stopper["dispose"].stage[c] \in {"job", "failed"}
  BY DEF DisposalRight
<1>3. Row(t, c)
  BY DEF Good
<1> QED
  BY <1>1, <1>2, <1>3 DEF Row, None

\* The state and the world go on and no call does.
LEMMA OnwardWorld ==
    ASSUME IInv, NEW t, Good(t, World'), Later(Now, t), Become(t), WorldRight',
           UNCHANGED <<closed, disposed, stopper>>
    PROVE  IInv'
<1>1. Now' = t
  BY NowIs DEF Good
<1>2. Good(Now, World)'
  BY <1>1, GoodNext
<1>3. StopperRight'
  BY <1>1, StopperStays DEF IInv
<1>4. DisposalRight'
  <2>1. DisposalRight
    BY DEF IInv
  <2>2. Good(Now, World)
    BY DEF IInv
  <2>3. stopper["dispose"].pc # "idle" => closed
    BY <2>1 DEF DisposalRight
  <2>4. stopper["dispose"].pc = "cancel" =>
          \A c \in Command : /\ t.ledger[c] # None => t.mem[c] # None
                             /\ t.mem[c] = "queued" => stopper["dispose"].stage[c] \in {"job", "failed"}
    BY <2>1, DisposalKnows
  <2> QED
    BY <1>1, <2>1, <2>3, <2>4, DisposalMoves
<1> QED
  BY <1>2, <1>3, <1>4 DEF IInv

\* The state goes on, the world and the calls do not.
LEMMA Onward ==
    ASSUME IInv, NEW t, Good(t, World), Later(Now, t), Become(t),
           UNCHANGED <<proc, view, started, woken, closed, disposed, stopper>>
    PROVE  IInv'
<1>1. World' = World
  BY WorldSame
<1>2. WorldRight'
  BY DEF IInv, WorldRight
<1> QED
  BY <1>1, <1>2, OnwardWorld

\* While the runtime is open no disposal knows anything, and rows may appear.
LEMMA OnwardOpen ==
    ASSUME IInv, ~closed, NEW t, Good(t, World), Become(t),
           \A c \in Command : /\ mem[c] # None => t.mem[c] # None
                              /\ mem[c] \notin {None, "queued"} => t.mem[c] \notin {None, "queued"},
           UNCHANGED <<proc, view, started, woken, closed, disposed, stopper>>
    PROVE  IInv'
<1>1. Now' = t /\ World' = World
  BY NowIs, WorldSame DEF Good
<1>2. Good(Now, World)'
  BY <1>1, GoodNext
<1>3. WorldRight'
  BY DEF IInv, WorldRight
<1>4. mem' = t.mem
  BY <1>1 DEF Now
<1>5. StopperRight'
  <2>1. StopperRight
    BY DEF IInv
  <2>2. \A x \in Stopper : \A c \in Command :
          /\ stopper[x].stage[c] = "stop" => mem'[c] # None
          /\ stopper[x].stage[c] = "await" => mem'[c] \notin {None, "queued"}
    BY <1>4, <2>1 DEF StopperRight
  <2> QED
    BY <2>1, <2>2 DEF StopperRight, CallShape
<1>6. DisposalRight'
  BY DEF IInv, DisposalRight
<1> QED
  BY <1>2, <1>3, <1>5, <1>6 DEF IInv

\* The state goes on and a job reports to the call it belongs to.
LEMMA OnwardReport ==
    ASSUME IInv, NEW t, Good(t, World), Later(Now, t), Become(t),
           UNCHANGED <<proc, view, started, woken, closed, disposed>>,
           NEW d \in Stopper, NEW c \in Command, NEW k,
           stopper' = [stopper EXCEPT ![d] = k], CallShape(k), k.pc = stopper[d].pc,
           \A x \in Command : x # c => k.stage[x] = stopper[d].stage[x],
           k.stage[c] # "stop", k.stage[c] = "await" => t.mem[c] \notin {None, "queued"},
           t.mem[c] # "queued" \/ k.stage[c] \in {"job", "failed"}
    PROVE  IInv'
<1>1. Now' = t
  BY NowIs DEF Good
<1>2. StopperRight /\ DisposalRight
  BY DEF IInv
<1>3. d = "resume" => k.pc # "stop"
  BY <1>2 DEF StopperRight
<1>4. \A x \in Command : /\ k.stage[x] = "stop" => t.mem[x] # None
                         /\ k.stage[x] = "await" => t.mem[x] \notin {None, "queued"}
  BY <1>2 DEF StopperRight, Later, Now
<1>5. /\ StopperRight'
      /\ stopper'[d] = k /\ \A x \in Stopper : x # d => stopper'[x] = stopper[x]
  BY <1>1, <1>2, <1>3, <1>4, StopperMoves
<1>6. stopper'["dispose"].pc = stopper["dispose"].pc
  BY <1>5 DEF Stopper
<1>7. World' = World
  BY <1>6, WorldSame
<1>8. Good(Now, World)'
  BY <1>1, <1>7, GoodNext
<1>9. WorldRight'
  BY DEF IInv, WorldRight
<1>10. DisposalRight'
  <2>1. stopper'["dispose"].pc # "idle" => closed
    BY <1>2, <1>6 DEF DisposalRight
  <2>2. ASSUME stopper'["dispose"].pc = "cancel", NEW x \in Command
        PROVE  /\ t.ledger[x] # None => t.mem[x] # None
               /\ t.mem[x] = "queued" => stopper'["dispose"].stage[x] \in {"job", "failed"}
    <3>1. /\ t.ledger[x] # None => t.mem[x] # None
          /\ t.mem[x] = "queued" => stopper["dispose"].stage[x] \in {"job", "failed"}
      BY <1>2, <1>6, <2>2, DisposalKnows
    <3>2. stopper'["dispose"].stage[x] = stopper["dispose"].stage[x] \/ (d = "dispose" /\ x = c)
      BY <1>5 DEF Stopper
    <3> QED
      BY <1>5, <3>1, <3>2
  <2> QED
    BY <1>1, <1>2, <2>1, <2>2, DisposalMoves
<1> QED
  BY <1>5, <1>8, <1>9, <1>10 DEF IInv

-----------------------------------------------------------------------------
(* The job at the head: it serves the next command, or is over. *)

LEMMA NowFields ==
    /\ Now.ledger = ledger /\ Now.mem = mem /\ Now.ahead = ahead /\ Now.pending = pending
    /\ Now.slot = slot /\ Now.flag = flag /\ Now.lane = lane /\ Now.quarantine = quarantine
  BY DEF Now

LEMMA HeadIsRight ==
    ASSUME Good(Now, World), lane # <<>>
    PROVE  /\ JobRight(Now, Head1) /\ HeadRight(Now, World, Head1) /\ JobShape(Head1)
           /\ Len(lane) \in Nat \ {0} /\ 1 \in 1..Len(lane)
<1>1. /\ Len(lane) \in Nat \ {0} /\ 1 \in 1..Len(lane)
      /\ JobRight(Now, lane[1]) /\ HeadRight(Now, World, lane[1])
  BY NowFields, LaneHead
<1>2. Head1 = lane[1]
  BY DEF Head1
<1>3. JobShape(lane[1])
  BY <1>1 DEF JobRight
<1> QED
  BY <1>1, <1>2, <1>3

LEMMA PoppedRight ==
    ASSUME Good(Now, World), lane # <<>>
    PROVE  /\ Good(Popped, World) /\ Beside(Now, Popped) /\ Popped.flag = flag /\ Calm(Popped)
           /\ Popped.lane = Tail(lane) /\ (Tail(lane) # <<>> => Tail(lane)[1].pc = "first")
           /\ \A c \in Command : Spared(lane, c) => Spared(Tail(lane), c)
           /\ \A c \in Command : Dispatches(lane, 1, c) => Spared(Tail(lane), c)
<1> DEFINE t == [Now EXCEPT !.lane = Tail(Now.lane)]
<1>1. Popped = t
  BY DEF Popped
<1>2. Good(t, World)
  BY NowFields, JobLeaves
<1>3. Beside(Now, t) /\ t.flag = flag /\ t.lane = Tail(lane)
  BY NowFields, LaneSet DEF Good, Beside
<1>4. /\ Len(lane) \in Nat \ {0} /\ Len(Tail(lane)) = Len(lane) - 1
      /\ \A i \in 1..Len(Tail(lane)) : Tail(lane)[i] = lane[i + 1]
  BY NowFields, TailIsSeq DEF Good, LaneRight
<1>5. \A i \in 1..Len(Tail(lane)) : i + 1 \in 1..Len(lane) /\ i + 1 # 1
  BY <1>4
<1>6. Calm(t) /\ (Tail(lane) # <<>> => Tail(lane)[1].pc = "first")
  <2> SUFFICES ASSUME Tail(lane) # <<>> PROVE Tail(lane)[1].pc = "first"
    BY <1>3 DEF Calm
  <2>1. 1 \in 1..Len(Tail(lane))
    BY <1>2, <1>3, LaneHead
  <2> QED
    BY <1>4, <1>5, <2>1, NowFields DEF Good, LaneRight
<1>7. \A c \in Command : Spared(lane, c) => Spared(Tail(lane), c)
  BY <1>4, <1>5 DEF Spared, Dispatches
<1>8. ASSUME NEW c \in Command, Dispatches(lane, 1, c) PROVE Spared(Tail(lane), c)
  <2>1. \A i \in 1..Len(lane) : Dispatches(lane, i, c) => i = 1
    BY <1>4, <1>8, NowFields DEF Good, LaneRight
  <2> QED
    BY <1>4, <1>5, <2>1 DEF Spared, Dispatches
<1> HIDE DEF t
<1> QED
  BY <1>1, <1>2, <1>3, <1>6, <1>7, <1>8

\* The head of the lane is at another point.
LEMMA FrontRight ==
    ASSUME NEW s, NEW e, Good(s, e), s.lane # <<>>, NEW j, JobRight(s, j),
           j.kind = s.lane[1].kind, j.by = s.lane[1].by,
           j.kind = "dispatch" => j.todo \subseteq s.lane[1].todo
    PROVE  /\ Beside(s, Front(s, j)) /\ Front(s, j).flag = s.flag /\ Front(s, j).lane[1] = j
           /\ Front(s, j).lane # <<>> /\ Len(Front(s, j).lane) = Len(s.lane)
           /\ \A i \in 1..Len(s.lane) : i # 1 => Front(s, j).lane[i] = s.lane[i]
           /\ \A c \in Command : c \notin j.todo /\ Spared(s.lane, c) => Spared(Front(s, j).lane, c)
           /\ \A c \in Command : c \notin j.todo /\ Dispatches(s.lane, 1, c)
                                    => Spared(Front(s, j).lane, c)
<1> DEFINE q == [s.lane EXCEPT ![1] = j]
           t == [s EXCEPT !.lane = q]
<1>1. Front(s, j) = t
  BY DEF Front
<1>2. /\ q # <<>> /\ Len(q) = Len(s.lane) /\ Len(s.lane) \in Nat \ {0} /\ q[1] = j
      /\ \A i \in 1..Len(s.lane) : i # 1 => q[i] = s.lane[i]
  BY FrontIsSeq DEF Good, LaneRight
<1>3. Beside(s, t) /\ t.flag = s.flag /\ t.lane = q
  BY LaneSet DEF Good, Beside
<1> HIDE DEF q, t
<1>4. \A c \in Command : c \notin j.todo /\ Spared(s.lane, c) => Spared(q, c)
  BY <1>2 DEF Spared, Dispatches
<1>5. ASSUME NEW c \in Command, c \notin j.todo, Dispatches(s.lane, 1, c) PROVE Spared(q, c)
  <2>1. \A i \in 1..Len(s.lane) : Dispatches(s.lane, i, c) => i = 1
    BY <1>2, <1>5 DEF Good, LaneRight
  <2> QED
    BY <1>2, <1>5, <2>1 DEF Spared, Dispatches
<1> QED
  BY <1>1, <1>2, <1>3, <1>4, <1>5

LEMMA ServedRight ==
    ASSUME Good(Now, World), lane # <<>>, Head1.kind \in {"dispatch", "cancel"},
           NEW S \in SUBSET Head1.todo
    PROVE  LET t == Served(S) IN
           /\ Good(t, World) /\ Beside(Now, t) /\ t.flag = flag /\ Calm(t)
           /\ \A c \in Command : c \notin S /\ Spared(lane, c) => Spared(t.lane, c)
           /\ \A c \in Command : c \notin S /\ Dispatches(lane, 1, c) => Spared(t.lane, c)
<1>1. CASE S = {}
  <2>1. Served(S) = Popped
    BY <1>1 DEF Served
  <2> QED
    BY <2>1, PoppedRight
<1>2. CASE S # {}
  <2> DEFINE i == [Head1 EXCEPT !.pc = "first"]
             j == [i EXCEPT !.todo = S]
  <2>1. Served(S) = Front(Now, j)
    BY <1>2 DEF Served
  <2>9. i = [Head1 EXCEPT !.pc = "first"]
    OBVIOUS
  <2> HIDE DEF i
  <2>10. j = [i EXCEPT !.todo = S]
    OBVIOUS
  <2> HIDE DEF j
  <2>2. JobRight(Now, Head1) /\ JobShape(Head1) /\ S \in SUBSET Command
    BY HeadIsRight DEF JobShape
  <2>3. JobShape(j) /\ j.kind = Head1.kind /\ j.cmd = Head1.cmd /\ j.pc = "first"
        /\ j.by = Head1.by /\ j.todo = S
    BY <2>2, <2>9, <2>10 DEF JobShape
  <2>4. JobRight(Now, j)
    BY <1>2, <2>2, <2>3 DEF JobRight
  <2>5. Now.lane # <<>> /\ Now.lane = lane /\ Now.lane[1] = Head1
    BY NowFields DEF Head1
  <2>6. HeadRight(Front(Now, j), World, j)
    BY <2>3 DEF HeadRight
  <2>7. Good(Front(Now, j), World)
    BY <2>3, <2>4, <2>5, <2>6, JobMoves
  <2>8. /\ Beside(Now, Front(Now, j)) /\ Front(Now, j).flag = Now.flag
        /\ Front(Now, j).lane[1] = j
        /\ \A c \in Command : c \notin j.todo /\ Spared(Now.lane, c) => Spared(Front(Now, j).lane, c)
        /\ \A c \in Command : c \notin j.todo /\ Dispatches(Now.lane, 1, c)
                                    => Spared(Front(Now, j).lane, c)
    BY <2>3, <2>4, <2>5, FrontRight
  <2>11. Calm(Front(Now, j))
    BY <2>3, <2>8 DEF Calm
  <2> QED
    BY <2>1, <2>3, <2>5, <2>7, <2>8, <2>11, NowFields
<1> QED
  BY <1>1, <1>2

-----------------------------------------------------------------------------
(* A recovery is over. *)

LEMMA TailNoDispose ==
    ASSUME NEW s, NEW e, Good(s, e), s.lane # <<>>, OfDispose(s.lane[1])
    PROVE  e.recovering /\ \A k \in 1..Len(Tail(s.lane)) : ~OfDispose(Tail(s.lane)[k])
<1>1. /\ Len(s.lane) \in Nat \ {0} /\ Len(Tail(s.lane)) = Len(s.lane) - 1
      /\ \A i \in 1..Len(Tail(s.lane)) : Tail(s.lane)[i] = s.lane[i + 1]
  BY TailIsSeq DEF Good, LaneRight
<1>2. \A i \in 1..Len(Tail(s.lane)) : i + 1 \in 1..Len(s.lane) /\ i + 1 # 1
  BY <1>1
<1>3. e.recovering /\ \A k \in 1..Len(s.lane) : OfDispose(s.lane[k]) => k = 1
  BY <1>1 DEF Good, Single
<1> QED
  BY <1>1, <1>2, <1>3

LEMMA IdleShape ==
    /\ CallShape(Idle) /\ Idle.pc = "idle"
    /\ Idle.stage = [c \in Command |-> None] /\ Idle.first = [c \in Command |-> None]
  BY DEF Idle, CallShape

LEMMA CallAt ==
    ASSUME NEW k, CallShape(k), NEW p, NEW i, i = [k EXCEPT !.pc = p]
    PROVE  CallShape(i) /\ i.pc = p /\ i.late = k.late /\ i.first = k.first /\ i.stage = k.stage
  BY DEF CallShape

LEMMA CallLate ==
    ASSUME NEW k, CallShape(k), NEW x, NEW i, i = [k EXCEPT !.late = x]
    PROVE  CallShape(i) /\ i.pc = k.pc /\ i.late = x /\ i.first = k.first /\ i.stage = k.stage
  BY DEF CallShape

LEMMA RejectShape ==
    ASSUME NEW x
    PROVE  LET k == [Idle EXCEPT !.pc = "reject", !.late = x] IN
           CallShape(k) /\ k.pc = "reject" /\ \A c \in Command : k.stage[c] = None
<1> DEFINE i == [Idle EXCEPT !.pc = "reject"]
           k == [i EXCEPT !.late = x]
<1>1. i = [Idle EXCEPT !.pc = "reject"]
  OBVIOUS
<1> HIDE DEF i
<1>2. k = [i EXCEPT !.late = x]
  OBVIOUS
<1> HIDE DEF k
<1>3. CallShape(i) /\ i.pc = "reject" /\ i.stage = Idle.stage
  BY <1>1, IdleShape, CallAt
<1>4. CallShape(k) /\ k.pc = i.pc /\ k.stage = i.stage
  BY <1>2, <1>3, CallLate
<1>5. CallShape(k) /\ k.pc = "reject" /\ \A c \in Command : k.stage[c] = None
  BY <1>3, <1>4, IdleShape
<1>6. [Idle EXCEPT !.pc = "reject", !.late = x] = k
  BY DEF i, k
<1> QED
  BY <1>5, <1>6

\* A disposal leaves its recovery behind, and knows every row when it cancels.
Knows(s, k) ==
    \A c \in Command : /\ s.ledger[c] # None => s.mem[c] # None
                       /\ s.mem[c] = "queued" => k.stage[c] \in {"job", "failed"}

Leaves(s, k) ==
    /\ stopper["dispose"].pc \notin {"idle", "stop"}
    /\ \A i \in 1..Len(s.lane) : ~OfDispose(s.lane[i])
    /\ k.pc = "cancel" => Knows(s, k)

\* A call is over, or cancels what it found.
LEMMA CallGoes ==
    ASSUME IInv, NEW s, Good(s, World), Later(Now, s), Become(s),
           UNCHANGED <<proc, view, started, woken, closed, disposed>>,
           NEW d \in Stopper, NEW k, stopper' = [stopper EXCEPT ![d] = k], CallShape(k),
           k.pc \notin {"stop", "recover"},
           \A c \in Command : k.stage[c] \notin {"stop", "await"},
           d = "dispose" => Leaves(s, k)
    PROVE  IInv'
<1>1. StopperRight /\ DisposalRight /\ WorldRight
  BY DEF IInv
<1>2. Now' = s
  BY NowIs DEF Good
<1>3. /\ StopperRight'
      /\ stopper'[d] = k /\ \A x \in Stopper : x # d => stopper'[x] = stopper[x]
  <2>1. d = "resume" => k.pc # "stop"
    OBVIOUS
  <2>2. \A c \in Command : /\ k.stage[c] = "stop" => s.mem[c] # None
                           /\ k.stage[c] = "await" => s.mem[c] \notin {None, "queued"}
    OBVIOUS
  <2>3. /\ StopperRight'
        /\ stopper'[d] = k /\ \A x \in Stopper : x # d => stopper'[x] = stopper[x]
    BY <1>1, <1>2, <2>1, <2>2, StopperMoves, ZenonT(40)
  <2> QED
    BY <2>3
<1>4. /\ stopper'["dispose"] = IF d = "dispose" THEN k ELSE stopper["dispose"]
      /\ d = "dispose" => closed
  BY <1>1, <1>3 DEF Stopper, DisposalRight, Leaves
<1>5. Good(s, World')
  <2>1. CASE d = "dispose"
    <3>1. /\ World'.started = World.started /\ World'.woken = World.woken
          /\ World'.proc = World.proc /\ World'.view = World.view /\ World'.closed = World.closed
          /\ World'.drained = World.drained
      BY <1>4, <2>1 DEF World, Leaves
    <3>2. \A c \in Command : s.ledger[c] \in Safe
              => World.proc[c] # "alive" /\ World.view[c] # "running"
      BY DEF Good, Truth
    <3> QED
      BY <2>1, <3>1, <3>2, WorldMoves DEF Leaves
  <2>2. CASE d # "dispose"
    BY <1>4, <2>2, WorldSame
  <2> QED
    BY <2>1, <2>2
<1>6. Good(Now, World)'
  BY <1>2, <1>5, GoodNext
<1>7. WorldRight'
  BY <1>1 DEF WorldRight
<1>8. DisposalRight'
  <2>1. stopper'["dispose"].pc # "idle" => closed
    BY <1>1, <1>4 DEF DisposalRight
  <2>2. ASSUME stopper'["dispose"].pc = "cancel", NEW x \in Command
        PROVE  /\ s.ledger[x] # None => s.mem[x] # None
               /\ s.mem[x] = "queued" => stopper'["dispose"].stage[x] \in {"job", "failed"}
    <3>1. CASE d = "dispose"
      <4>1. stopper'["dispose"] = k /\ k.pc = "cancel" /\ Leaves(s, k)
        BY <1>4, <2>2, <3>1
      <4> QED
        <5>1. Knows(s, k)
          BY <4>1 DEF Leaves
        <5>2. s.ledger[x] # None => s.mem[x] # None
          BY <2>2, <5>1 DEF Knows
        <5>3. s.mem[x] = "queued" => k.stage[x] \in {"job", "failed"}
          BY <2>2, <5>1 DEF Knows
        <5> QED
          BY <4>1, <5>2, <5>3
    <3>2. CASE d # "dispose"
      BY <1>1, <1>4, <2>2, <3>2, DisposalKnows
    <3> QED
      BY <3>1, <3>2
  <2> QED
    BY <1>1, <1>2, <2>1, <2>2, DisposalMoves
<1> QED
  BY <1>3, <1>6, <1>7, <1>8 DEF IInv

\* The call that asked for a recovery is told that it failed.
LEMMA EndFails ==
    ASSUME IInv, NEW s, Good(s, World), Later(Now, s), NEW d \in Stopper \cup {None}, Head1.by = d,
           d = "dispose" => /\ stopper["dispose"].pc = "recover"
                            /\ \A i \in 1..Len(s.lane) : ~OfDispose(s.lane[i]),
           EndRecover(s, FALSE), UNCHANGED <<proc, view, started, woken, closed, disposed>>
    PROVE  IInv'
<1>1. CASE d = None
  <2>1. Become(s) /\ UNCHANGED stopper
    BY <1>1 DEF EndRecover, AfterRecover
  <2> QED
    BY <2>1, Onward
<1>2. CASE d # None
  <2> DEFINE k == IF d = "dispose" THEN [Idle EXCEPT !.pc = "reject", !.late = stopper[d].late] ELSE Idle
  <2>1. Become(s) /\ stopper' = [stopper EXCEPT ![d] = k]
    BY <1>2 DEF EndRecover, AfterRecover
  <2>2. /\ CallShape(k) /\ k.pc = (IF d = "dispose" THEN "reject" ELSE "idle")
        /\ \A c \in Command : k.stage[c] = None
    <3>1. CASE d = "dispose"
      <4>1. k = [Idle EXCEPT !.pc = "reject", !.late = stopper[d].late]
        BY <3>1
      <4> HIDE DEF k
      <4>2. LET j == [Idle EXCEPT !.pc = "reject", !.late = stopper[d].late] IN
            CallShape(j) /\ j.pc = "reject" /\ \A c \in Command : j.stage[c] = None
        BY RejectShape
      <4> QED
        BY <3>1, <4>1, <4>2
    <3>2. CASE d # "dispose"
      BY <3>2, IdleShape
    <3> QED
      BY <3>1, <3>2
  <2> HIDE DEF k
  <2>3. d \in Stopper
    BY <1>2
  <2>4. k.pc \notin {"stop", "recover", "cancel"}
    BY <2>2
  <2>5. \A c \in Command : k.stage[c] \notin {"stop", "await"}
    BY <2>2 DEF None
  <2>6. d = "dispose" => Leaves(s, k)
    BY <2>4 DEF Leaves
  <2> QED
    BY <2>1, <2>2, <2>3, <2>4, <2>5, <2>6, CallGoes
<1> QED
  BY <1>1, <1>2

\* A recovery that found every row is over: the call admits again, or cancels.
LEMMA EndOk ==
    ASSUME IInv, lane # <<>>, Head1.kind = "recover", Head1.pc = "each",
           EndRecover(Popped, TRUE), UNCHANGED <<proc, view, started, woken, closed, disposed>>
    PROVE  IInv'
<1> DEFINE d == Head1.by
<1>1. Good(Now, World) /\ StopperRight /\ DisposalRight
  BY DEF IInv
<1>2. /\ Good(Popped, World) /\ Beside(Now, Popped) /\ Popped.flag = flag /\ Calm(Popped)
      /\ Popped.lane = Tail(lane)
  BY <1>1, PoppedRight
<1>3. JobRight(Now, Head1) /\ HeadRight(Now, World, Head1)
  BY <1>1, HeadIsRight
<1>4. d \in Stopper /\ d # None /\ \A c \in Command : ledger[c] # None => mem[c] # None
  BY <1>3, NowFields DEF JobRight, HeadRight, Stopper, None
<1>5. d = "dispose" => /\ stopper["dispose"].pc = "recover"
                       /\ \A i \in 1..Len(Popped.lane) : ~OfDispose(Popped.lane[i])
  <2> SUFFICES ASSUME d = "dispose"
               PROVE  /\ stopper["dispose"].pc = "recover"
                      /\ \A i \in 1..Len(Popped.lane) : ~OfDispose(Popped.lane[i])
    OBVIOUS
  <2>1. OfDispose(Now.lane[1]) /\ Now.lane # <<>> /\ Now.lane = lane
    BY NowFields DEF OfDispose, Head1
  <2>2. World.recovering /\ \A k \in 1..Len(Tail(lane)) : ~OfDispose(Tail(lane)[k])
    BY <1>1, <2>1, TailNoDispose
  <2> QED
    BY <1>2, <2>2 DEF World
<1>7. CASE d = "resume"
  <2> DEFINE F == [c \in Command |-> flag[c] \ {"disposeFailed"}]
             r == [Popped EXCEPT !.flag = F]
             s == [r EXCEPT !.quarantine = FALSE]
  <2>1. [Popped EXCEPT !.flag = [c \in Command |-> @[c] \ {"disposeFailed"}], !.quarantine = FALSE] = s
    <3>1. [Popped EXCEPT !.flag = [c \in Command |-> @[c] \ {"disposeFailed"}], !.quarantine = FALSE]
            = [Popped EXCEPT !.flag = [c \in Command |-> Popped.flag[c] \ {"disposeFailed"}],
                             !.quarantine = FALSE]
      OBVIOUS
    <3>2. F = [c \in Command |-> Popped.flag[c] \ {"disposeFailed"}]
      BY <1>2
    <3> HIDE DEF F
    <3>3. [Popped EXCEPT !.flag = F, !.quarantine = FALSE] = s
      OBVIOUS
    <3> QED
      BY <3>1, <3>2, <3>3
  <2>2. Become(Admit(s, Command)) /\ stopper' = [stopper EXCEPT !["resume"] = Idle]
    <3> HIDE DEF s
    <3> QED
      BY <1>4, <1>7, <2>1 DEF EndRecover, AfterRecover
  <2>3. F \in [Command -> SUBSET Flag]
    BY <1>1, NowFields DEF Good, Typed
  <2>4. \A c \in Command : /\ "launch" \in F[c] => "launch" \in Popped.flag[c]
                           /\ "dispatching" \in Popped.flag[c] => "dispatching" \in F[c]
                           /\ "attached" \in F[c] => "attached" \in Popped.flag[c]
    BY <1>2
  <2>5. \A c \in Command : F[c] \subseteq flag[c]
    OBVIOUS
  <2> HIDE DEF F
  <2>6. Good(r, World) /\ Typed(r)
    <3>1. \A c \in Command : "attached" \in F[c] =>
               "attached" \in Popped.flag[c] \/ Popped.mem[c] \notin {None, "queued"}
      BY <2>4
    <3> QED
      BY <1>2, <2>3, <2>4, <3>1, FlagsMove DEF Good
  <2>7. r.flag = F /\ Beside(Popped, r) /\ r.lane = Popped.lane
    BY <1>2, <2>3, FlagSet DEF Beside, Good
  <2> HIDE DEF r
  <2>8. /\ Typed(s) /\ s.flag = F /\ s.lane = Popped.lane
        /\ s.ledger = r.ledger /\ s.mem = r.mem /\ s.ahead = r.ahead /\ s.pending = r.pending
        /\ s.slot = r.slot /\ s.flag = r.flag /\ s.lane = r.lane
    BY <2>6, <2>7, QuarantineSet
  <2> HIDE DEF s
  <2>9. Good(s, World)
    <3>1. \A c \in Command : Row(s, c) /\ Truth(s, World, c)
      BY <2>6, <2>8 DEF Good, Row, Truth
    <3>2. \A c \in Command : Waiting(r, c) => Waiting(s, c)
      BY <2>8 DEF Waiting
    <3>3. ASSUME r.lane # <<>> PROVE HeadRight(s, World, r.lane[1])
      <4>1. HeadRight(r, World, r.lane[1])
        BY <2>6, <3>3 DEF Good
      <4> QED
        BY <2>8, <4>1 DEF HeadRight
    <3> QED
      BY <2>6, <2>8, <3>1, <3>2, <3>3, RowsMove
  <2>10. \A c \in Command : "launch" \notin s.flag[c]
    <3>1. Now.lane[1].kind = "recover" /\ Now.lane[1].by = "resume" /\ 1 \in 1..Len(Now.lane)
      BY <1>1, <1>7, HeadIsRight, NowFields DEF Head1
    <3>2. \A c \in Command : "launch" \notin flag[c]
      BY <1>1, <3>1, NowFields DEF Good, Fence
    <3> QED
      BY <2>5, <2>8, <3>2
  <2>11. Good(Admit(s, Command), World) /\ Beside(s, Admit(s, Command))
    BY <2>9, <2>10, AdmitRight
  <2>12. Later(Now, Admit(s, Command))
    <3>1. Admit(s, Command).ledger = Now.ledger /\ Admit(s, Command).mem = Now.mem
      BY <1>2, <2>7, <2>8, <2>11 DEF Beside
    <3> QED
      BY <3>1, LaterByFields
  <2>13. "resume" \in Stopper /\ "resume" # "dispose"
    BY DEF Stopper
  <2>14. /\ CallShape(Idle) /\ Idle.pc \notin {"stop", "recover"}
         /\ \A c \in Command : Idle.stage[c] \notin {"stop", "await"}
    BY IdleShape DEF None
  <2> QED
    BY <2>2, <2>11, <2>12, <2>13, <2>14, CallGoes
<1>8. CASE d # "resume"
  <2> DEFINE S == IF d = "tool" THEN {c \in Command : stopper[d].stage[c] = "mine"}
                                        \cap {c \in Command : Popped.mem[c] # None}
                  ELSE {c \in Command : Popped.mem[c] # None}
             G == [c \in Command |-> IF c \in S THEN "job" ELSE None]
             i == [stopper[d] EXCEPT !.pc = "cancel"]
             k == [i EXCEPT !.stage = G]
  <2>1. /\ Become(Cancels(Popped, d, S))
        /\ stopper' = [stopper EXCEPT ![d].pc = "cancel", ![d].stage = G]
    BY <1>4, <1>8 DEF EndRecover, AfterRecover
  <2>2. S \in SUBSET Command /\ \A c \in S : Popped.mem[c] # None
    OBVIOUS
  <2>3. d = "dispose" => \A c \in Command : Popped.mem[c] # None => G[c] = "job"
    OBVIOUS
  <2>4. G = [c \in Command |-> G[c]] /\ \A c \in Command : G[c] \in {"job", None}
    OBVIOUS
  <2> HIDE DEF S, G
  <2>5. stopper' = [stopper EXCEPT ![d] = k]
    BY <2>1
  <2>6. CallShape(stopper[d])
    BY <1>1, <1>4 DEF StopperRight
  <2>7. CallShape(i) /\ i.pc = "cancel"
    BY <2>6, CallAt
  <2> HIDE DEF i
  <2>8. CallShape(k) /\ k.pc = "cancel" /\ k.stage = G
    BY <2>4, <2>7 DEF CallShape
  <2> HIDE DEF k
  <2>9. Good(Cancels(Popped, d, S), World) /\ Beside(Popped, Cancels(Popped, d, S))
    BY <1>2, <1>4, <2>2, CancelsRight
  <2>10. /\ Cancels(Popped, d, S).ledger = Now.ledger /\ Cancels(Popped, d, S).mem = Now.mem
    BY <1>2, <2>9 DEF Beside
  <2>11. Later(Now, Cancels(Popped, d, S))
    BY <2>10, LaterByFields
  <2>12. d = "dispose" => \A m \in 1..Len(Cancels(Popped, d, S).lane) :
                             ~OfDispose(Cancels(Popped, d, S).lane[m])
    <3> DEFINE n == [proc |-> proc, view |-> view, started |-> started, woken |-> woken,
                     closed |-> closed, drained |-> World.drained, recovering |-> FALSE]
    <3>1. /\ n.started = World.started /\ n.woken = World.woken
          /\ n.proc = World.proc /\ n.view = World.view /\ n.closed = World.closed
          /\ n.drained = World.drained /\ ~n.recovering
      BY DEF World
    <3> HIDE DEF n
    <3>2. \A c \in Command : Popped.ledger[c] \in Safe
              => World.proc[c] # "alive" /\ World.view[c] # "running"
      BY <1>2 DEF Good, Truth
    <3>3. ASSUME d = "dispose"
          PROVE  \A m \in 1..Len(Cancels(Popped, d, S).lane) : ~OfDispose(Cancels(Popped, d, S).lane[m])
      <4>1. Good(Popped, n)
        BY <1>2, <1>5, <3>1, <3>2, <3>3, WorldMoves
      <4>2. Good(Cancels(Popped, d, S), n)
        BY <1>4, <2>2, <4>1, CancelsRight
      <4> QED
        BY <3>1, <4>2 DEF Good, Single
    <3> QED
      BY <3>3
  <2>13. d = "dispose" => Leaves(Cancels(Popped, d, S), k)
    <3>1. d = "dispose" => \A c \in Command : mem[c] # None => k.stage[c] = "job"
      BY <1>2, <2>3, <2>8, NowFields DEF Beside
    <3>2. d = "dispose" => \A c \in Command :
             /\ Cancels(Popped, d, S).ledger[c] # None => Cancels(Popped, d, S).mem[c] # None
             /\ Cancels(Popped, d, S).mem[c] = "queued" => k.stage[c] \in {"job", "failed"}
      BY <1>4, <2>10, <3>1, NowFields DEF None
    <3> QED
      BY <1>5, <2>12, <3>2 DEF Leaves, Knows
  <2>14. \A c \in Command : k.stage[c] \notin {"stop", "await"}
    BY <2>4, <2>8 DEF None
  <2>15. k.pc \notin {"stop", "recover"}
    BY <2>8
  <2> HIDE DEF d
  <2> QED
    BY <1>4, <2>1, <2>5, <2>8, <2>9, <2>11, <2>13, <2>14, <2>15, CallGoes
<1> QED
  BY <1>7, <1>8

-----------------------------------------------------------------------------
(* The jobs that recover and start. *)

LEMMA OnwardBeside ==
    ASSUME IInv, NEW t, Good(t, World), Beside(Now, t), Become(t),
           UNCHANGED <<proc, view, started, woken, closed, disposed, stopper>>
    PROVE  IInv'
<1>1. Later(Now, t)
  BY LaterByFields DEF Beside
<1> QED
  BY <1>1, Onward

LEMMA LaterBeside ==
    ASSUME NEW s, NEW t, Beside(s, t)
    PROVE  Later(s, t)
  BY LaterByFields DEF Beside

LEMMA StepTurnedAway ==
    ASSUME IInv, TurnedAway
    PROVE  IInv'
<1>1. Good(Popped, World) /\ Beside(Now, Popped)
  BY PoppedRight DEF IInv, TurnedAway
<1>2. Become(Popped) /\ UNCHANGED <<proc, view, started, woken, closed, disposed, stopper>>
  BY DEF TurnedAway, Quiet, portVars
<1> QED
  BY <1>1, <1>2, OnwardBeside

\* A recovery belongs to a call, or to a start.
LEMMA RecoveryIsOf ==
    ASSUME IInv, lane # <<>>, Head1.kind \in {"start", "recover"}
    PROVE  /\ Head1.by \in Stopper \cup {None}
           /\ Head1.by = "dispose" =>
                 /\ stopper["dispose"].pc = "recover" /\ OfDispose(Head1)
                 /\ \A i \in 1..Len(Tail(lane)) : ~OfDispose(Tail(lane)[i])
<1>1. Good(Now, World) /\ JobRight(Now, Head1)
  BY HeadIsRight DEF IInv
<1>2. Head1.by \in Stopper \cup {None} /\ (Head1.by = "dispose" => Head1.kind = "recover")
  BY <1>1 DEF JobRight, None
<1>3. ASSUME Head1.by = "dispose"
      PROVE  /\ stopper["dispose"].pc = "recover" /\ OfDispose(Head1)
             /\ \A i \in 1..Len(Tail(lane)) : ~OfDispose(Tail(lane)[i])
  <2>1. OfDispose(Now.lane[1]) /\ Now.lane # <<>> /\ Now.lane = lane /\ OfDispose(Head1)
    BY <1>2, <1>3, NowFields DEF OfDispose, Head1
  <2>2. World.recovering /\ \A k \in 1..Len(Tail(lane)) : ~OfDispose(Tail(lane)[k])
    BY <1>1, <2>1, TailNoDispose
  <2> QED
    BY <2>1, <2>2 DEF World
<1> QED
  BY <1>2, <1>3

LEMMA StepLoad ==
    ASSUME IInv, Load
    PROVE  IInv'
<1> DEFINE rows == {c \in Command : ledger[c] # None}
           bad == {c \in rows : Unknowable(Now, c)}
<1>1. /\ lane # <<>> /\ Head1.kind \in {"start", "recover"} /\ Head1.pc = "first"
      /\ UNCHANGED <<proc, view, started, woken, closed, disposed>>
      /\ \/ /\ Become(Front(Taken(Now, rows), [Head1 EXCEPT !.pc = "each", !.todo = rows]))
            /\ UNCHANGED stopper
         \/ EndRecover(Retained(Popped, {c \in rows : c < First(bad)}), FALSE)
         \/ EndRecover(Popped, FALSE)
  BY DEF Load, Quiet, portVars
<1>2. Good(Now, World) /\ JobRight(Now, Head1)
  BY <1>1, HeadIsRight DEF IInv
<1>3. /\ Good(Popped, World) /\ Beside(Now, Popped) /\ Popped.lane = Tail(lane)
  BY <1>1, <1>2, PoppedRight
<1>4. /\ Head1.by \in Stopper \cup {None}
      /\ Head1.by = "dispose" => /\ stopper["dispose"].pc = "recover"
                                 /\ \A i \in 1..Len(Tail(lane)) : ~OfDispose(Tail(lane)[i])
  BY <1>1, RecoveryIsOf
<1>5. CASE EndRecover(Popped, FALSE)
  <2>1. Later(Now, Popped)
    BY <1>3, LaterBeside
  <2> QED
    BY <1>1, <1>3, <1>4, <1>5, <2>1, EndFails
<1>6. CASE EndRecover(Retained(Popped, {c \in rows : c < First(bad)}), FALSE)
  <2> DEFINE X == {c \in rows : c < First(bad)}
             s == Retained(Popped, X)
  <2>1. EndRecover(s, FALSE)
    BY <1>6
  <2> HIDE DEF X
  <2>2. Good(s, World) /\ s.lane = Tail(lane) /\ s.ledger = Popped.ledger /\ s.mem = Popped.mem
    BY <1>3, RetainedRight
  <2> HIDE DEF s
  <2>3. s.ledger = Now.ledger /\ s.mem = Now.mem
    BY <1>3, <2>2 DEF Beside
  <2>4. Later(Now, s)
    BY <2>3, LaterByFields
  <2> QED
    BY <1>1, <1>4, <2>1, <2>2, <2>4, EndFails
<1>7. CASE Become(Front(Taken(Now, rows), [Head1 EXCEPT !.pc = "each", !.todo = rows])) /\ UNCHANGED stopper
  <2> DEFINE i == [Head1 EXCEPT !.pc = "each"]
             j == [i EXCEPT !.todo = rows]
             u == Taken(Now, rows)
  <2>1. Become(Front(u, j)) /\ UNCHANGED stopper
    BY <1>7
  <2>2. rows = {c \in Command : Now.ledger[c] # None} /\ rows \subseteq Command
    BY NowFields
  <2>3. JobShape(Head1) /\ Now.lane = lane /\ Head1 = lane[1]
    BY <1>2, NowFields DEF JobRight, Head1
  <2>4. JobShape(i) /\ i.kind = Head1.kind /\ i.cmd = Head1.cmd /\ i.pc = "each" /\ i.by = Head1.by
    BY <2>3 DEF JobShape
  <2> HIDE DEF i, rows
  <2>5. JobShape(j) /\ j.kind = Head1.kind /\ j.cmd = Head1.cmd /\ j.pc = "each" /\ j.by = Head1.by
        /\ j.todo = rows
    BY <2>2, <2>4 DEF JobShape
  <2> HIDE DEF j
  <2>6. Calm(Now)
    BY <1>1, <2>3 DEF Calm
  <2>7. /\ Good(u, World) /\ Later(Now, u) /\ u.lane = lane
        /\ \A c \in Command : u.ledger[c] # None => u.mem[c] # None
        /\ u.ledger = Now.ledger
    BY <1>2, <2>2, <2>3, <2>6, TakenRight
  <2> HIDE DEF u
  <2>8. JobRight(u, j)
    BY <1>1, <1>2, <2>5 DEF JobRight
  <2>9. Beside(u, Front(u, j))
    BY <1>1, <2>3, <2>5, <2>7, <2>8, FrontRight
  <2>10. HeadRight(Front(u, j), World, j)
    BY <1>1, <2>2, <2>5, <2>7, <2>9 DEF HeadRight, Beside
  <2>11. Good(Front(u, j), World)
    <3>1. j.kind # "dispatch"
      BY <1>1, <2>5
    <3> QED
      BY <1>1, <2>3, <2>5, <2>7, <2>8, <2>10, <3>1, JobMoves
  <2>12. Later(Now, Front(u, j))
    BY <2>7, <2>9, LaterBeside, LaterTwice
  <2> QED
    BY <1>1, <2>1, <2>11, <2>12, Onward
<1> QED
  BY <1>1, <1>5, <1>6, <1>7

LEMMA StepRecoverEach ==
    ASSUME IInv, RecoverEach
    PROVE  IInv'
<1> DEFINE c == First(Head1.todo)
           S == Head1.todo \ {c}
           j == [Head1 EXCEPT !.todo = S]
           next == Front(Now, j)
<1>1. /\ lane # <<>> /\ Head1.pc = "each" /\ Head1.todo # {}
      /\ UNCHANGED <<proc, view, started, woken, closed, disposed>>
  BY DEF RecoverEach, Quiet, portVars
<1>2. PICK r \in Each(next, c, Head1.force) :
         IF r.ok THEN Become(r.to) /\ UNCHANGED stopper
         ELSE EndRecover([r.to EXCEPT !.lane = Tail(@)], FALSE)
  BY DEF RecoverEach
<1>3. Good(Now, World) /\ WorldRight /\ JobRight(Now, Head1) /\ HeadRight(Now, World, Head1)
      /\ JobShape(Head1)
  BY <1>1, HeadIsRight DEF IInv
<1>4. Now.lane = lane /\ Head1 = Now.lane[1] /\ Now.lane # <<>>
  BY <1>1, NowFields DEF Head1
<1>5. c \in Head1.todo /\ c \in Command
  BY <1>1, <1>3, FirstIsThere DEF JobShape
<1> HIDE DEF c
<1>s. S \subseteq Command /\ S \subseteq Head1.todo
  BY <1>3 DEF JobShape
<1> HIDE DEF S
<1>6. JobShape(j) /\ j.kind = Head1.kind /\ j.cmd = Head1.cmd /\ j.pc = "each" /\ j.by = Head1.by
      /\ j.todo = S
  BY <1>1, <1>3, <1>s DEF JobShape
<1> HIDE DEF j
<1>7. /\ Head1.kind \in {"start", "recover"} /\ \A x \in Head1.todo : mem[x] # None
      /\ \A x \in Command : ledger[x] # None => mem[x] # None
  BY <1>1, <1>3, NowFields DEF HeadRight
<1>8. JobRight(Now, j)
  BY <1>3, <1>6, <1>7 DEF JobRight
<1>9. /\ Beside(Now, next) /\ next.lane[1] = j /\ next.lane # <<>>
  BY <1>3, <1>4, <1>6, <1>7, <1>8, FrontRight
<1>10. HeadRight(next, World, j)
  BY <1>6, <1>7, <1>9, <1>s, NowFields DEF HeadRight, Beside
<1>11. Good(next, World)
  <2>1. j.kind # "dispatch"
    BY <1>6, <1>7
  <2> QED
    BY <1>3, <1>4, <1>6, <1>8, <1>10, <2>1, JobMoves
<1> HIDE DEF next
<1>12. Calm(next)
  BY <1>6, <1>9 DEF Calm
<1>13. next.mem[c] # None
  BY <1>5, <1>7, <1>9, NowFields DEF Beside
<1>14. Sound(next, World, r)
  BY <1>3, <1>5, <1>11, <1>12, <1>13, EachSound
<1>15. Later(Now, r.to) /\ Good(r.to, World)
  BY <1>9, <1>14, LaterBeside, LaterTwice DEF Sound
<1>16. CASE r.ok = TRUE
  BY <1>1, <1>2, <1>15, <1>16, Onward
<1>17. CASE r.ok = FALSE
  <2> DEFINE s == [r.to EXCEPT !.lane = Tail(r.to.lane)]
  <2>1. EndRecover(s, FALSE)
    BY <1>2, <1>17
  <2>2. r.to.lane = next.lane
    BY <1>14, <1>17 DEF Sound
  <2>3. r.to.lane # <<>> /\ r.to.lane[1] = j
    BY <1>9, <2>2
  <2>4. Good(s, World)
    BY <1>15, <2>3, JobLeaves
  <2>5. s.ledger = r.to.ledger /\ s.mem = r.to.mem /\ s.lane = Tail(r.to.lane)
    BY <1>15, LaneSet DEF Good
  <2> HIDE DEF s
  <2>6. Later(Now, s)
    BY <1>15, <2>5, LaterByFields, LaterTwice
  <2>7. /\ Head1.by \in Stopper \cup {None}
        /\ Head1.by = "dispose" => stopper["dispose"].pc = "recover" /\ OfDispose(Head1)
    BY <1>1, <1>7, RecoveryIsOf
  <2>8. Head1.by = "dispose" => \A i \in 1..Len(s.lane) : ~OfDispose(s.lane[i])
    <3>1. Head1.by = "dispose" => OfDispose(r.to.lane[1])
      BY <1>6, <2>3, <2>7 DEF OfDispose
    <3> QED
      BY <1>15, <2>3, <2>5, <3>1, TailNoDispose
  <2> QED
    BY <1>1, <2>1, <2>4, <2>6, <2>7, <2>8, EndFails
<1>18. r.ok \in BOOLEAN
  BY <1>14 DEF Sound
<1> QED
  BY <1>16, <1>17, <1>18

LEMMA StepPublish ==
    ASSUME IInv, Publish
    PROVE  IInv'
<1>1. /\ lane # <<>> /\ Head1.pc = "each" /\ Head1.todo = {}
      /\ UNCHANGED <<proc, view, started, woken, closed, disposed>>
  BY DEF Publish, Quiet, portVars
<1>2. \/ Head1.kind = "start" /\ Become(Goto(Now, "insert")) /\ UNCHANGED stopper
      \/ Head1.kind # "start" /\ EndRecover(Popped, TRUE)
      \/ EndRecover(Popped, FALSE)
  <2>1. PICK r \in Kept(Now) \cup Broken(Now) :
            IF r.ok /\ Head1.kind = "start"
            THEN Become(Goto(Now, "insert")) /\ UNCHANGED stopper
            ELSE EndRecover(Popped, r.ok)
    BY DEF Publish
  <2>2. r.ok = TRUE \/ r.ok = FALSE
    BY DEF Kept, Broken
  <2> QED
    BY <2>1, <2>2
<1>3. Good(Now, World) /\ JobRight(Now, Head1) /\ HeadRight(Now, World, Head1) /\ JobShape(Head1)
  BY <1>1, HeadIsRight DEF IInv
<1>4. Head1.kind \in {"start", "recover"}
  BY <1>1, <1>3 DEF HeadRight
<1>5. CASE EndRecover(Popped, FALSE)
  <2>1. /\ Good(Popped, World) /\ Beside(Now, Popped) /\ Popped.lane = Tail(lane)
    BY <1>1, <1>3, PoppedRight
  <2>2. Later(Now, Popped)
    BY <2>1, LaterBeside
  <2>3. /\ Head1.by \in Stopper \cup {None}
        /\ Head1.by = "dispose" => /\ stopper["dispose"].pc = "recover"
                                   /\ \A i \in 1..Len(Tail(lane)) : ~OfDispose(Tail(lane)[i])
    BY <1>1, <1>4, RecoveryIsOf
  <2> QED
    BY <1>1, <1>5, <2>1, <2>2, <2>3, EndFails
<1>6. CASE Head1.kind # "start" /\ EndRecover(Popped, TRUE)
  <2>1. Head1.kind = "recover"
    BY <1>4, <1>6
  <2> QED
    BY <1>1, <1>6, <2>1, EndOk
<1>7. CASE Head1.kind = "start" /\ Become(Goto(Now, "insert")) /\ UNCHANGED stopper
  <2> DEFINE j == [Head1 EXCEPT !.pc = "insert"]
  <2>1. Goto(Now, "insert") = Front(Now, j)
    BY DEF Goto
  <2>2. JobShape(j) /\ j.kind = Head1.kind /\ j.cmd = Head1.cmd /\ j.pc = "insert" /\ j.by = Head1.by
    BY <1>3 DEF JobShape
  <2> HIDE DEF j
  <2>3. Now.lane = lane /\ Head1 = Now.lane[1]
    BY NowFields DEF Head1
  <2>4. JobRight(Now, j) /\ j.kind # "dispatch"
    BY <1>3, <1>7, <2>2 DEF JobRight
  <2>5. HeadRight(Front(Now, j), World, j)
    BY <2>2 DEF HeadRight
  <2>6. Good(Front(Now, j), World)
    BY <1>1, <1>3, <2>2, <2>3, <2>4, <2>5, JobMoves
  <2>7. Beside(Now, Front(Now, j))
    BY <1>1, <1>3, <2>2, <2>3, <2>4, FrontRight
  <2> QED
    BY <1>1, <1>7, <2>1, <2>6, <2>7, OnwardBeside
<1> QED
  BY <1>2, <1>5, <1>6, <1>7

LEMMA SameState ==
    ASSUME NEW s, NEW t, Typed(s), Typed(t), Beside(s, t), s.flag = t.flag, s.lane = t.lane
    PROVE  s = t
  BY DEF Typed, Beside

\* A row that nobody knew appears, in the ledger or in the memory too.
LEMMA RowAppears ==
    ASSUME NEW s, NEW e, Good(s, e), NEW c \in Command, s.ledger[c] = None,
           NEW t, Typed(t), t.lane = s.lane, t.flag = s.flag, t.slot = s.slot, t.ahead = s.ahead,
           t.ledger = [s.ledger EXCEPT ![c] = "queued"],
           t.mem = s.mem \/ t.mem = [s.mem EXCEPT ![c] = "queued"],
           s.lane # <<>> => s.lane[1].pc \in {"first", "insert"}
    PROVE  Good(t, e) /\ s.mem[c] = None /\ Spared(s.lane, c)
<1>1. \A d \in Command : Row(s, d) /\ Truth(s, e, d)
  BY DEF Good
<1>2. s.mem[c] = None
  BY <1>1 DEF Row
<1>3. /\ s.ledger \in [Command -> Status \cup {None}] /\ s.mem \in [Command -> Status \cup {None}]
  BY DEF Good, Typed
<1>4. /\ t.ledger[c] = "queued" /\ t.mem[c] \in {None, "queued"}
      /\ \A d \in Command : d # c => t.ledger[d] = s.ledger[d] /\ t.mem[d] = s.mem[d]
  BY <1>2, <1>3
<1>5. \A d \in Command : d # c => Row(t, d) /\ Truth(t, e, d)
  BY <1>1, <1>4 DEF Row, Truth
<1>6. Row(t, c) /\ Truth(t, e, c)
  <2>1. "attached" \notin s.flag[c] /\ "launch" \notin s.flag[c]
    BY <1>1, <1>2, StatusApart DEF Row
  <2>2. c \notin e.started /\ c \notin e.woken
    BY <1>1, <1>2 DEF Truth
  <2> QED
    BY <1>4, <2>1, <2>2, StatusApart DEF Row, Truth
<1>7. ~Waiting(s, c)
  BY <1>2, StatusApart DEF Waiting
<1>8. Spared(s.lane, c)
  BY <1>7, SparedUnlessWaiting
<1>9. \A d \in Command : Waiting(s, d) => Waiting(t, d) \/ Spared(s.lane, d)
  BY <1>4, <1>7 DEF Waiting
<1>10. s.lane # <<>> => HeadRight(t, e, s.lane[1])
  BY DEF HeadRight
<1>11. \A d \in Command : /\ s.mem[d] # None => t.mem[d] # None
                          /\ s.mem[d] \notin {None, "queued"} => t.mem[d] \notin {None, "queued"}
  BY <1>2, <1>4
<1>12. \A d \in Command : Row(t, d) /\ Truth(t, e, d)
  BY <1>5, <1>6
<1>13. Good(t, e)
  BY <1>9, <1>10, <1>11, <1>12, RowsMove
<1> QED
  BY <1>2, <1>8, <1>13

LEMMA StepInsert ==
    ASSUME IInv, Insert
    PROVE  IInv'
<1> DEFINE c == Head1.cmd
           row == [Popped EXCEPT !.ledger[c] = "queued"]
           both == [Goto(Now, "enqueue") EXCEPT !.ledger[c] = "queued", !.mem[c] = "queued"]
<1>1. /\ lane # <<>> /\ Head1.kind = "start" /\ Head1.pc = "insert" /\ ~closed
      /\ UNCHANGED <<proc, view, started, woken, closed, disposed, stopper>>
      /\ \/ Become(Popped)
         \/ ledger[c] = None /\ Become(row)
         \/ ledger[c] = None /\ Become(both)
  BY DEF Insert, AtHead, Quiet, portVars
<1>2. Good(Now, World) /\ JobRight(Now, Head1) /\ JobShape(Head1)
  BY <1>1, HeadIsRight DEF IInv
<1>3. c \in Command
  BY <1>1, <1>2 DEF JobRight
<1>4. /\ Good(Popped, World) /\ Beside(Now, Popped) /\ Popped.flag = flag
      /\ Popped.lane = Tail(lane) /\ (Tail(lane) # <<>> => Tail(lane)[1].pc = "first")
  BY <1>1, <1>2, PoppedRight
<1>5. CASE Become(Popped)
  BY <1>1, <1>4, <1>5, OnwardBeside
<1>6. CASE ledger[c] = None /\ Become(row)
  <2> DEFINE L == [Popped.ledger EXCEPT ![c] = "queued"]
             t == [Popped EXCEPT !.ledger = L]
  <2>1. row = t
    OBVIOUS
  <2>2. Typed(Popped) /\ Popped.ledger[c] = None /\ Popped.ledger \in [Command -> Status \cup {None}]
    BY <1>4, <1>6, NowFields DEF Good, Typed, Beside
  <2>3. L \in [Command -> Status \cup {None}]
    BY <1>3, <2>2 DEF Status
  <2>4. L = [Popped.ledger EXCEPT ![c] = "queued"]
    OBVIOUS
  <2> HIDE DEF c, L
  <2>5. /\ Typed(t) /\ t.ledger = L /\ t.mem = Popped.mem /\ t.ahead = Popped.ahead
        /\ t.slot = Popped.slot /\ t.flag = Popped.flag /\ t.lane = Popped.lane
    BY <2>2, <2>3, LedgerSet
  <2> HIDE DEF t
  <2>6. Good(t, World)
    <3>1. Popped.lane # <<>> => Popped.lane[1].pc \in {"first", "insert"}
      BY <1>4
    <3> QED
      BY <1>3, <1>4, <2>2, <2>4, <2>5, <3>1, RowAppears
  <2>7. t.mem = mem
    BY <1>4, <2>5, NowFields DEF Beside
  <2> HIDE DEF row
  <2> QED
    BY <1>1, <1>6, <2>1, <2>6, <2>7, OnwardOpen
<1>7. CASE ledger[c] = None /\ Become(both)
  <2> DEFINE j == [Head1 EXCEPT !.pc = "enqueue"]
             f == Front(Now, j)
             L == [f.ledger EXCEPT ![c] = "queued"]
             g == [f EXCEPT !.ledger = L]
             M == [g.mem EXCEPT ![c] = "queued"]
             t == [g EXCEPT !.mem = M]
             u1 == [Now EXCEPT !.ledger = L]
             u == [u1 EXCEPT !.mem = M]
  <2>1. Become(t)
    <3>1. Goto(Now, "enqueue") = f
      BY DEF Goto
    <3> HIDE DEF f
    <3>2. [f EXCEPT !.ledger[c] = "queued", !.mem[c] = "queued"] = [g EXCEPT !.mem[c] = "queued"]
      OBVIOUS
    <3> HIDE DEF g
    <3>3. [g EXCEPT !.mem[c] = "queued"] = t
      OBVIOUS
    <3>4. both = [f EXCEPT !.ledger[c] = "queued", !.mem[c] = "queued"]
      BY <3>1
    <3> HIDE DEF t, both
    <3> QED
      BY <1>7, <3>2, <3>3, <3>4
  <2> HIDE DEF both
  <2>2. Now.lane = lane /\ Head1 = Now.lane[1] /\ Now.lane # <<>>
    BY <1>1, NowFields DEF Head1
  <2>3. JobShape(j) /\ j.kind = Head1.kind /\ j.cmd = Head1.cmd /\ j.pc = "enqueue" /\ j.by = Head1.by
    BY <1>2 DEF JobShape
  <2> HIDE DEF j
  <2>4. JobRight(Now, j) /\ j.kind # "dispatch"
    BY <1>1, <1>2, <2>3 DEF JobRight
  <2>5. Beside(Now, f) /\ f.flag = Now.flag
    BY <1>2, <2>2, <2>3, <2>4, FrontRight
  <2>6. Typed(Now) /\ Typed(f)
    <3>1. Typed(Now)
      BY <1>2 DEF Good
    <3>2. f = [Now EXCEPT !.lane = [Now.lane EXCEPT ![1] = j]]
      BY DEF Front
    <3> HIDE DEF f
    <3> QED
      BY <3>1, <3>2, LaneSet
  <2>7. L = [ledger EXCEPT ![c] = "queued"] /\ f.lane = [Now.lane EXCEPT ![1] = j]
    <3>1. f.ledger = ledger
      BY <2>5, NowFields DEF Beside
    <3>2. f.lane = [Now.lane EXCEPT ![1] = j]
      BY <2>6, LaneSet DEF Front
    <3> HIDE DEF f
    <3> QED
      BY <3>1, <3>2
  <2> HIDE DEF f, L
  <2>8. /\ ledger \in [Command -> Status \cup {None}] /\ mem \in [Command -> Status \cup {None}]
    BY <2>6, NowFields DEF Typed
  <2>9. L \in [Command -> Status \cup {None}]
    BY <1>3, <2>7, <2>8 DEF Status
  <2>10. /\ Typed(g) /\ g.ledger = L /\ g.mem = f.mem /\ g.ahead = f.ahead /\ g.pending = f.pending
         /\ g.slot = f.slot /\ g.flag = f.flag /\ g.lane = f.lane /\ g.quarantine = f.quarantine
    BY <2>6, <2>9, LedgerSet
  <2> HIDE DEF g
  <2>11. M = [mem EXCEPT ![c] = "queued"]
    BY <2>5, <2>10, NowFields DEF Beside
  <2> HIDE DEF M
  <2>12. M \in [Command -> Status \cup {None}]
    BY <1>3, <2>8, <2>11 DEF Status
  <2>13. /\ Typed(t) /\ t.mem = M /\ t.ledger = g.ledger /\ t.ahead = g.ahead /\ t.pending = g.pending
         /\ t.slot = g.slot /\ t.flag = g.flag /\ t.lane = g.lane /\ t.quarantine = g.quarantine
    BY <2>10, <2>12, MemSet
  <2> HIDE DEF t
  <2>14. /\ Typed(u1) /\ u1.ledger = L /\ u1.mem = Now.mem /\ u1.ahead = Now.ahead
         /\ u1.pending = Now.pending /\ u1.slot = Now.slot /\ u1.flag = Now.flag /\ u1.lane = Now.lane
         /\ u1.quarantine = Now.quarantine
    BY <2>6, <2>9, LedgerSet
  <2> HIDE DEF u1
  <2>15. /\ Typed(u) /\ u.mem = M /\ u.ledger = u1.ledger /\ u.ahead = u1.ahead
         /\ u.pending = u1.pending /\ u.slot = u1.slot /\ u.flag = u1.flag /\ u.lane = u1.lane
         /\ u.quarantine = u1.quarantine
    BY <2>12, <2>14, MemSet
  <2> HIDE DEF u
  <2>16. /\ u.ledger = [Now.ledger EXCEPT ![c] = "queued"] /\ u.mem = [Now.mem EXCEPT ![c] = "queued"]
         /\ u.lane = Now.lane /\ u.flag = Now.flag /\ u.slot = Now.slot /\ u.ahead = Now.ahead
         /\ Now.ledger[c] = None
    BY <1>7, <2>7, <2>11, <2>14, <2>15, NowFields
  <2>17. Now.lane # <<>> => Now.lane[1].pc \in {"first", "insert"}
    BY <1>1, <2>2
  <2>18. Good(u, World) /\ Now.mem[c] = None /\ Spared(Now.lane, c)
    BY <1>2, <1>3, <2>15, <2>16, <2>17, RowAppears
  <2>19. t = Front(u, j)
    <3>1. Typed(Front(u, j)) /\ Beside(u, Front(u, j)) /\ Front(u, j).flag = u.flag
          /\ Front(u, j).lane = [u.lane EXCEPT ![1] = j]
      <4> DEFINE q == [u.lane EXCEPT ![1] = j]
                 v == [u EXCEPT !.lane = q]
      <4>1. Front(u, j) = v
        BY DEF Front
      <4> HIDE DEF q
      <4>2. /\ Typed(v) /\ v.lane = q
            /\ v.ledger = u.ledger /\ v.mem = u.mem /\ v.ahead = u.ahead /\ v.pending = u.pending
            /\ v.slot = u.slot /\ v.flag = u.flag /\ v.quarantine = u.quarantine
        BY <2>15, LaneSet
      <4> HIDE DEF v
      <4> QED
        BY <4>1, <4>2 DEF q, Beside
    <3>2. /\ t.ledger = u.ledger /\ t.mem = u.mem /\ t.ahead = u.ahead /\ t.pending = u.pending
          /\ t.slot = u.slot /\ t.quarantine = u.quarantine /\ t.flag = u.flag
          /\ t.lane = [u.lane EXCEPT ![1] = j]
      BY <2>5, <2>7, <2>10, <2>13, <2>14, <2>15 DEF Beside
    <3>3. Beside(t, Front(u, j))
      BY <3>1, <3>2 DEF Beside
    <3> QED
      BY <2>13, <3>1, <3>2, <3>3, SameState
  <2>20. JobRight(u, j)
    BY <1>1, <1>2, <2>3 DEF JobRight
  <2>21. Beside(u, Front(u, j)) /\ Front(u, j).flag = u.flag
         /\ (c \notin j.todo /\ Spared(u.lane, c) => Spared(Front(u, j).lane, c))
    BY <1>3, <2>2, <2>3, <2>4, <2>16, <2>18, <2>20, FrontRight
  <2>22. Spared(Front(u, j).lane, c)
    <3>1. \A i \in 1..Len(u.lane) : i # 1 => Front(u, j).lane[i] = u.lane[i]
      BY <2>2, <2>3, <2>4, <2>16, <2>18, <2>20, FrontRight
    <3>2. Len(Front(u, j).lane) = Len(u.lane) /\ Front(u, j).lane[1] = j
      BY <2>2, <2>3, <2>4, <2>16, <2>18, <2>20, FrontRight
    <3> QED
      BY <2>4, <2>16, <2>18, <3>1, <3>2 DEF Spared, Dispatches
  <2>23. HeadRight(Front(u, j), World, j)
    <3>1. /\ Front(u, j).mem[c] = "queued" /\ Front(u, j).ledger[c] = "queued"
      BY <1>3, <2>8, <2>16, <2>21, NowFields DEF Beside
    <3>2. "launch" \notin flag[c] /\ c \notin woken
      BY <1>2, <1>3, <2>18, NowFields, StatusApart DEF Good, Row, Truth, World
    <3>3. "launch" \notin Front(u, j).flag[c] /\ c \notin World.woken
      BY <2>16, <2>21, <3>2, NowFields DEF World
    <3>4. j.cmd = c
      BY <2>3
    <3> HIDE DEF c
    <3> QED
      BY <1>1, <2>3, <2>22, <3>1, <3>3, <3>4, StatusApart DEF HeadRight
  <2>24. Good(Front(u, j), World)
    BY <2>2, <2>3, <2>4, <2>16, <2>18, <2>20, <2>23, JobMoves
  <2>25. \A d \in Command : /\ mem[d] # None => t.mem[d] # None
                            /\ mem[d] \notin {None, "queued"} => t.mem[d] \notin {None, "queued"}
    BY <2>8, <2>11, <2>13, <2>18, NowFields
  <2> QED
    BY <1>1, <2>1, <2>19, <2>24, <2>25, OnwardOpen
<1> QED
  BY <1>1, <1>5, <1>6, <1>7

\* A command gets its launch, and with a slot the wait for its turn.
LEMMA Launched ==
    ASSUME NEW s, NEW e, Good(s, e), ~e.closed, ~e.drained, NEW c \in Command,
           s.mem[c] = "queued", s.ledger[c] \notin Claimed, Spared(s.lane, c), c \notin e.woken,
           s.lane # <<>> => s.lane[1].pc = "first",
           \A i \in 1..Len(s.lane) : ~(s.lane[i].kind = "recover" /\ s.lane[i].by = "resume"),
           NEW t, Typed(t), t.ledger = s.ledger, t.mem = s.mem, t.ahead = s.ahead, t.lane = s.lane,
           t.flag[c] = s.flag[c] \cup {"launch"},
           \A d \in Command : d # c => t.flag[d] = s.flag[d] /\ t.slot[d] = s.slot[d],
           NEW n, n.proc = e.proc, n.view = e.view, n.started = e.started, n.closed = e.closed,
           n.drained = e.drained, n.recovering = e.recovering,
           n.woken \subseteq e.woken \cup {c}, c \in n.woken => t.slot[c] = "active"
    PROVE  Good(t, n)
<1>1. \A d \in Command : Row(s, d) /\ Truth(s, e, d)
  BY DEF Good
<1>2. s.flag \in [Command -> SUBSET Flag] /\ s.slot \in [Command -> Place]
  BY DEF Good, Typed
<1>3. /\ t.flag[c] = s.flag[c] \cup {"launch"}
      /\ \A d \in Command : d # c => t.flag[d] = s.flag[d] /\ t.slot[d] = s.slot[d]
      /\ \A d \in Command : d # c /\ d \in n.woken => d \in e.woken
      /\ c \in n.woken => t.slot[c] = "active"
  BY <1>2
<1>4. \A d \in Command : d # c => Row(t, d) /\ Truth(t, n, d)
  BY <1>1, <1>3 DEF Row, Truth
<1>5. Row(t, c)
  BY <1>1, <1>3, StatusApart DEF Row
<1>6. Truth(t, n, c)
  BY <1>1, <1>3, StatusApart DEF Truth, None
<1>7. \A d \in Command : d # c /\ Waiting(s, d) => Waiting(t, d)
  BY <1>3 DEF Waiting
<1>8. /\ IsSeq(s.lane) /\ \A i \in 1..Len(s.lane) : JobRight(s, s.lane[i]) /\ s.lane[i].todo \subseteq Command
  BY DEF Good, LaneRight, JobRight, JobShape
<1>9. \A i \in 1..Len(s.lane) : s.lane[i].kind = "dispatch" => c \notin s.lane[i].todo
  BY DEF Spared, Dispatches
<1>10. \A i \in 1..Len(s.lane) : JobRight(t, s.lane[i])
  BY <1>7, <1>8, <1>9 DEF JobRight
<1>11. LaneRight(t)
  BY <1>10 DEF Good, LaneRight
<1>12. t.lane # <<>> => HeadRight(t, n, t.lane[1])
  BY DEF HeadRight
<1>13. Fence(t, n)
  BY DEF Good, Fence
<1>14. Single(t, n)
  BY DEF Good, Single
<1> QED
  BY <1>4, <1>5, <1>6, <1>11, <1>12, <1>13, <1>14 DEF Good

LEMMA StepEnqueue ==
    ASSUME IInv, Enqueue
    PROVE  IInv'
<1> DEFINE c == Head1.cmd
<1>1. /\ lane # <<>> /\ Head1.kind = "start" /\ Head1.pc = "enqueue"
      /\ UNCHANGED <<proc, view, started, closed, disposed, stopper>>
  BY DEF Enqueue, AtHead, portVars
<1>2. Good(Now, World) /\ WorldRight /\ JobRight(Now, Head1) /\ HeadRight(Now, World, Head1)
  BY <1>1, HeadIsRight DEF IInv
<1>3. c \in Command /\ mem[c] = "queued" /\ ledger[c] \notin Claimed /\ c \notin woken /\ Spared(lane, c)
  BY <1>1, <1>2, NowFields DEF JobRight, HeadRight, World
<1>4. /\ Good(Popped, World) /\ Beside(Now, Popped) /\ Popped.flag = flag /\ Calm(Popped)
      /\ Popped.lane = Tail(lane) /\ (Tail(lane) # <<>> => Tail(lane)[1].pc = "first")
      /\ Spared(Tail(lane), c)
  BY <1>1, <1>2, <1>3, PoppedRight
<1>5. CASE closed \/ Cancelling \/ "aborted" \in flag[c]
  <2>1. PICK r \in Write(Aborted(Popped, {c}), c, "cancelled") : Become(r.to) /\ UNCHANGED woken
    BY <1>5 DEF Enqueue
  <2> DEFINE s == Aborted(Popped, {c})
  <2>a. {c} \in SUBSET Command
    BY <1>3
  <2>2. Good(s, World) /\ Beside(Popped, s) /\ s.lane = Popped.lane
    BY <1>4, <2>a, AbortedRight
  <2> HIDE DEF s
  <2>3. Calm(s)
    BY <1>4, <2>2 DEF Calm
  <2>4. s.mem[c] = "queued" /\ "cancelled" \in Safe
    BY <1>3, <1>4, <2>2, NowFields DEF Beside, Safe
  <2>5. Legit(s, World, c, "cancelled")
    BY <1>2, <1>3, <2>2, <2>4, QueuedLegit
  <2>6. r \in Write(s, c, "cancelled")
    BY <2>1 DEF s
  <2> HIDE DEF c
  <2>7. Sound(s, World, r)
    BY <1>3, <2>2, <2>3, <2>5, <2>6, WriteSound
  <2>8. Later(Now, r.to) /\ Good(r.to, World)
    <3>1. Later(Now, Popped) /\ Later(Popped, s) /\ Later(s, r.to)
      BY <1>4, <2>2, <2>7, LaterBeside DEF Sound
    <3> QED
      BY <2>7, <3>1, LaterTwice DEF Sound
  <2> QED
    BY <1>1, <2>1, <2>8, Onward
<1>6. CASE ~(closed \/ Cancelling \/ "aborted" \in flag[c])
  <2> DEFINE room == Cardinality(In(Now, "active")) < Slots
             place == IF room THEN "active" ELSE "queued"
             F == [Popped.flag EXCEPT ![c] = @ \cup {"launch"}]
             u == [Popped EXCEPT !.flag = F]
             O == [u.slot EXCEPT ![c] = place]
             t == [u EXCEPT !.slot = O]
  <2>1. /\ Become([Popped EXCEPT !.flag[c] = @ \cup {"launch"}, !.slot[c] = place])
        /\ woken' = IF room THEN woken \cup {c} ELSE woken
    BY <1>6 DEF Enqueue
  <2>2. Become(t)
    <3>1. [Popped EXCEPT !.flag[c] = @ \cup {"launch"}, !.slot[c] = place] = [u EXCEPT !.slot[c] = place]
      OBVIOUS
    <3> HIDE DEF u
    <3>2. [u EXCEPT !.slot[c] = place] = t
      OBVIOUS
    <3> HIDE DEF t, place
    <3> QED
      BY <2>1, <3>1, <3>2
  <2>3. place \in {"active", "queued"} /\ (place = "active" => woken' = woken \cup {c})
        /\ (place = "queued" => woken' = woken)
    BY <2>1
  <2> HIDE DEF place, room, c
  <2>4. Typed(Popped) /\ Popped.flag \in [Command -> SUBSET Flag] /\ Popped.slot \in [Command -> Place]
    BY <1>4 DEF Good, Typed
  <2>5. F \in [Command -> SUBSET Flag] /\ F = [Popped.flag EXCEPT ![c] = @ \cup {"launch"}]
    BY <1>3, <2>4 DEF Flag
  <2> HIDE DEF F
  <2>6. /\ Typed(u) /\ u.flag = F /\ u.ledger = Popped.ledger /\ u.mem = Popped.mem
        /\ u.ahead = Popped.ahead /\ u.slot = Popped.slot /\ u.lane = Popped.lane
    BY <2>4, <2>5, FlagSet
  <2> HIDE DEF u
  <2>7. O \in [Command -> Place] /\ O = [Popped.slot EXCEPT ![c] = place]
    BY <1>3, <2>3, <2>4, <2>6 DEF Place
  <2> HIDE DEF O
  <2>8. /\ Typed(t) /\ t.slot = O /\ t.flag = F /\ t.ledger = Popped.ledger /\ t.mem = Popped.mem
        /\ t.ahead = Popped.ahead /\ t.lane = Popped.lane
    BY <2>6, <2>7, SlotSet
  <2> HIDE DEF t
  <2>9. \A i \in 1..Len(Popped.lane) : ~(Popped.lane[i].kind = "recover" /\ Popped.lane[i].by = "resume")
    <3>1. /\ Len(lane) \in Nat \ {0} /\ Len(Tail(lane)) = Len(lane) - 1
          /\ \A i \in 1..Len(Tail(lane)) : Tail(lane)[i] = lane[i + 1]
      BY <1>1, <1>2, TailIsSeq, NowFields DEF Good, LaneRight
    <3>2. \A i \in 1..Len(Tail(lane)) : i + 1 \in 1..Len(lane) /\ 1 \in 1..(i + 1)
      BY <3>1
    <3>3. \A i \in 1..Len(lane) : lane[i].kind = "recover" /\ lane[i].by = "resume" =>
             \A k \in 1..i : lane[k].kind # "start"
      BY <1>2, NowFields DEF Good, Fence
    <3>4. lane[1].kind = "start"
      BY <1>1 DEF Head1
    <3> QED
      BY <1>4, <3>1, <3>2, <3>3, <3>4
  <2>10. /\ World'.proc = World.proc /\ World'.view = World.view /\ World'.started = World.started
         /\ World'.closed = World.closed /\ World'.drained = World.drained
         /\ World'.recovering = World.recovering /\ ~World.closed /\ ~World.drained
         /\ World.woken = woken /\ World'.woken = woken'
    BY <1>1, <1>6 DEF World
  <2>11. /\ Popped.mem[c] = "queued" /\ Popped.ledger[c] \notin Claimed /\ c \notin World.woken
         /\ Spared(Popped.lane, c)
         /\ Popped.lane # <<>> => Popped.lane[1].pc = "first"
    BY <1>3, <1>4, <2>10, NowFields DEF Beside
  <2>12. /\ World'.woken \subseteq World.woken \cup {c}
         /\ c \in World'.woken => t.slot[c] = "active"
    BY <1>3, <2>3, <2>4, <2>7, <2>8, <2>10
  <2>13. /\ t.flag[c] = Popped.flag[c] \cup {"launch"}
         /\ \A d \in Command : d # c => t.flag[d] = Popped.flag[d] /\ t.slot[d] = Popped.slot[d]
    BY <1>3, <2>4, <2>5, <2>7, <2>8
  <2>14. Good(t, World')
    <3>1. PICK n : n = World'
      OBVIOUS
    <3>2. PICK e : e = World
      OBVIOUS
    <3>3. /\ n.proc = e.proc /\ n.view = e.view /\ n.started = e.started /\ n.closed = e.closed
          /\ n.drained = e.drained /\ n.recovering = e.recovering /\ ~e.closed /\ ~e.drained
          /\ n.woken \subseteq e.woken \cup {c} /\ (c \in n.woken => t.slot[c] = "active")
          /\ Good(Popped, e) /\ c \notin e.woken
      BY <1>4, <2>10, <2>11, <2>12, <3>1, <3>2
    <3>4. Good(t, n)
      BY <1>3, <2>8, <2>9, <2>11, <2>13, <3>3, Launched
    <3> QED
      BY <3>1, <3>4
  <2>15. Later(Now, t)
    <3>1. t.ledger = Now.ledger /\ t.mem = Now.mem
      BY <1>4, <2>8 DEF Beside
    <3> QED
      BY <3>1, LaterByFields
  <2>16. WorldRight'
    BY <1>1, <1>2 DEF WorldRight
  <2> QED
    BY <1>1, <2>2, <2>14, <2>15, <2>16, OnwardWorld
<1> QED
  BY <1>5, <1>6

LEMMA StepWake ==
    ASSUME IInv, NEW c \in Command, Wake(c)
    PROVE  IInv'
<1>1. /\ c \in woken /\ woken' = woken \ {c} /\ Become(Admit(Now, {c}))
      /\ UNCHANGED <<proc, view, started, closed, disposed, stopper>>
  BY DEF Wake, portVars
<1>2. Good(Now, World)
  BY DEF IInv
<1>3. "launch" \in Now.flag[c] => Now.slot[c] = "active"
  BY <1>1, <1>2 DEF Good, Truth, World
<1>4. Good(Admit(Now, {c}), World) /\ Beside(Now, Admit(Now, {c}))
  BY <1>2, <1>3, AdmitRight
<1>5. /\ World'.proc = World.proc /\ World'.view = World.view /\ World'.started = World.started
      /\ World'.closed = World.closed /\ World'.drained = World.drained
      /\ World'.recovering = World.recovering /\ World'.woken \subseteq World.woken
  BY <1>1 DEF World
<1>6. \A d \in Command : Admit(Now, {c}).ledger[d] \in Safe
          => World.proc[d] # "alive" /\ World.view[d] # "running"
  BY <1>4 DEF Good, Truth
<1>7. Good(Admit(Now, {c}), World')
  <2>1. \A d \in Command : Admit(Now, {c}).ledger[d] \in Safe
            => World'.proc[d] # "alive" /\ World'.view[d] # "running"
    BY <1>5, <1>6
  <2>2. /\ World'.closed => World.closed
        /\ World'.drained => World.drained
        /\ ~World'.recovering => ~World.recovering
    BY <1>5
  <2> QED
    BY <1>4, <1>5, <2>1, <2>2, WorldMoves, Zenon
<1>8. Later(Now, Admit(Now, {c}))
  BY <1>4, LaterBeside
<1>9. WorldRight'
  BY <1>1 DEF IInv, WorldRight
<1> QED
  BY <1>1, <1>7, <1>8, <1>9, OnwardWorld

-----------------------------------------------------------------------------
(* The jobs that dispatch. *)

\* A command whose dispatch no job waits for any more is taken out of it.
LEMMA UndispatchedRight ==
    ASSUME NEW s, NEW e, Good(s, e), Calm(s), NEW c \in Command, Spared(s.lane, c)
    PROVE  /\ LET t == Undispatched(s, c) IN
              /\ Good(t, e) /\ Calm(t) /\ Beside(s, t) /\ t.lane = s.lane
              /\ t.flag[c] = s.flag[c] \ {"dispatching"}
           /\ LET t == Withdrawn(s, c) IN
              Good(t, e) /\ Calm(t) /\ Beside(s, t) /\ t.lane = s.lane
<1>1. s.flag \in [Command -> SUBSET Flag]
  BY DEF Good, Typed
<1>2. ASSUME NEW G \in SUBSET Flag, G \subseteq s.flag[c]
      PROVE  LET t == [s EXCEPT !.flag[c] = G] IN
             Good(t, e) /\ Calm(t) /\ Beside(s, t) /\ t.lane = s.lane /\ t.flag = [s.flag EXCEPT ![c] = G]
  <2> DEFINE F == [s.flag EXCEPT ![c] = G]
             u == [s EXCEPT !.flag = F]
             t == [s EXCEPT !.flag[c] = G]
  <2>1. Typed(s) /\ s.flag \in [Command -> SUBSET Flag]
    BY DEF Good, Typed
  <2>2. /\ F \in [Command -> SUBSET Flag] /\ F[c] = G
        /\ \A d \in Command : d # c => F[d] = s.flag[d]
    BY <2>1
  <2> HIDE DEF F
  <2>3. Typed(u) /\ Beside(s, u) /\ u.flag = F /\ u.lane = s.lane
    BY <2>1, <2>2, FlagSet DEF Beside
  <2>4. t = u
    BY DEF F
  <2> HIDE DEF t, u
  <2>5. \A d \in Command : F[d] \subseteq s.flag[d]
    BY <1>2, <2>2
  <2>a. Typed(t) /\ Beside(s, t) /\ t.flag = F /\ t.lane = s.lane
    BY <2>3, <2>4
  <2>6. \A d \in Command : Row(t, d) /\ Truth(t, e, d)
    BY <2>a, <2>5 DEF Good, Row, Truth, Beside
  <2>7. \A d \in Command : Waiting(s, d) => Waiting(t, d) \/ Spared(s.lane, d)
    BY <2>2, <2>a DEF Waiting, Beside
  <2>8. s.lane # <<>> => HeadRight(t, e, s.lane[1])
    BY <2>a DEF Good, HeadRight, Beside, Calm
  <2>9. Good(t, e)
    BY <2>a, <2>5, <2>6, <2>7, <2>8, RowsMove DEF Beside
  <2>10. Calm(t)
    BY <2>a DEF Calm
  <2> QED
    BY <2>a, <2>9, <2>10 DEF F, t
<1>3. LET t == Undispatched(s, c) IN
      /\ Good(t, e) /\ Calm(t) /\ Beside(s, t) /\ t.lane = s.lane
      /\ t.flag[c] = s.flag[c] \ {"dispatching"}
  <2> DEFINE G == s.flag[c] \ {"dispatching"}
             t == [s EXCEPT !.flag[c] = G]
  <2>1. Undispatched(s, c) = t
    BY DEF Undispatched
  <2>2. G \in SUBSET Flag /\ G \subseteq s.flag[c]
    BY <1>1
  <2> HIDE DEF G
  <2>3. Good(t, e) /\ Calm(t) /\ Beside(s, t) /\ t.lane = s.lane /\ t.flag = [s.flag EXCEPT ![c] = G]
    BY <1>2, <2>2
  <2> HIDE DEF t
  <2>4. t.flag[c] = G
    BY <1>1, <2>3
  <2> QED
    BY <2>1, <2>3, <2>4 DEF G
<1>4. LET t == Withdrawn(s, c) IN
      Good(t, e) /\ Calm(t) /\ Beside(s, t) /\ t.lane = s.lane
  <2> DEFINE G == s.flag[c] \ {"dispatching", "launch"}
             t == [s EXCEPT !.flag[c] = G]
  <2>1. Withdrawn(s, c) = t
    BY DEF Withdrawn
  <2>2. G \in SUBSET Flag /\ G \subseteq s.flag[c]
    BY <1>1
  <2> HIDE DEF G
  <2>3. Good(t, e) /\ Calm(t) /\ Beside(s, t) /\ t.lane = s.lane
    BY <1>2, <2>2
  <2> HIDE DEF t
  <2> QED
    BY <2>1, <2>3
<1> QED
  BY <1>3, <1>4

\* A dispatch is over for c.
LEMMA StepEndDispatch ==
    ASSUME IInv, lane # <<>>, Head1.kind = "dispatch", NEW c \in Command, NEW next,
           Dispatches(lane, 1, c) \/ Spared(lane, c),
           mem[c] \in {"queued"} \cup Claimed, next \in Claimed \cup Safe,
           next \in Safe => proc[c] # "alive" /\ view[c] # "running",
           next \in Claimed => slot[c] = "active" /\ "launch" \notin flag[c],
           EndDispatch(c, next),
           UNCHANGED <<proc, view, started, woken, closed, disposed, stopper>>
    PROVE  IInv'
<1> DEFINE S == Head1.todo \ {c}
           s == Served(S)
           u == Undispatched(s, c)
<1>1. Good(Now, World)
  BY DEF IInv
<1>2. S \in SUBSET Head1.todo /\ c \notin S
  OBVIOUS
<1>3. PICK r \in Write(u, c, next) : Become(IF r.ok THEN r.to ELSE Withdrawn(r.to, c))
  BY DEF EndDispatch
<1> HIDE DEF S
<1>4. /\ Good(s, World) /\ Beside(Now, s) /\ s.flag = flag /\ Calm(s)
      /\ \A d \in Command : d \notin S /\ Spared(lane, d) => Spared(s.lane, d)
      /\ \A d \in Command : d \notin S /\ Dispatches(lane, 1, d) => Spared(s.lane, d)
  BY <1>1, <1>2, ServedRight
<1> HIDE DEF s
<1>5. Spared(s.lane, c)
  BY <1>2, <1>4
<1>6. /\ Good(u, World) /\ Calm(u) /\ Beside(s, u) /\ u.lane = s.lane
      /\ u.flag[c] = s.flag[c] \ {"dispatching"}
  BY <1>4, <1>5, UndispatchedRight
<1> HIDE DEF u
<1>7. Legit(u, World, c, next)
  <2>1. u.mem[c] = mem[c] /\ u.slot[c] = slot[c]
    BY <1>4, <1>6, NowFields DEF Beside
  <2>2. World.proc = proc /\ World.view = view
    BY DEF World
  <2>3. next \in Claimed => "launch" \notin u.flag[c]
    BY <1>4, <1>6
  <2>4. Spared(u.lane, c)
    BY <1>5, <1>6
  <2> QED
    BY <2>1, <2>2, <2>3, <2>4 DEF Legit
<1>8. Sound(u, World, r)
  BY <1>3, <1>6, <1>7, WriteSound
<1>9. Good(r.to, World) /\ Calm(r.to) /\ Later(Now, r.to)
  <2>1. Later(Now, s) /\ Later(s, u) /\ Later(u, r.to)
    BY <1>4, <1>6, <1>8, LaterBeside DEF Sound
  <2> QED
    BY <1>8, <2>1, LaterTwice DEF Sound
<1>10. CASE r.ok = TRUE
  BY <1>3, <1>9, <1>10, Onward
<1>11. CASE r.ok = FALSE
  <2>1. r.to.lane = u.lane
    BY <1>8, <1>11 DEF Sound
  <2>2. Spared(r.to.lane, c)
    BY <1>5, <1>6, <2>1
  <2>3. Good(Withdrawn(r.to, c), World) /\ Beside(r.to, Withdrawn(r.to, c))
    BY <1>9, <2>2, UndispatchedRight
  <2>4. Later(Now, Withdrawn(r.to, c))
    BY <1>9, <2>3, LaterBeside, LaterTwice
  <2>5. Become(Withdrawn(r.to, c))
    BY <1>3, <1>11
  <2> QED
    BY <2>3, <2>4, <2>5, Onward
<1>12. r.ok \in BOOLEAN
  BY <1>8 DEF Sound
<1> QED
  BY <1>10, <1>11, <1>12

\* What was never started does not run.
LEMMA NeverStarted ==
    ASSUME WorldRight, NEW c \in Command, c \notin started
    PROVE  proc[c] # "alive" /\ view[c] # "running"
  BY DEF WorldRight

LEMMA StepDispatchCheck ==
    ASSUME IInv, DispatchCheck
    PROVE  IInv'
<1> DEFINE c == First(Head1.todo)
           rest == Head1.todo \ {c}
<1>1. /\ lane # <<>> /\ Head1.kind = "dispatch" /\ Head1.pc = "first"
      /\ UNCHANGED <<proc, view, started, woken, closed, disposed, stopper>>
  BY DEF DispatchCheck, AtHead, Quiet, portVars
<1>2. \/ mem[c] # "queued" /\ Become(Release(Undispatched(Served(rest), c), c))
      \/ mem[c] = "queued" /\ EndDispatch(c, "cancelled")
      \/ /\ mem[c] = "queued"
         /\ Become(Front([Now EXCEPT !.flag[c] = @ \ {"launch"}],
                         [Head1 EXCEPT !.pc = "authorize", !.cmd = c, !.todo = rest]))
  BY DEF DispatchCheck
<1>3. Good(Now, World) /\ WorldRight /\ JobRight(Now, Head1) /\ JobShape(Head1)
      /\ Len(lane) \in Nat \ {0} /\ 1 \in 1..Len(lane)
  BY <1>1, HeadIsRight DEF IInv
<1>4. Head1.todo # {} /\ \A d \in Head1.todo : Waiting(Now, d)
  BY <1>1, <1>3 DEF JobRight
<1>5. c \in Head1.todo /\ c \in Command
  BY <1>3, <1>4, FirstIsThere DEF JobShape
<1>6. Waiting(Now, c) /\ Row(Now, c) /\ Truth(Now, World, c)
  BY <1>3, <1>4, <1>5 DEF Good
<1> HIDE DEF c
<1>7. rest \in SUBSET Head1.todo /\ c \notin rest /\ rest = Head1.todo \ {c}
  OBVIOUS
<1> HIDE DEF rest
<1>8. Dispatches(lane, 1, c)
  BY <1>1, <1>5 DEF Dispatches, Head1
<1>9. CASE mem[c] # "queued" /\ Become(Release(Undispatched(Served(rest), c), c))
  <2> DEFINE s == Served(rest)
             u == Undispatched(s, c)
             t == Release(u, c)
  <2>1. /\ Good(s, World) /\ Beside(Now, s) /\ s.flag = flag /\ Calm(s)
        /\ \A d \in Command : d \notin rest /\ Spared(lane, d) => Spared(s.lane, d)
        /\ \A d \in Command : d \notin rest /\ Dispatches(lane, 1, d) => Spared(s.lane, d)
    BY <1>1, <1>3, <1>7, ServedRight
  <2> HIDE DEF s
  <2>2. Spared(s.lane, c)
    BY <1>5, <1>7, <1>8, <2>1
  <2>3. /\ Good(u, World) /\ Calm(u) /\ Beside(s, u) /\ u.lane = s.lane
        /\ u.flag[c] = s.flag[c] \ {"dispatching"}
    BY <1>5, <2>1, <2>2, UndispatchedRight
  <2> HIDE DEF u
  <2>4. /\ Good(t, World) /\ Calm(t) /\ t.ledger = u.ledger /\ t.mem = u.mem
        /\ (u.mem[c] \notin Safe => t = u)
    BY <1>5, <2>3, ReleaseRight
  <2>5. Become(t)
    BY <1>9 DEF u, s
  <2> HIDE DEF t
  <2>6. t.ledger = Now.ledger /\ t.mem = Now.mem
    BY <2>1, <2>3, <2>4 DEF Beside
  <2>7. Later(Now, t)
    BY <2>6, LaterByFields
  <2> QED
    BY <1>1, <2>4, <2>5, <2>7, Onward
<1>10. CASE mem[c] = "queued" /\ EndDispatch(c, "cancelled")
  <2>1. c \notin started
    BY <1>6, <1>10, NowFields DEF Truth, World
  <2>2. proc[c] # "alive" /\ view[c] # "running"
    BY <1>3, <1>5, <2>1, NeverStarted
  <2>3. "cancelled" \in Safe /\ "cancelled" \notin Claimed /\ mem[c] \in {"queued"} \cup Claimed
    BY <1>10 DEF Safe, Claimed
  <2> QED
    BY <1>1, <1>5, <1>8, <1>10, <2>2, <2>3, StepEndDispatch
<1>11. CASE /\ mem[c] = "queued"
            /\ Become(Front([Now EXCEPT !.flag[c] = @ \ {"launch"}],
                            [Head1 EXCEPT !.pc = "authorize", !.cmd = c, !.todo = rest]))
  <2> DEFINE G == Now.flag[c] \ {"launch"}
             F == [Now.flag EXCEPT ![c] = G]
             u == [Now EXCEPT !.flag = F]
             h == [Head1 EXCEPT !.pc = "authorize"]
             i == [h EXCEPT !.cmd = c]
             j == [i EXCEPT !.todo = rest]
  <2>1. Become(Front(u, j))
    BY <1>11
  <2>2. JobShape(h) /\ h.kind = Head1.kind /\ h.pc = "authorize" /\ h.by = Head1.by /\ h.todo = Head1.todo
    BY <1>3 DEF JobShape
  <2> HIDE DEF h
  <2>3. JobShape(i) /\ i.kind = Head1.kind /\ i.pc = "authorize" /\ i.by = Head1.by /\ i.cmd = c
    BY <2>2 DEF JobShape
  <2> HIDE DEF i
  <2>4. rest \subseteq Command
    BY <1>3, <1>7 DEF JobShape
  <2>5. JobShape(j) /\ j.kind = Head1.kind /\ j.pc = "authorize" /\ j.by = Head1.by /\ j.cmd = c
        /\ j.todo = rest
    BY <2>3, <2>4 DEF JobShape
  <2> HIDE DEF j
  <2>6. Typed(Now) /\ Now.flag \in [Command -> SUBSET Flag]
    BY <1>3 DEF Good, Typed
  <2>7. /\ F \in [Command -> SUBSET Flag] /\ F[c] = Now.flag[c] \ {"launch"}
        /\ \A d \in Command : d # c => F[d] = Now.flag[d]
    BY <1>5, <2>6
  <2> HIDE DEF F
  <2>8. \A d \in Command : /\ "launch" \in F[d] => "launch" \in Now.flag[d]
                           /\ "dispatching" \in Now.flag[d] => "dispatching" \in F[d]
                           /\ "attached" \in F[d] => "attached" \in Now.flag[d]
    BY <2>7
  <2>9. Good(u, World)
    BY <1>3, <2>7, <2>8, FlagsMove
  <2>10. Beside(Now, u) /\ u.flag = F /\ u.lane = Now.lane
    BY <2>6, <2>7, FlagSet DEF Beside
  <2> HIDE DEF u
  <2>11. Now.lane = lane /\ Head1 = Now.lane[1] /\ Now.lane # <<>>
    BY <1>1, NowFields DEF Head1
  <2>12. JobRight(u, j) /\ j.todo \subseteq Head1.todo
    <3>1. \A d \in rest : Waiting(u, d)
      <4>1. \A d \in rest : d \in Command /\ d # c /\ Waiting(Now, d)
        BY <1>4, <1>7, <2>4
      <4> QED
        BY <2>7, <2>10, <4>1 DEF Waiting, Beside
    <3> QED
      BY <1>1, <1>7, <2>5, <3>1 DEF JobRight
  <2>13. /\ Beside(u, Front(u, j)) /\ Front(u, j).flag = u.flag
         /\ \A d \in Command : d \notin j.todo /\ Dispatches(u.lane, 1, d) => Spared(Front(u, j).lane, d)
    BY <2>5, <2>9, <2>10, <2>11, <2>12, FrontRight
  <2>14. HeadRight(Front(u, j), World, j)
    <3>1. Spared(Front(u, j).lane, c)
      BY <1>5, <1>7, <1>8, <2>5, <2>10, <2>11, <2>13
    <3>2. "dispatching" \in Now.flag[c] /\ Now.mem[c] = "queued" /\ Now.slot[c] = "active"
          /\ Now.ledger[c] \notin Claimed /\ c \notin World.started
      BY <1>6, <1>11, NowFields DEF Waiting, Truth
    <3>3. /\ "dispatching" \in Front(u, j).flag[c] /\ "launch" \notin Front(u, j).flag[c]
          /\ Front(u, j).mem[c] = "queued" /\ Front(u, j).slot[c] = "active"
          /\ Front(u, j).ledger[c] \notin Claimed
      BY <2>7, <2>10, <2>13, <3>2 DEF Beside
    <3> QED
      BY <1>1, <1>5, <2>5, <3>1, <3>2, <3>3 DEF HeadRight
  <2>15. Good(Front(u, j), World)
    BY <2>5, <2>9, <2>10, <2>11, <2>12, <2>14, JobMoves
  <2>16. Beside(Now, Front(u, j))
    BY <2>10, <2>13 DEF Beside
  <2> QED
    BY <1>1, <2>1, <2>15, <2>16, OnwardBeside
<1> QED
  BY <1>2, <1>9, <1>10, <1>11

\* What is known of a command that waits for its authorization or submission.
LEMMA HeadDispatch ==
    ASSUME IInv, AtHead("dispatch", "authorize") \/ AtHead("dispatch", "submit")
    PROVE  LET c == Head1.cmd IN
           /\ lane # <<>> /\ Head1.kind = "dispatch" /\ c \in Command /\ Spared(lane, c)
           /\ "dispatching" \in flag[c] /\ "launch" \notin flag[c]
           /\ c \notin started /\ proc[c] # "alive" /\ view[c] = "absent"
           /\ slot[c] = "active"
           /\ Head1.pc = "authorize" => mem[c] = "queued" /\ ledger[c] \notin Claimed
           /\ Head1.pc = "submit" => mem[c] = "running" /\ ledger[c] \in Claimed
<1>1. /\ lane # <<>> /\ Head1.kind = "dispatch" /\ Head1.pc \in {"authorize", "submit"}
  BY DEF AtHead
<1>2. Good(Now, World) /\ WorldRight /\ HeadRight(Now, World, Head1)
  BY <1>1, HeadIsRight DEF IInv
<1> DEFINE c == Head1.cmd
<1>3. /\ c \in Command /\ Spared(lane, c) /\ "dispatching" \in flag[c] /\ "launch" \notin flag[c]
      /\ c \notin started
      /\ Head1.pc = "authorize" => mem[c] = "queued" /\ ledger[c] \notin Claimed /\ slot[c] = "active"
      /\ Head1.pc = "submit" => mem[c] = "running" /\ ledger[c] \in Claimed
  BY <1>1, <1>2, NowFields DEF HeadRight, World
<1> HIDE DEF c
<1>4. proc[c] # "alive" /\ view[c] = "absent"
  BY <1>2, <1>3 DEF WorldRight
<1>5. Row(Now, c)
  BY <1>2, <1>3 DEF Good
<1>6. slot[c] = "active"
  BY <1>1, <1>3, <1>5, NowFields DEF Row, Claimed
<1> QED
  BY <1>1, <1>3, <1>4, <1>6 DEF c

LEMMA StepRefused ==
    ASSUME IInv, Refused
    PROVE  IInv'
<1> DEFINE c == Head1.cmd
<1>1. EndDispatch(c, "interrupted") /\ AtHead("dispatch", "authorize")
      /\ UNCHANGED <<proc, view, started, woken, closed, disposed, stopper>>
  BY DEF Refused, Quiet, portVars
<1>2. /\ lane # <<>> /\ Head1.kind = "dispatch" /\ c \in Command /\ Spared(lane, c)
      /\ proc[c] # "alive" /\ view[c] = "absent" /\ mem[c] = "queued"
  BY <1>1, HeadDispatch DEF AtHead
<1>3. "interrupted" \in Safe /\ "interrupted" \notin Claimed
  BY DEF Safe, Claimed
<1> HIDE DEF c
<1> QED
  BY <1>1, <1>2, <1>3, StepEndDispatch

LEMMA FrontIs ==
    ASSUME NEW s, Typed(s), NEW j
    PROVE  LET t == Front(s, j) IN
           Typed(t) /\ Beside(s, t) /\ t.flag = s.flag /\ t.lane = [s.lane EXCEPT ![1] = j]
<1> DEFINE q == [s.lane EXCEPT ![1] = j]
           v == [s EXCEPT !.lane = q]
<1>1. Front(s, j) = v
  BY DEF Front
<1> HIDE DEF q
<1>2. /\ Typed(v) /\ v.lane = q
      /\ v.ledger = s.ledger /\ v.mem = s.mem /\ v.ahead = s.ahead /\ v.pending = s.pending
      /\ v.slot = s.slot /\ v.flag = s.flag /\ v.quarantine = s.quarantine
  BY LaneSet
<1> HIDE DEF v
<1> QED
  BY <1>1, <1>2 DEF q, Beside

\* The job at the head goes on to submit c, whose claim is on record in u.
LEMMA ClaimStored ==
    ASSUME NEW s, NEW e, Good(s, e), s.lane # <<>>, NEW h, h = s.lane[1], h.kind = "dispatch",
           NEW c \in Command, h.cmd = c, Spared(s.lane, c),
           "dispatching" \in s.flag[c], "launch" \notin s.flag[c], c \notin e.started,
           s.mem[c] = "queued",
           NEW u, Good(u, e), u.slot = s.slot,
           u.ledger = [s.ledger EXCEPT ![c] = "running"], u.mem = [s.mem EXCEPT ![c] = "running"],
           \A d \in Command : u.flag[d] \ {"disposeFailed"} = s.flag[d] \ {"disposeFailed"}
    PROVE  LET t == [u EXCEPT !.lane = Front(s, [h EXCEPT !.pc = "submit"]).lane] IN
           Good(t, e) /\ t.ledger = u.ledger /\ t.mem = u.mem
<1> DEFINE j == [h EXCEPT !.pc = "submit"]
           k == [h EXCEPT !.pc = "neutral"]
           n == Front(s, k)
           t0 == [u EXCEPT !.lane = n.lane]
           t == [u EXCEPT !.lane = Front(s, j).lane]
<1>1. JobRight(s, h) /\ JobShape(h) /\ Typed(s) /\ Typed(u) /\ 1 \in 1..Len(s.lane)
  BY LaneHead DEF Good, JobRight
<1>2. /\ JobShape(j) /\ j.kind = h.kind /\ j.cmd = c /\ j.pc = "submit" /\ j.by = h.by
      /\ j.todo = h.todo
  BY <1>1 DEF JobShape
<1>3. /\ JobShape(k) /\ k.kind = h.kind /\ k.cmd = c /\ k.pc = "neutral" /\ k.by = h.by
      /\ k.todo = h.todo
  BY <1>1 DEF JobShape
<1> HIDE DEF j, k
<1>4. c \notin h.todo
  BY <1>1 DEF Spared, Dispatches
<1>5. JobRight(s, k)
  BY <1>1, <1>3 DEF JobRight
<1>6. Good(n, e)
  <2>1. HeadRight(n, e, k)
    BY <1>3 DEF HeadRight
  <2> QED
    BY <1>3, <1>5, <2>1, JobMoves
<1>7. /\ Beside(s, n) /\ n.flag = s.flag /\ n.lane[1] = k /\ n.lane # <<>> /\ Spared(n.lane, c)
      /\ n.lane = [s.lane EXCEPT ![1] = k]
  <2>1. Beside(s, n) /\ n.flag = s.flag /\ n.lane = [s.lane EXCEPT ![1] = k]
    BY <1>1, FrontIs
  <2>2. n.lane[1] = k /\ n.lane # <<>>
    BY <1>1, <2>1
  <2>3. \A x \in Command : x \notin k.todo /\ Spared(s.lane, x) => Spared(n.lane, x)
    BY <1>3, <1>5, FrontRight, SMTT(20)
  <2> QED
    BY <1>3, <1>4, <2>1, <2>2, <2>3
<1> HIDE DEF n
<1>8. /\ Typed(t0) /\ Beside(u, t0) /\ t0.flag = u.flag /\ t0.lane = n.lane
  <2>1. /\ Typed(t0) /\ t0.lane = n.lane
        /\ t0.ledger = u.ledger /\ t0.mem = u.mem /\ t0.ahead = u.ahead /\ t0.pending = u.pending
        /\ t0.slot = u.slot /\ t0.flag = u.flag /\ t0.quarantine = u.quarantine
    <3>1. Typed(u)
      BY <1>1
    <3> HIDE DEF k
    <3> QED
      BY <3>1, LaneSet, ZenonT(40)
  <2> HIDE DEF t0
  <2> QED
    BY <2>1 DEF Beside
<1> HIDE DEF t0
<1>9. /\ u.ledger[c] = "running" /\ u.mem[c] = "running"
      /\ \A d \in Command : d # c => u.ledger[d] = s.ledger[d] /\ u.mem[d] = s.mem[d]
  BY <1>1 DEF Typed
<1>10. \A d \in Command : /\ "launch" \in u.flag[d] => "launch" \in s.flag[d]
                          /\ "dispatching" \in s.flag[d] => "dispatching" \in u.flag[d]
  OBVIOUS
<1>11. Good(t0, e)
  <2>1. \A d \in Command : Row(t0, d) /\ Truth(t0, e, d)
    BY <1>8 DEF Good, Row, Truth, Beside
  <2>2. \A d \in Command : Waiting(n, d) => Waiting(t0, d) \/ Spared(n.lane, d)
    <3>1. ASSUME NEW d \in Command, d # c, Waiting(n, d) PROVE Waiting(t0, d)
      BY <1>7, <1>8, <1>9, <1>10, <3>1 DEF Waiting, Beside
    <3> QED
      BY <1>7, <3>1
  <2>3. \A d \in Command : /\ n.mem[d] # None => t0.mem[d] # None
                           /\ n.mem[d] \notin {None, "queued"} => t0.mem[d] \notin {None, "queued"}
    BY <1>7, <1>8, <1>9 DEF Beside, None
  <2>4. \A d \in Command : "launch" \in t0.flag[d] => "launch" \in n.flag[d]
    BY <1>7, <1>8, <1>10
  <2>5. HeadRight(t0, e, n.lane[1])
    BY <1>3, <1>7 DEF HeadRight
  <2> QED
    BY <1>6, <1>8, <2>1, <2>2, <2>3, <2>4, <2>5, RowsMove
<1>12. JobRight(t0, j)
  <2>1. t0.lane # <<>> /\ t0.lane[1] = k
    BY <1>7, <1>8
  <2>2. JobRight(t0, k)
    BY <1>11, <2>1, LaneHead
  <2> QED
    BY <1>2, <1>3, <2>2 DEF JobRight
<1>13. /\ Beside(t0, Front(t0, j)) /\ Front(t0, j).flag = t0.flag /\ Spared(Front(t0, j).lane, c)
  <2>1. t0.lane # <<>> /\ t0.lane[1] = k /\ Spared(t0.lane, c)
    BY <1>7, <1>8
  <2> QED
    BY <1>2, <1>3, <1>4, <1>11, <1>12, <2>1, FrontRight
<1>14. HeadRight(Front(t0, j), e, j)
  <2>1. /\ Front(t0, j).mem[c] = "running" /\ Front(t0, j).ledger[c] = "running"
        /\ Front(t0, j).flag = u.flag
    BY <1>8, <1>9, <1>13 DEF Beside
  <2>2. "dispatching" \in u.flag[c] /\ "launch" \notin u.flag[c]
    BY <1>10
  <2> QED
    BY <1>2, <1>13, <2>1, <2>2 DEF HeadRight, Claimed
<1>15. Good(Front(t0, j), e)
  <2>1. t0.lane # <<>> /\ t0.lane[1] = k
    BY <1>7, <1>8
  <2> QED
    BY <1>2, <1>3, <1>11, <1>12, <1>14, <2>1, JobMoves
<1>16. /\ Typed(t) /\ Beside(u, t) /\ t.flag = u.flag /\ t.lane = Front(s, j).lane
  <2> DEFINE q == Front(s, j).lane
  <2> HIDE DEF q
  <2>1. LET v == [u EXCEPT !.lane = q] IN
        Typed(v) /\ Beside(u, v) /\ v.flag = u.flag /\ v.lane = q
    BY <1>1, LaneSet DEF Beside
  <2> QED
    BY <2>1 DEF q
<1>17. t = Front(t0, j)
  <2>1. t.lane = [s.lane EXCEPT ![1] = j]
    BY <1>1, <1>16, FrontIs
  <2>2. /\ Typed(Front(t0, j)) /\ Front(t0, j).lane = [t0.lane EXCEPT ![1] = j]
    BY <1>8, FrontIs
  <2>3. Front(t0, j).lane = t.lane
    BY <1>7, <1>8, <2>1, <2>2
  <2>4. Beside(t, Front(t0, j)) /\ t.flag = Front(t0, j).flag
    BY <1>8, <1>13, <1>16 DEF Beside
  <2> HIDE DEF t
  <2> QED
    BY <1>16, <2>2, <2>3, <2>4, SameState
<1> QED
  BY <1>15, <1>16, <1>17 DEF Beside, j

LEMMA StepAuthorized ==
    ASSUME IInv, Authorized
    PROVE  IInv'
<1> DEFINE c == Head1.cmd
<1>1. /\ AtHead("dispatch", "authorize")
      /\ UNCHANGED <<proc, view, started, woken, closed, disposed, stopper>>
      /\ \/ EndDispatch(c, "cancelled")
         \/ \E r \in Write(Served(Head1.todo), c, "running") :
               Become(IF r.ok THEN [r.to EXCEPT !.lane = Goto(Now, "submit").lane]
                      ELSE Withdrawn(r.to, c))
  BY DEF Authorized, Quiet, portVars
<1>2. /\ lane # <<>> /\ Head1.kind = "dispatch" /\ c \in Command /\ Spared(lane, c)
      /\ proc[c] # "alive" /\ view[c] = "absent" /\ mem[c] = "queued" /\ ledger[c] \notin Claimed
      /\ "dispatching" \in flag[c] /\ "launch" \notin flag[c] /\ c \notin started /\ slot[c] = "active"
  BY <1>1, HeadDispatch DEF AtHead
<1>3. CASE EndDispatch(c, "cancelled")
  <2>1. "cancelled" \in Safe /\ "cancelled" \notin Claimed
    BY DEF Safe, Claimed
  <2> HIDE DEF c
  <2> QED
    BY <1>1, <1>2, <1>3, <2>1, StepEndDispatch
<1>4. CASE \E r \in Write(Served(Head1.todo), c, "running") :
               Become(IF r.ok THEN [r.to EXCEPT !.lane = Goto(Now, "submit").lane]
                      ELSE Withdrawn(r.to, c))
  <2> DEFINE s == Served(Head1.todo)
  <2>1. PICK r \in Write(s, c, "running") :
               Become(IF r.ok THEN [r.to EXCEPT !.lane = Goto(Now, "submit").lane]
                      ELSE Withdrawn(r.to, c))
    BY <1>4
  <2>h. c = Head1.cmd
    OBVIOUS
  <2> HIDE DEF c
  <2>2. Good(Now, World) /\ JobShape(Head1) /\ 1 \in 1..Len(lane)
    BY <1>2, HeadIsRight DEF IInv
  <2>3. c \notin Head1.todo
    BY <1>2, <2>2 DEF Spared, Dispatches, Head1
  <2>4. /\ Good(s, World) /\ Beside(Now, s) /\ s.flag = flag /\ Calm(s)
        /\ \A d \in Command : d \notin Head1.todo /\ Spared(lane, d) => Spared(s.lane, d)
    BY <1>2, <2>2, ServedRight
  <2> HIDE DEF s
  <2>5. Spared(s.lane, c)
    BY <1>2, <2>3, <2>4
  <2>6. Legit(s, World, c, "running")
    <3>1. s.mem[c] = "queued" /\ s.slot[c] = "active" /\ "launch" \notin s.flag[c]
      BY <1>2, <2>4, NowFields DEF Beside
    <3>2. "running" \in Claimed /\ "running" \notin Safe
      BY DEF Claimed, Safe
    <3> QED
      BY <2>5, <3>1, <3>2 DEF Legit
  <2>7. /\ Good(r.to, World) /\ Calm(r.to) /\ Later(s, r.to) /\ r.ok \in BOOLEAN
        /\ r.ok => r.to.mem = [s.mem EXCEPT ![c] = "running"]
        /\ ~r.ok => r.to.mem = s.mem /\ r.to.lane = s.lane
        /\ r.ok /\ "running" \notin Safe =>
              /\ r.to.lane = s.lane /\ r.to.slot = s.slot
              /\ r.to.ledger = [s.ledger EXCEPT ![c] = "running"]
              /\ \A d \in Command : r.to.flag[d] \ {"disposeFailed"} = s.flag[d] \ {"disposeFailed"}
    <3>1. PICK next : next = "running"
      OBVIOUS
    <3>2. r \in Write(s, c, next) /\ Legit(s, World, c, next)
      BY <2>1, <2>6, <3>1
    <3>3. /\ Good(r.to, World) /\ Calm(r.to) /\ Later(s, r.to) /\ r.ok \in BOOLEAN
          /\ r.ok => r.to.mem = [s.mem EXCEPT ![c] = next]
          /\ ~r.ok => r.to.mem = s.mem /\ r.to.lane = s.lane
          /\ r.ok /\ next \notin Safe =>
                /\ r.to.lane = s.lane /\ r.to.slot = s.slot
                /\ r.to.ledger = [s.ledger EXCEPT ![c] = next]
                /\ \A d \in Command : r.to.flag[d] \ {"disposeFailed"} = s.flag[d] \ {"disposeFailed"}
      BY <1>2, <2>4, <3>2, WriteRight
    <3> QED
      BY <3>1, <3>3
  <2>8. Later(Now, r.to)
    BY <2>4, <2>7, LaterBeside, LaterTwice
  <2>9. CASE r.ok = FALSE
    <3>1. Spared(r.to.lane, c)
      BY <2>5, <2>7, <2>9
    <3>2. Good(Withdrawn(r.to, c), World) /\ Beside(r.to, Withdrawn(r.to, c))
      BY <1>2, <2>7, <3>1, UndispatchedRight
    <3>3. Later(Now, Withdrawn(r.to, c))
      BY <2>8, <3>2, LaterBeside, LaterTwice
    <3>4. Become(Withdrawn(r.to, c))
      BY <2>1, <2>9
    <3> QED
      BY <1>1, <3>2, <3>3, <3>4, Onward
  <2>10. CASE r.ok = TRUE
    <3> DEFINE u == r.to
               t == [u EXCEPT !.lane = Front(Now, [Head1 EXCEPT !.pc = "submit"]).lane]
    <3>1. Become(t)
      BY <2>1, <2>10 DEF Goto
    <3>2. "running" \notin Safe
      BY DEF Safe
    <3>3. /\ u.slot = Now.slot
          /\ u.ledger = [Now.ledger EXCEPT ![c] = "running"] /\ u.mem = [Now.mem EXCEPT ![c] = "running"]
          /\ \A d \in Command : u.flag[d] \ {"disposeFailed"} = Now.flag[d] \ {"disposeFailed"}
      BY <2>4, <2>7, <2>10, <3>2, NowFields DEF Beside
    <3>4. Good(u, World) /\ Later(Now, u)
      BY <2>7, <2>8
    <3> HIDE DEF u
    <3>5. /\ Now.lane = lane /\ Head1 = Now.lane[1] /\ Now.flag = flag /\ Now.mem = mem
          /\ World.started = started
      BY NowFields DEF Head1, World
    <3>6. Good(t, World) /\ t.ledger = u.ledger /\ t.mem = u.mem
      BY <1>2, <2>2, <2>h, <3>3, <3>4, <3>5, ClaimStored
    <3> HIDE DEF t
    <3>7. Later(Now, t)
      BY <3>4, <3>6, LaterByFields, LaterTwice
    <3> QED
      BY <1>1, <3>1, <3>6, <3>7, Onward
  <2> QED
    BY <2>7, <2>9, <2>10
<1> QED
  BY <1>1, <1>3, <1>4

\* A command whose claim is on record is started.
LEMMA StartMoves ==
    ASSUME NEW t, NEW e, Good(t, e), Calm(t), NEW c \in Command,
           t.ledger[c] \in Claimed, t.mem[c] = "running",
           NEW n, n.started = e.started \cup {c}, n.proc = e.proc,
           \A d \in Command : d # c => n.view[d] = e.view[d],
           n.woken = e.woken, n.closed = e.closed, n.drained = e.drained,
           n.recovering = e.recovering
    PROVE  Good(t, n)
<1>1. \A d \in Command : Truth(t, e, d)
  BY DEF Good
<1>2. Truth(t, n, c)
  BY <1>1, StatusApart DEF Truth
<1>3. \A d \in Command : d # c => Truth(t, n, d)
  BY <1>1 DEF Truth
<1>4. \A d \in Command : Row(t, d) /\ Truth(t, n, d)
  BY <1>2, <1>3 DEF Good
<1>5. t.lane # <<>> => HeadRight(t, n, t.lane[1])
  BY DEF Good, HeadRight, Calm
<1>6. Fence(t, n) /\ Single(t, n)
  BY DEF Good, Fence, Single
<1> QED
  BY <1>4, <1>5, <1>6 DEF Good

LEMMA StepSubmit ==
    ASSUME IInv, Submit
    PROVE  IInv'
<1> DEFINE c == Head1.cmd
           s == Served(Head1.todo)
           u == Undispatched(s, c)
           t == [u EXCEPT !.flag[c] = @ \cup {"handle", "attached"}]
<1>1. /\ AtHead("dispatch", "submit")
      /\ UNCHANGED <<woken, closed, disposed, stopper>>
      /\ \/ EndDispatch(c, "cancelled") /\ UNCHANGED <<proc, view, started>>
         \/ EndDispatch(c, "unknown") /\ UNCHANGED <<proc, view, started>>
         \/ Claim(c) /\ Become(t) /\ started' = started \cup {c}
         \/ view[c] # "absent"
  BY DEF Submit, portVars
<1>2. /\ lane # <<>> /\ Head1.kind = "dispatch" /\ c \in Command /\ Spared(lane, c)
      /\ proc[c] # "alive" /\ view[c] = "absent" /\ mem[c] = "running" /\ ledger[c] \in Claimed
      /\ "launch" \notin flag[c] /\ slot[c] = "active"
  BY <1>1, HeadDispatch DEF AtHead
<1>3. "cancelled" \in Safe /\ "cancelled" \notin Claimed /\ "unknown" \in Claimed /\ "unknown" \notin Safe
      /\ mem[c] \in Claimed
  BY <1>2 DEF Safe, Claimed
<1> HIDE DEF c
<1>4. CASE EndDispatch(c, "cancelled") /\ UNCHANGED <<proc, view, started>>
  BY <1>1, <1>2, <1>3, <1>4, StepEndDispatch
<1>5. CASE EndDispatch(c, "unknown") /\ UNCHANGED <<proc, view, started>>
  BY <1>1, <1>2, <1>3, <1>5, StepEndDispatch
<1>6. CASE Claim(c) /\ Become(t) /\ started' = started \cup {c}
  <2>1. Good(Now, World) /\ WorldRight /\ JobShape(Head1) /\ 1 \in 1..Len(lane)
    BY <1>2, HeadIsRight DEF IInv
  <2>2. c \notin Head1.todo
    BY <1>2, <2>1 DEF Spared, Dispatches, Head1
  <2>3. /\ Good(s, World) /\ Beside(Now, s) /\ s.flag = flag /\ Calm(s)
        /\ \A d \in Command : d \notin Head1.todo /\ Spared(lane, d) => Spared(s.lane, d)
    BY <1>2, <2>1, ServedRight
  <2> HIDE DEF s
  <2>4. Spared(s.lane, c)
    BY <1>2, <2>2, <2>3
  <2>5. /\ Good(u, World) /\ Calm(u) /\ Beside(s, u)
    BY <1>2, <2>3, <2>4, UndispatchedRight
  <2> HIDE DEF u
  <2>6. u.mem[c] = "running"
    BY <1>2, <2>3, <2>5, NowFields DEF Beside
  <2>7. Good(t, World) /\ Calm(t) /\ Beside(u, t)
    <3>1. u.mem[c] \notin {None, "queued"}
      BY <2>6 DEF None
    <3>2. {"handle", "attached"} \in SUBSET {"handle", "attached"}
      OBVIOUS
    <3> QED
      BY <1>2, <2>5, <3>1, <3>2, HandleFound
  <2>8. Become(t)
    BY <1>6
  <2> HIDE DEF t
  <2>9. t.ledger = ledger /\ t.mem = mem /\ Beside(Now, t)
    BY <2>3, <2>5, <2>7, NowFields DEF Beside
  <2>10. /\ view' = [view EXCEPT ![c] = "running"] /\ UNCHANGED proc
         /\ view \in [Command -> View \cup {"absent"}]
    BY <1>6, <2>1 DEF Claim, WorldRight
  <2>11. Good(t, World')
    <3>1. PICK n : n = World'
      OBVIOUS
    <3>2. PICK e : e = World
      OBVIOUS
    <3>3. /\ n.started = e.started \cup {c} /\ n.proc = e.proc
          /\ \A d \in Command : d # c => n.view[d] = e.view[d]
          /\ n.woken = e.woken /\ n.closed = e.closed /\ n.drained = e.drained
          /\ n.recovering = e.recovering
      BY <1>1, <1>6, <2>10, <3>1, <3>2 DEF World
    <3>4. Good(t, e) /\ t.ledger[c] \in Claimed /\ t.mem[c] = "running"
      BY <1>2, <2>7, <2>9, <3>2
    <3>5. Good(t, n)
      BY <1>2, <2>7, <3>3, <3>4, StartMoves
    <3> QED
      BY <3>1, <3>5
  <2>12. WorldRight'
    <3>1. "running" \in View /\ "running" # "stopped"
      BY DEF View, OpenView
    <3>2. view' \in [Command -> View \cup {"absent"}]
      BY <1>2, <2>10, <3>1
    <3>3. \A d \in Command : d # c => view'[d] = view[d]
      BY <2>10
    <3>4. view'[c] = "running"
      BY <1>2, <2>10
    <3>5. started' = started \cup {c}
      BY <1>6
    <3> QED
      BY <1>2, <2>1, <2>10, <3>1, <3>2, <3>3, <3>4, <3>5 DEF WorldRight
  <2>13. Later(Now, t)
    BY <2>9, LaterBeside
  <2> QED
    BY <1>1, <2>8, <2>11, <2>12, <2>13, OnwardWorld
<1> QED
  BY <1>1, <1>2, <1>4, <1>5, <1>6

-----------------------------------------------------------------------------
(* The jobs that settle and cancel. *)

LEMMA StageSet ==
    ASSUME NEW k, CallShape(k), NEW c \in Command, NEW x
    PROVE  LET i == [k EXCEPT !.stage[c] = x] IN
           /\ CallShape(i) /\ i.pc = k.pc /\ i.late = k.late /\ i.first = k.first
           /\ i.stage = [k.stage EXCEPT ![c] = x] /\ i.stage[c] = x
           /\ \A y \in Command : y # c => i.stage[y] = k.stage[y]
<1> DEFINE G == [k.stage EXCEPT ![c] = x]
           i == [k EXCEPT !.stage = G]
<1>1. k.stage = [y \in Command |-> k.stage[y]]
  BY DEF CallShape
<1>2. G = [y \in Command |-> G[y]] /\ G[c] = x /\ \A y \in Command : y # c => G[y] = k.stage[y]
  BY <1>1
<1>3. G = [k.stage EXCEPT ![c] = x]
  OBVIOUS
<1> HIDE DEF G
<1>4. CallShape(i) /\ i.pc = k.pc /\ i.late = k.late /\ i.first = k.first /\ i.stage = G
  BY <1>2 DEF CallShape
<1>5. [k EXCEPT !.stage[c] = x] = i
  BY <1>3
<1> HIDE DEF i
<1> QED
  BY <1>2, <1>3, <1>4, <1>5

\* A job that served c reports it to its call.
LEMMA Reported ==
    ASSUME IInv, NEW t, Good(t, World), Later(Now, t), Become(t),
           UNCHANGED <<proc, view, started, woken, closed, disposed>>,
           NEW d \in Stopper, NEW c \in Command, NEW x, stopper' = Report(d, c, x),
           x # "stop", x = "await" => t.mem[c] \notin {None, "queued"},
           t.mem[c] # "queued" \/ x \in {"job", "failed"}
    PROVE  IInv'
<1> DEFINE k == [stopper[d] EXCEPT !.stage[c] = x]
<1>1. CallShape(stopper[d])
  BY DEF IInv, StopperRight
<1>2. stopper' = [stopper EXCEPT ![d] = k]
  BY DEF Report
<1>3. /\ CallShape(k) /\ k.pc = stopper[d].pc /\ k.stage[c] = x
      /\ \A y \in Command : y # c => k.stage[y] = stopper[d].stage[y]
  BY <1>1, StageSet
<1> HIDE DEF k
<1> QED
  BY <1>2, <1>3, OnwardReport

LEMMA StepNotify ==
    ASSUME IInv, NEW c \in Command, Notify(c)
    PROVE  IInv'
<1> DEFINE j == NewJob("settle", c, None, TRUE)
           F == [flag EXCEPT ![c] = @ \cup {"notified"}]
           u == [Now EXCEPT !.flag = F]
           t == [u EXCEPT !.lane = Append(u.lane, j)]
<1>1. /\ "attached" \in flag[c]
      /\ UNCHANGED <<proc, view, started, woken, closed, disposed, stopper>>
      /\ Become([Now EXCEPT !.flag[c] = @ \cup {"notified"}, !.lane = Append(@, j)])
  BY DEF Notify, Quiet, portVars
<1>2. Become(t)
  <2>1. [Now EXCEPT !.flag[c] = @ \cup {"notified"}, !.lane = Append(@, j)] = [u EXCEPT !.lane = Append(@, j)]
    BY NowFields
  <2> HIDE DEF u, j
  <2>2. [u EXCEPT !.lane = Append(@, j)] = t
    OBVIOUS
  <2> HIDE DEF t
  <2> QED
    BY <1>1, <2>1, <2>2
<1>3. Good(Now, World) /\ flag \in [Command -> SUBSET Flag]
  BY NowFields DEF IInv, Good, Typed
<1>4. F \in [Command -> SUBSET Flag]
  BY <1>3 DEF Flag
<1>5. \A x \in Command : /\ "launch" \in F[x] => "launch" \in flag[x]
                         /\ "dispatching" \in flag[x] => "dispatching" \in F[x]
                         /\ "attached" \in F[x] => "attached" \in flag[x]
  BY <1>3
<1> HIDE DEF F
<1>6. Good(u, World)
  BY <1>3, <1>4, <1>5, NowFields, FlagsMove
<1>7. Beside(Now, u) /\ u.flag = F
  BY <1>3, <1>4, FlagSet DEF Beside, Good
<1> HIDE DEF u
<1>8. JobShape(j) /\ j.kind = "settle" /\ j.cmd = c /\ j.by = None /\ j.pc = "first"
  BY DEF NewJob, Job, JobShape
<1> HIDE DEF j
<1>9. u.mem[c] \notin {None, "queued"}
  BY <1>1, <1>3, <1>7, NowFields DEF Good, Row, Beside
<1>10. Joins(u, World, j)
  BY <1>8, <1>9 DEF Joins, JobRight, OfDispose
<1>11. Good(t, World)
  BY <1>6, <1>10, JobJoins
<1>12. Beside(u, t)
  BY <1>6, LaneSet DEF Beside, Good
<1> HIDE DEF t
<1>13. Beside(Now, t)
  BY <1>7, <1>12 DEF Beside
<1> QED
  BY <1>1, <1>2, <1>11, <1>13, OnwardBeside

LEMMA StepSettling ==
    ASSUME IInv, Settling
    PROVE  IInv'
<1> DEFINE c == Head1.cmd
           d == Head1.by
<1>1. /\ lane # <<>> /\ Head1.kind = "settle"
      /\ UNCHANGED <<proc, view, started, woken, closed, disposed>>
  BY DEF Settling, AtHead, Quiet, portVars
<1>2. PICK r \in Settled(Popped, c, Head1.force) :
        /\ Become(r.to)
        /\ stopper' = IF d = None THEN stopper ELSE Report(d, c, IF r.ok THEN "ok" ELSE "failed")
  BY DEF Settling
<1>3. Good(Now, World) /\ WorldRight /\ JobRight(Now, Head1)
  BY <1>1, HeadIsRight DEF IInv
<1>4. c \in Command /\ mem[c] \notin {None, "queued"} /\ d \in Stopper \cup {None}
  BY <1>1, <1>3, NowFields DEF JobRight
<1> HIDE DEF c, d
<1>5. Good(Popped, World) /\ Beside(Now, Popped) /\ Calm(Popped)
  BY <1>1, <1>3, PoppedRight
<1>6. Popped.mem[c] \notin {None, "queued"}
  BY <1>4, <1>5, NowFields DEF Beside
<1>7. Sound(Popped, World, r)
  BY <1>2, <1>3, <1>4, <1>5, <1>6, SettledSound
<1>8. Good(r.to, World) /\ Later(Now, r.to)
  BY <1>5, <1>7, LaterBeside, LaterTwice DEF Sound
<1>9. r.to.mem[c] \notin {None, "queued"}
  BY <1>4, <1>6, <1>7 DEF Sound, Later
<1>10. CASE d = None
  BY <1>1, <1>2, <1>8, <1>10, Onward
<1>11. CASE d # None
  <2> DEFINE x == IF r.ok THEN "ok" ELSE "failed"
  <2>1. stopper' = Report(d, c, x) /\ d \in Stopper
    BY <1>2, <1>4, <1>11
  <2>2. x \in {"ok", "failed"}
    OBVIOUS
  <2> HIDE DEF x
  <2>3. x # "stop" /\ x # "await"
    BY <2>2
  <2> QED
    BY <1>1, <1>2, <1>4, <1>8, <1>9, <2>1, <2>3, Reported
<1> QED
  BY <1>10, <1>11

LEMMA StepCancelled ==
    ASSUME IInv, Cancelled
    PROVE  IInv'
<1> DEFINE c == First(Head1.todo)
           d == Head1.by
           S == Head1.todo \ {c}
           s == Served(S)
           u == [s EXCEPT !.flag[c] = @ \cup {"handle"}]
<1>1. /\ lane # <<>> /\ Head1.kind = "cancel"
      /\ UNCHANGED <<proc, view, started, woken, closed, disposed>>
  BY DEF Cancelled, AtHead
<1>2. \/ mem[c] \in Safe /\ Become(Release(s, c)) /\ stopper' = Report(d, c, "ok")
      \/ /\ mem[c] = "queued"
         /\ \E r \in Write(s, c, "cancelled") :
               Become(r.to) /\ stopper' = Report(d, c, IF r.ok THEN "ok" ELSE "failed")
      \/ /\ mem[c] \notin Safe \cup {"queued"}
         /\ \E r \in Write(s, c, "unknown") :
               Become(r.to) /\ stopper' = Report(d, c, IF r.ok THEN "ok" ELSE "failed")
      \/ /\ mem[c] \notin Safe \cup {"queued"} /\ Become(u)
         /\ stopper' = Report(d, c, IF stopper[d].first[c] = "failed" THEN "failed" ELSE "await")
  BY DEF Cancelled
<1>3. Good(Now, World) /\ WorldRight /\ JobRight(Now, Head1) /\ JobShape(Head1)
  BY <1>1, HeadIsRight DEF IInv
<1>4. /\ Head1.todo # {} /\ d \in Stopper /\ \A x \in Head1.todo : mem[x] # None
  BY <1>1, <1>3, NowFields DEF JobRight
<1>5. c \in Head1.todo /\ c \in Command /\ mem[c] # None
  BY <1>3, <1>4, FirstIsThere DEF JobShape
<1>6. S \in SUBSET Head1.todo /\ c \notin S
  OBVIOUS
<1> HIDE DEF c, d, S
<1>7. /\ Good(s, World) /\ Beside(Now, s) /\ Calm(s)
  BY <1>1, <1>3, <1>6, ServedRight
<1> HIDE DEF s
<1>8. s.mem = mem /\ Later(Now, s) /\ mem[c] \in Status \cup {None}
  BY <1>3, <1>5, <1>7, NowFields, LaterBeside DEF Beside, Good, Typed
<1>9. CASE mem[c] \in Safe /\ Become(Release(s, c)) /\ stopper' = Report(d, c, "ok")
  <2> DEFINE t == Release(s, c)
  <2>1. Good(t, World) /\ t.ledger = s.ledger /\ t.mem = s.mem
    BY <1>5, <1>7, ReleaseRight
  <2>2. Become(t)
    BY <1>9
  <2> HIDE DEF t
  <2>3. Later(Now, t) /\ t.mem[c] # "queued"
    BY <1>8, <1>9, <2>1, LaterByFields, LaterTwice, StatusApart
  <2>4. "ok" # "stop" /\ "ok" # "await"
    OBVIOUS
  <2> QED
    BY <1>1, <1>4, <1>5, <1>9, <2>1, <2>2, <2>3, <2>4, Reported
<1>10. ASSUME NEW next, Legit(s, World, c, next), next # "queued", NEW r \in Write(s, c, next), Become(r.to),
              stopper' = Report(d, c, IF r.ok THEN "ok" ELSE "failed")
       PROVE  IInv'
  <2>1. /\ Good(r.to, World) /\ Later(s, r.to) /\ r.ok \in BOOLEAN
        /\ r.ok => r.to.mem = [s.mem EXCEPT ![c] = next]
    BY <1>5, <1>7, <1>10, WriteRight
  <2>2. Later(Now, r.to)
    BY <1>8, <2>1, LaterTwice
  <2> DEFINE x == IF r.ok THEN "ok" ELSE "failed"
  <2>3. stopper' = Report(d, c, x)
    BY <1>10
  <2>4. x \in {"ok", "failed"} /\ (r.ok = FALSE => x = "failed")
    OBVIOUS
  <2> HIDE DEF x
  <2>5. x # "stop" /\ x # "await"
    BY <2>4
  <2>6. r.to.mem[c] # "queued" \/ x \in {"job", "failed"}
    <3>1. CASE r.ok = TRUE
      <4>1. s.mem \in [Command -> Status \cup {None}]
        BY <1>7 DEF Good, Typed
      <4>2. r.to.mem[c] = next
        BY <1>5, <2>1, <3>1, <4>1
      <4> QED
        BY <1>10, <4>2
    <3>2. CASE r.ok = FALSE
      BY <2>4, <3>2
    <3> QED
      BY <2>1, <3>1, <3>2
  <2> QED
    BY <1>1, <1>4, <1>5, <1>10, <2>1, <2>2, <2>3, <2>5, <2>6, Reported
<1>11. CASE /\ mem[c] = "queued"
            /\ \E r \in Write(s, c, "cancelled") :
                  Become(r.to) /\ stopper' = Report(d, c, IF r.ok THEN "ok" ELSE "failed")
  <2>1. s.mem[c] = "queued" /\ "cancelled" \in Safe
    BY <1>8, <1>11 DEF Safe
  <2>2. Legit(s, World, c, "cancelled")
    BY <1>3, <1>5, <1>7, <2>1, QueuedLegit
  <2>3. "cancelled" # "queued"
    OBVIOUS
  <2> QED
    BY <1>10, <1>11, <2>2, <2>3
<1>12. CASE /\ mem[c] \notin Safe \cup {"queued"}
            /\ \E r \in Write(s, c, "unknown") :
                  Become(r.to) /\ stopper' = Report(d, c, IF r.ok THEN "ok" ELSE "failed")
  <2>1. s.mem[c] \in Claimed
    BY <1>5, <1>8, <1>12, StatusApart
  <2>2. "unknown" \in Claimed \cup Safe /\ "unknown" \notin Safe /\ "unknown" # "queued"
    BY DEF Claimed, Safe
  <2>3. Legit(s, World, c, "unknown")
    BY <1>5, <1>7, <2>1, <2>2, ClaimedLegit
  <2> QED
    BY <1>10, <1>12, <2>2, <2>3
<1>13. CASE /\ mem[c] \notin Safe \cup {"queued"} /\ Become(u)
            /\ stopper' = Report(d, c, IF stopper[d].first[c] = "failed" THEN "failed" ELSE "await")
  <2> DEFINE x == IF stopper[d].first[c] = "failed" THEN "failed" ELSE "await"
  <2>1. x \in {"failed", "await"} /\ stopper' = Report(d, c, x)
    BY <1>13
  <2> HIDE DEF x
  <2>2. {"handle"} \in SUBSET {"handle", "attached"} /\ "attached" \notin {"handle"}
    OBVIOUS
  <2>3. Good(u, World) /\ Beside(s, u)
    BY <1>5, <1>7, <2>2, HandleFound
  <2>4. Become(u)
    BY <1>13
  <2> HIDE DEF u
  <2>5. Later(Now, u) /\ u.mem[c] \notin {None, "queued"}
    BY <1>5, <1>8, <1>13, <2>3, LaterBeside, LaterTwice DEF Beside
  <2>6. x # "stop"
    BY <2>1
  <2> QED
    BY <1>1, <1>4, <1>5, <2>1, <2>3, <2>4, <2>5, <2>6, Reported
<1> QED
  BY <1>2, <1>9, <1>11, <1>12, <1>13

-----------------------------------------------------------------------------
(* The calls that cancel, dispose and resume. *)

\* A call k waits for handles of commands that are known in t.
Waits(t, k) ==
    \A c \in Command : /\ k.stage[c] = "stop" => t.mem[c] # None
                       /\ k.stage[c] = "await" => t.mem[c] \notin {None, "queued"}

\* A call goes on, and so may the world around it.
LEMMA OnwardCall ==
    ASSUME IInv, NEW t, Good(t, World'), Later(Now, t), Become(t),
           UNCHANGED <<proc, view, started, disposed>>, closed => closed',
           NEW d \in Stopper, NEW k, stopper' = [stopper EXCEPT ![d] = k], CallShape(k),
           d = "resume" => k.pc # "stop",
           Waits(t, k),
           d = "dispose" => /\ k.pc # "idle" => closed'
                            /\ k.pc = "cancel" => Knows(t, k)
    PROVE  IInv'
<1>1. StopperRight /\ DisposalRight /\ WorldRight
  BY DEF IInv
<1>2. Now' = t
  BY NowIs DEF Good
<1>3. /\ StopperRight'
      /\ stopper'[d] = k /\ \A x \in Stopper : x # d => stopper'[x] = stopper[x]
  <2>1. \A c \in Command : /\ k.stage[c] = "stop" => t.mem[c] # None
                           /\ k.stage[c] = "await" => t.mem[c] \notin {None, "queued"}
    BY DEF Waits
  <2> QED
    BY <1>1, <1>2, <2>1, StopperMoves
<1>4. stopper'["dispose"] = IF d = "dispose" THEN k ELSE stopper["dispose"]
  BY <1>3 DEF Stopper
<1>5. Good(Now, World)'
  <2>1. PICK n : n = World'
    OBVIOUS
  <2>2. Good(t, n) /\ Now' = t /\ World' = n
    BY <1>2, <2>1
  <2> QED
    BY <2>2, GoodNext
<1>6. WorldRight'
  BY <1>1 DEF WorldRight
<1>7. DisposalRight'
  <2>1. stopper'["dispose"].pc # "idle" => closed'
    BY <1>1, <1>4 DEF DisposalRight
  <2>2. ASSUME stopper'["dispose"].pc = "cancel", NEW x \in Command
        PROVE  /\ t.ledger[x] # None => t.mem[x] # None
               /\ t.mem[x] = "queued" => stopper'["dispose"].stage[x] \in {"job", "failed"}
    <3>1. CASE d = "dispose"
      BY <1>4, <2>2, <3>1 DEF Knows
    <3>2. CASE d # "dispose"
      <4>1. stopper["dispose"].pc = "cancel" /\ stopper'["dispose"] = stopper["dispose"]
        BY <1>4, <2>2, <3>2
      <4>2. PICK n : Good(t, n)
        OBVIOUS
      <4> QED
        BY <1>1, <2>2, <4>1, <4>2, DisposalKnows
    <3> QED
      BY <3>1, <3>2
  <2>3. PICK n : Good(t, n)
    OBVIOUS
  <2> QED
    BY <1>1, <1>2, <2>1, <2>2, <2>3, DisposalMoves
<1> QED
  BY <1>3, <1>5, <1>6, <1>7 DEF IInv

\* A job is put at the end of the lane.
LEMMA Queued ==
    ASSUME NEW s, NEW e, Good(s, e), NEW j, Joins(s, e, j)
    PROVE  LET t == [s EXCEPT !.lane = Append(@, j)] IN
           Good(t, e) /\ Beside(s, t) /\ t.flag = s.flag /\ t.lane = Append(s.lane, j)
<1> DEFINE q == Append(s.lane, j)
           t == [s EXCEPT !.lane = q]
<1>1. Good(t, e)
  BY JobJoins
<1>2. [s EXCEPT !.lane = Append(@, j)] = t
  OBVIOUS
<1> HIDE DEF q
<1>3. Beside(s, t) /\ t.flag = s.flag /\ t.lane = q
  BY LaneSet DEF Beside, Good
<1> HIDE DEF t
<1> QED
  BY <1>1, <1>2, <1>3 DEF q

LEMMA StepCallTool ==
    ASSUME IInv, CallTool
    PROVE  IInv'
<1> DEFINE j == NewJob("recover", 0, "tool", FALSE)
           t == [Now EXCEPT !.lane = Append(@, j)]
<1>1. /\ Become(t)
      /\ UNCHANGED <<proc, view, started, woken, closed, disposed>>
  BY DEF CallTool, Quiet, portVars
<1>2. PICK c \in Command :
         stopper' = [stopper EXCEPT !["tool"] = [Idle EXCEPT !.pc = "recover", !.stage[c] = "mine"]]
  BY DEF CallTool
<1>3. Good(Now, World) /\ StopperRight
  BY DEF IInv
<1>4. /\ JobShape(j) /\ j.kind = "recover" /\ j.by = "tool" /\ j.pc = "first"
  BY DEF NewJob, Job, JobShape
<1> HIDE DEF j
<1>5. Joins(Now, World, j)
  BY <1>4 DEF Joins, JobRight, OfDispose, Stopper
<1>6. Good(t, World) /\ Beside(Now, t)
  BY <1>3, <1>5, Queued
<1> HIDE DEF t
<1> DEFINE i == [Idle EXCEPT !.pc = "recover"]
           k == [i EXCEPT !.stage[c] = "mine"]
<1>7. stopper' = [stopper EXCEPT !["tool"] = k]
  BY <1>2
<1>8. CallShape(i) /\ i.pc = "recover" /\ i.stage = Idle.stage
  BY IdleShape, CallAt
<1> HIDE DEF i
<1>9. CallShape(k) /\ k.pc = "recover" /\ k.stage = [i.stage EXCEPT ![c] = "mine"]
  BY <1>8, StageSet
<1> HIDE DEF k
<1>10. \A x \in Command : k.stage[x] \in {"mine", None}
  BY <1>8, <1>9, IdleShape
<1>11. \A x \in Command : k.stage[x] # "stop" /\ k.stage[x] # "await"
  BY <1>10 DEF None
<1>12. World' = World
  BY <1>1, <1>7, WorldSame DEF IInv, StopperRight, Stopper
<1>13. Later(Now, t) /\ Good(t, World')
  BY <1>6, <1>12, LaterBeside
<1>14. "tool" \in Stopper /\ "tool" # "dispose" /\ "tool" # "resume"
  BY DEF Stopper
<1>15. Waits(t, k)
  BY <1>11 DEF Waits
<1>16. PICK d : d = "tool"
  OBVIOUS
<1>17. /\ d \in Stopper /\ stopper' = [stopper EXCEPT ![d] = k] /\ d # "dispose" /\ d # "resume"
       /\ UNCHANGED <<proc, view, started, disposed>> /\ (closed => closed')
  BY <1>1, <1>7, <1>14, <1>16
<1> QED
  BY <1>1, <1>9, <1>13, <1>15, <1>17, OnwardCall

LEMMA StepCallStop ==
    ASSUME IInv, NEW d \in Stopper, CallStop(d)
    PROVE  IInv'
<1> DEFINE rest == IF d = "known" THEN Loaded \ Handled ELSE {}
           F == [c \in Command |-> IF d = "dispose" /\ c \in Loaded
                                   THEN flag[c] \cup {"disposePending"} ELSE flag[c]]
           marked == [Now EXCEPT !.flag = F]
           a == Aborted(marked, Loaded)
           t == Cancels(a, d, rest)
           G == [c \in Command |-> IF c \in Handled THEN "stop"
                                   ELSE IF c \in rest THEN "job" ELSE None]
           k == [pc |-> IF d = "known" THEN "cancel" ELSE "stop", late |-> FALSE,
                 first |-> [c \in Command |-> IF c \in Handled THEN "asked" ELSE None],
                 stage |-> G]
<1>1. /\ d \in {"known", "owner", "dispose"} /\ stopper[d].pc = "idle"
      /\ closed' = (closed \/ d = "dispose")
      /\ UNCHANGED <<proc, view, started, woken, disposed>>
      /\ stopper' = [stopper EXCEPT ![d] = k]
  BY DEF CallStop, Call
<1>2. Become(t)
  <2>1. /\ [c \in Command |-> IF d = "dispose" /\ c \in Loaded
                            THEN Now.flag[c] \cup {"disposePending"} ELSE Now.flag[c]] = F
    BY NowFields
  <2>2. [Now EXCEPT !.flag = [c \in Command |->
                        IF d = "dispose" /\ c \in Loaded THEN @[c] \cup {"disposePending"} ELSE @[c]]]
          = [Now EXCEPT !.flag = [c \in Command |-> IF d = "dispose" /\ c \in Loaded
                            THEN Now.flag[c] \cup {"disposePending"} ELSE Now.flag[c]]]
    OBVIOUS
  <2>3. Become(Cancels(Aborted([Now EXCEPT !.flag = [c \in Command |->
                        IF d = "dispose" /\ c \in Loaded THEN @[c] \cup {"disposePending"} ELSE @[c]]],
                               Loaded), d, rest))
    BY DEF CallStop
  <2> HIDE DEF rest, F
  <2>4. [Now EXCEPT !.flag = [c \in Command |->
                        IF d = "dispose" /\ c \in Loaded THEN @[c] \cup {"disposePending"} ELSE @[c]]]
          = marked
    BY <2>1, <2>2
  <2> QED
    BY <2>3, <2>4
<1>3. Good(Now, World) /\ StopperRight
  BY DEF IInv
<1>4. \A c \in Command : c \in Loaded <=> mem[c] # None
  BY DEF Loaded
<1>5. Loaded \in SUBSET Command /\ Handled \subseteq Loaded
  BY DEF Loaded, Handled
<1>6. rest \in SUBSET Loaded
  OBVIOUS
<1> HIDE DEF rest
<1>7. /\ F \in [Command -> SUBSET Flag]
      /\ \A c \in Command : /\ "launch" \in F[c] => "launch" \in Now.flag[c]
                            /\ "dispatching" \in Now.flag[c] => "dispatching" \in F[c]
                            /\ "attached" \in F[c] => "attached" \in Now.flag[c]
  <2>1. Now.flag \in [Command -> SUBSET Flag] /\ Now.flag = flag
    BY <1>3, NowFields DEF Good, Typed
  <2> QED
    BY <2>1 DEF Flag
<1> HIDE DEF F
<1>8. Good(marked, World)
  BY <1>3, <1>7, FlagsMove
<1>9. Beside(Now, marked)
  BY <1>3, <1>7, FlagSet DEF Beside, Good
<1> HIDE DEF marked
<1>10. /\ Good(a, World) /\ Beside(marked, a)
       /\ \A c \in Command : c \in Loaded => "launch" \notin a.flag[c]
  BY <1>5, <1>8, AbortedRight
<1> HIDE DEF a
<1>11. Beside(Now, a)
  BY <1>9, <1>10 DEF Beside
<1>12. \A c \in Command : "launch" \notin a.flag[c]
  <2>1. ASSUME NEW c \in Command, "launch" \in a.flag[c] PROVE FALSE
    <3>1. a.mem[c] \in {"queued"} \cup Safe
      BY <1>10, <2>1 DEF Good, Row
    <3>2. mem[c] # None
      BY <1>11, <3>1, NowFields, StatusApart DEF Beside
    <3> QED
      BY <1>4, <1>10, <2>1, <3>2
  <2> QED
    BY <2>1
<1>13. /\ CallShape(k) /\ k.pc = (IF d = "known" THEN "cancel" ELSE "stop") /\ k.stage = G
  BY DEF CallShape
<1> HIDE DEF k
<1>14. stopper'[d] = k /\ \A x \in Stopper : x # d => stopper'[x] = stopper[x]
  BY <1>1, <1>3 DEF StopperRight
<1>15. Good(a, World')
  <2>1. stopper'["dispose"] = IF d = "dispose" THEN k ELSE stopper["dispose"]
    BY <1>14 DEF Stopper
  <2>2. PICK n : n = World'
    OBVIOUS
  <2>3. PICK e : e = World
    OBVIOUS
  <2>4. /\ n.started = e.started /\ n.woken = e.woken /\ n.proc = e.proc /\ n.view = e.view
        /\ n.drained => e.drained
        /\ ~n.recovering => ~e.recovering
    BY <1>1, <1>13, <2>1, <2>2, <2>3 DEF World
  <2>5. \A c \in Command : a.ledger[c] \in Safe => n.proc[c] # "alive" /\ n.view[c] # "running"
    BY <1>10, <2>3, <2>4 DEF Good, Truth
  <2>6. Good(a, n)
    BY <1>10, <1>12, <2>3, <2>4, <2>5, WorldMoves
  <2> QED
    BY <2>2, <2>6
<1>16. Good(t, World') /\ Beside(a, t)
  <2>1. PICK n : n = World'
    OBVIOUS
  <2>2. \A c \in rest : a.mem[c] # None
    BY <1>4, <1>5, <1>6, <1>11, NowFields DEF Beside
  <2>3. Good(a, n) /\ rest \in SUBSET Command
    BY <1>5, <1>6, <1>15, <2>1
  <2>4. Good(t, n) /\ Beside(a, t)
    BY <2>2, <2>3, CancelsRight
  <2> QED
    BY <2>1, <2>4
<1> HIDE DEF t
<1>17. Later(Now, t) /\ t.mem = mem
  BY <1>11, <1>16, LaterBeside, LaterTwice, NowFields DEF Beside
<1>18. \A c \in Command : /\ k.stage[c] = "stop" => t.mem[c] # None
                          /\ k.stage[c] # "await"
  BY <1>4, <1>5, <1>13, <1>17 DEF None
<1>19. /\ d = "resume" => k.pc # "stop"
       /\ d = "dispose" => closed' /\ k.pc # "cancel"
       /\ closed => closed'
  BY <1>1, <1>13
<1>20. Waits(t, k)
  BY <1>18 DEF Waits
<1>21. d = "dispose" => /\ k.pc # "idle" => closed'
                        /\ k.pc = "cancel" => Knows(t, k)
  BY <1>19
<1>22. UNCHANGED <<proc, view, started, disposed>> /\ (d = "resume" => k.pc # "stop") /\ (closed => closed')
  BY <1>1, <1>19
<1> QED
  BY <1>1, <1>2, <1>13, <1>16, <1>17, <1>20, <1>21, <1>22, OnwardCall

LEMMA FirstSet ==
    ASSUME NEW k, CallShape(k), NEW c \in Command, NEW x
    PROVE  LET i == [k EXCEPT !.first[c] = x] IN
           CallShape(i) /\ i.pc = k.pc /\ i.late = k.late /\ i.stage = k.stage
<1> DEFINE G == [k.first EXCEPT ![c] = x]
           i == [k EXCEPT !.first = G]
<1>1. k.first = [y \in Command |-> k.first[y]]
  BY DEF CallShape
<1>2. G = [y \in Command |-> G[y]]
  BY <1>1
<1>3. G = [k.first EXCEPT ![c] = x]
  OBVIOUS
<1> HIDE DEF G
<1>4. CallShape(i) /\ i.pc = k.pc /\ i.late = k.late /\ i.stage = k.stage
  BY <1>2 DEF CallShape
<1>5. [k EXCEPT !.first[c] = x] = i
  BY <1>3
<1> HIDE DEF i
<1> QED
  BY <1>4, <1>5

Answers(d, c, x, y) ==
    stopper' = [stopper EXCEPT ![d].stage[c] = x, ![d].first[c] = y]

\* A call that waited for a handle waits for it no more.
LEMMA AnswerRight ==
    ASSUME IInv, NEW d \in Stopper, NEW c \in Command, stopper[d].stage[c] \in {"stop", "await"},
           NEW x \in {"job", None}, NEW y,
           NEW t, Good(t, World), Become(t), t.ledger = ledger, t.mem = mem,
           Answers(d, c, x, y),
           UNCHANGED <<proc, view, started, woken, closed, disposed>>
    PROVE  IInv'
<1> DEFINE i == [stopper[d] EXCEPT !.stage[c] = x]
           k == [i EXCEPT !.first[c] = y]
<1>1. StopperRight /\ DisposalRight /\ CallShape(stopper[d]) /\ Good(Now, World)
  BY DEF IInv, StopperRight
<1>2. stopper' = [stopper EXCEPT ![d] = k]
  <2>1. stopper = [z \in Stopper |-> stopper[z]]
    BY <1>1 DEF StopperRight
  <2>2. stopper' = [[stopper EXCEPT ![d].stage[c] = x] EXCEPT ![d].first[c] = y]
    BY DEF Answers
  <2>3. [stopper EXCEPT ![d].stage[c] = x] = [stopper EXCEPT ![d] = i]
    OBVIOUS
  <2>4. i = [stopper[d] EXCEPT !.stage[c] = x]
    OBVIOUS
  <2> HIDE DEF i
  <2> DEFINE w == [stopper EXCEPT ![d] = i]
  <2>5. w[d] = i
    BY <2>1
  <2>6. [w EXCEPT ![d].first[c] = y] = [w EXCEPT ![d] = [w[d] EXCEPT !.first[c] = y]]
    OBVIOUS
  <2>7. [w EXCEPT ![d] = k] = [stopper EXCEPT ![d] = k]
    <3> HIDE DEF k
    <3> QED
      BY <2>1
  <2>8. stopper' = [w EXCEPT ![d].first[c] = y]
    BY <2>2, <2>3
  <2> HIDE DEF w
  <2> QED
    BY <2>5, <2>6, <2>7, <2>8
<1> HIDE DEF k
<1>3. /\ CallShape(i) /\ i.pc = stopper[d].pc /\ i.stage[c] = x
      /\ \A z \in Command : z # c => i.stage[z] = stopper[d].stage[z]
  BY <1>1, StageSet
<1> HIDE DEF i
<1>4. /\ CallShape(k) /\ k.pc = stopper[d].pc /\ k.stage = i.stage
  BY <1>3, FirstSet DEF k
<1>5. Later(Now, t)
  BY LaterByFields, NowFields
<1>6. World' = World
  <2>1. stopper'["dispose"].pc = stopper["dispose"].pc
    BY <1>1, <1>2, <1>4 DEF StopperRight, Stopper
  <2> QED
    BY <2>1, WorldSame
<1>7. Waits(t, k)
  BY <1>1, <1>3, <1>4 DEF StopperRight, Waits, None
<1>8. d = "dispose" => /\ k.pc # "idle" => closed'
                       /\ k.pc = "cancel" => Knows(t, k)
  <2>1. ASSUME d = "dispose", k.pc = "cancel" PROVE Knows(t, k)
    <3>1. \A z \in Command :
             /\ ledger[z] # None => mem[z] # None
             /\ mem[z] = "queued" => stopper[d].stage[z] \in {"job", "failed"}
      BY <1>1, <1>4, <2>1 DEF DisposalRight
    <3>2. mem[c] # "queued"
      BY <3>1
    <3> QED
      BY <1>3, <1>4, <3>1, <3>2 DEF Knows
  <2>2. d = "dispose" /\ k.pc # "idle" => closed
    BY <1>1, <1>4 DEF DisposalRight
  <2> QED
    BY <2>1, <2>2
<1>9. Good(t, World')
  BY <1>6
<1>10. (d = "resume" => k.pc # "stop") /\ (closed => closed')
  BY <1>1, <1>4 DEF StopperRight
<1> QED
  BY <1>2, <1>4, <1>5, <1>7, <1>8, <1>9, <1>10, OnwardCall

LEMMA NowBecomes ==
    ASSUME UNCHANGED <<ledger, heap>>
    PROVE  Become(Now)
  BY NowFields DEF Become, heap

LEMMA StepAnswered ==
    ASSUME IInv, NEW d \in Stopper, NEW c \in Command, Answered(d, c)
    PROVE  IInv'
<1>1. /\ stopper[d].stage[c] \in {"stop", "await"}
      /\ UNCHANGED <<proc, view, started, woken, closed, disposed>>
  BY DEF Answered, Quiet, portVars
<1>2. Good(Now, World) /\ StopperRight
  BY DEF IInv
<1>3. CASE stopper[d].stage[c] = "await"
  <2> DEFINE j == NewJob("settle", c, d, d = "dispose")
             t == [Now EXCEPT !.lane = Append(@, j)]
  <2>1. Become(t) /\ stopper' = Report(d, c, "settle")
    BY <1>3 DEF Answered
  <2>2. JobShape(j) /\ j.kind = "settle" /\ j.cmd = c /\ j.by = d /\ j.pc = "first"
    BY DEF NewJob, Job, JobShape
  <2> HIDE DEF j
  <2>3. mem[c] \notin {None, "queued"}
    BY <1>2, <1>3 DEF StopperRight
  <2>4. Joins(Now, World, j)
    BY <2>2, <2>3, NowFields DEF Joins, JobRight, OfDispose
  <2>5. Good(t, World) /\ Beside(Now, t)
    BY <1>2, <2>4, Queued
  <2> HIDE DEF t
  <2>6. Later(Now, t) /\ t.mem[c] # "queued"
    BY <2>3, <2>5, LaterBeside, NowFields DEF Beside
  <2>7. PICK x : x = "settle"
    OBVIOUS
  <2>8. x # "stop" /\ x # "await" /\ stopper' = Report(d, c, x)
    BY <2>1, <2>7
  <2> QED
    BY <1>1, <2>1, <2>5, <2>6, <2>8, Reported
<1>4. CASE stopper[d].stage[c] # "await" /\ d = "known"
  <2> DEFINE t == Cancels(Now, d, {c})
  <2>1. Become(t)
        /\ stopper' = [stopper EXCEPT ![d].stage[c] = "job", ![d].first[c] = "ok"]
    BY <1>4 DEF Answered
  <2>2. {c} \in SUBSET Command /\ \A z \in {c} : Now.mem[z] # None
    BY <1>1, <1>2, <1>4, NowFields DEF StopperRight
  <2>3. Good(t, World) /\ Beside(Now, t)
    BY <1>2, <2>2, CancelsRight
  <2> HIDE DEF t
  <2>4. Good(t, World) /\ Become(t) /\ t.ledger = ledger /\ t.mem = mem
    BY <2>1, <2>3, NowFields DEF Beside
  <2>5. PICK x : x = "job"
    OBVIOUS
  <2>6. PICK y : y = "ok"
    OBVIOUS
  <2>7. x \in {"job", None} /\ Answers(d, c, x, y)
    BY <2>1, <2>5, <2>6 DEF Answers
  <2> QED
    BY <1>1, <2>4, <2>7, AnswerRight
<1>5. CASE stopper[d].stage[c] # "await" /\ d # "known"
  <2>1. PICK y : stopper' = [stopper EXCEPT ![d].stage[c] = None, ![d].first[c] = y]
    BY <1>5 DEF Answered
  <2>2. Become(Now)
    BY <1>5 DEF Answered
  <2>3. PICK x : x = None
    OBVIOUS
  <2>4. x \in {"job", None} /\ Answers(d, c, x, y)
    BY <2>1, <2>3 DEF Answers
  <2> QED
    BY <1>1, <1>2, <2>2, <2>4, NowFields, AnswerRight
<1> QED
  BY <1>3, <1>4, <1>5

LEMMA StepTimedOut ==
    ASSUME IInv, NEW d \in Stopper, NEW c \in Command, TimedOut(d, c)
    PROVE  IInv'
<1>1. /\ stopper[d].stage[c] \in {"stop", "await"}
      /\ UNCHANGED <<proc, view, started, woken, closed, disposed>>
  BY DEF TimedOut, Quiet, portVars
<1>2. Good(Now, World) /\ StopperRight /\ Become(Now)
  BY NowBecomes DEF IInv, TimedOut
<1>3. CASE stopper[d].stage[c] = "await"
  <2>1. stopper' = Report(d, c, "failed")
    BY <1>3 DEF TimedOut
  <2>2. Now.mem[c] # "queued" /\ Later(Now, Now)
    BY <1>2, <1>3, NowFields, LaterByFields DEF StopperRight
  <2>3. PICK x : x = "failed"
    OBVIOUS
  <2>4. x # "stop" /\ x # "await" /\ stopper' = Report(d, c, x)
    BY <2>1, <2>3
  <2> QED
    BY <1>1, <1>2, <2>2, <2>4, Reported
<1>4. CASE stopper[d].stage[c] # "await"
  <2>1. PICK y : stopper' = [stopper EXCEPT ![d].stage[c] = None, ![d].first[c] = y]
    BY <1>4 DEF TimedOut
  <2>2. PICK x : x = None
    OBVIOUS
  <2>3. x \in {"job", None} /\ Answers(d, c, x, y)
    BY <2>1, <2>2 DEF Answers
  <2> QED
    BY <1>1, <1>2, <2>3, NowFields, AnswerRight
<1> QED
  BY <1>3, <1>4

LEMMA StepStopRecovers ==
    ASSUME IInv, NEW d \in Stopper, StopRecovers(d)
    PROVE  IInv'
<1> DEFINE j == NewJob("recover", 0, d, FALSE)
           k == [stopper[d] EXCEPT !.pc = "recover"]
           t == [Now EXCEPT !.lane = Append(@, j)]
<1>1. /\ stopper[d].pc = "stop" /\ (d = "dispose" => lane = <<>>) /\ Become(t)
      /\ UNCHANGED <<proc, view, started, woken, closed, disposed>>
  BY DEF StopRecovers, Quiet, portVars
<1>2. stopper' = [stopper EXCEPT ![d] = k]
  BY DEF StopRecovers
<1>3. Good(Now, World) /\ StopperRight /\ DisposalRight /\ CallShape(stopper[d]) /\ d # "resume"
  BY <1>1 DEF IInv, StopperRight
<1>4. CallShape(k) /\ k.pc = "recover" /\ k.stage = stopper[d].stage
  BY <1>3, CallAt
<1> HIDE DEF k
<1>5. JobShape(j) /\ j.kind = "recover" /\ j.by = d /\ j.pc = "first"
  BY DEF NewJob, Job, JobShape
<1> HIDE DEF j
<1>6. stopper'["dispose"] = IF d = "dispose" THEN k ELSE stopper["dispose"]
  BY <1>2, <1>3 DEF StopperRight, Stopper
<1>7. PICK n : n = World'
  OBVIOUS
<1>8. Good(Now, n) /\ (d = "dispose" => n.recovering)
  <2>1. CASE d = "dispose"
    <3>1. PICK e : e = World
      OBVIOUS
    <3>2. /\ n.started = e.started /\ n.woken = e.woken /\ n.proc = e.proc /\ n.view = e.view
          /\ n.closed = e.closed /\ n.recovering
      BY <1>1, <1>4, <1>6, <1>7, <2>1, <3>1 DEF World
    <3>3. Good(Now, e) /\ Now.lane = <<>>
      BY <1>1, <1>3, <2>1, <3>1, NowFields
    <3>4. \A c \in Command : Now.ledger[c] \in Safe => n.proc[c] # "alive" /\ n.view[c] # "running"
      BY <3>2, <3>3 DEF Good, Truth
    <3>5. Good(Now, n)
      BY <3>2, <3>3, <3>4, WorldMoves
    <3> QED
      BY <3>2, <3>5
  <2>2. CASE d # "dispose"
    <3>1. World' = World
      BY <1>1, <1>6, <2>2, WorldSame
    <3> QED
      BY <1>3, <1>7, <2>2, <3>1
  <2> QED
    BY <2>1, <2>2
<1>9. Joins(Now, n, j)
  <2>1. OfDispose(j) => n.recovering /\ \A i \in 1..Len(Now.lane) : ~OfDispose(Now.lane[i])
    <3>1. OfDispose(j) => n.recovering /\ Now.lane = <<>>
      BY <1>1, <1>5, <1>8, NowFields DEF OfDispose
    <3>2. 1..Len(<<>>) = {}
      OBVIOUS
    <3> QED
      BY <3>1, <3>2
  <2> QED
    BY <1>3, <1>5, <2>1 DEF Joins, JobRight
<1>10. Good(t, n) /\ Beside(Now, t)
  BY <1>8, <1>9, Queued
<1> HIDE DEF t
<1>11. Good(t, World') /\ Later(Now, t) /\ t.mem = mem
  BY <1>7, <1>10, LaterBeside, NowFields DEF Beside
<1>12. Waits(t, k)
  BY <1>3, <1>4, <1>11 DEF Waits, StopperRight
<1>13. /\ (d = "dispose" => (k.pc # "idle" => closed') /\ (k.pc = "cancel" => Knows(t, k)))
       /\ (d = "resume" => k.pc # "stop") /\ (closed => closed')
  BY <1>1, <1>3, <1>4 DEF DisposalRight
<1> QED
  BY <1>1, <1>2, <1>4, <1>11, <1>12, <1>13, OnwardCall

LEMMA StepStopEnds ==
    ASSUME IInv, NEW d \in Stopper, StopEnds(d)
    PROVE  IInv'
<1>1. /\ d # "dispose" /\ stopper' = [stopper EXCEPT ![d] = Idle] /\ Become(Now)
      /\ UNCHANGED <<proc, view, started, woken, closed, disposed>>
  BY NowBecomes DEF StopEnds, Quiet, portVars
<1>2. Good(Now, World) /\ Later(Now, Now)
  BY LaterByFields DEF IInv
<1>3. /\ CallShape(Idle) /\ Idle.pc \notin {"stop", "recover"}
      /\ \A c \in Command : Idle.stage[c] \notin {"stop", "await"}
  BY IdleShape DEF None
<1> QED
  BY <1>1, <1>2, <1>3, CallGoes

\* The ledger, what is known of it and the lane are as they are.
AsNow(t) == t.ledger = ledger /\ t.mem = mem /\ t.lane = lane

LEMMA QuarantinedRight ==
    ASSUME NEW e, Good(Now, e), Quarantined, UNCHANGED <<ledger, mem, ahead, pending, slot, lane>>
    PROVE  \E t : Become(t) /\ Good(t, e) /\ AsNow(t)
<1> DEFINE F == [c \in Command |-> IF c \in Loaded THEN flag[c] \cup {"disposeFailed"} ELSE flag[c]]
           u == [Now EXCEPT !.flag = F]
           t == [u EXCEPT !.quarantine = TRUE]
<1>1. flag' = F /\ quarantine' = TRUE
  BY DEF Quarantined
<1>2. /\ F \in [Command -> SUBSET Flag]
      /\ \A c \in Command : /\ "launch" \in F[c] => "launch" \in Now.flag[c]
                            /\ "dispatching" \in Now.flag[c] => "dispatching" \in F[c]
                            /\ "attached" \in F[c] => "attached" \in Now.flag[c]
  <2>1. Now.flag \in [Command -> SUBSET Flag] /\ Now.flag = flag
    BY NowFields DEF Good, Typed
  <2> QED
    BY <2>1 DEF Flag
<1> HIDE DEF F
<1>3. Good(u, e) /\ Typed(u)
  BY <1>2, FlagsMove DEF Good
<1>4. Beside(Now, u) /\ u.flag = F /\ u.lane = Now.lane
  BY <1>2, FlagSet DEF Beside, Good
<1> HIDE DEF u
<1>5. /\ Typed(t) /\ t.quarantine = TRUE
      /\ t.ledger = u.ledger /\ t.mem = u.mem /\ t.ahead = u.ahead /\ t.pending = u.pending
      /\ t.slot = u.slot /\ t.flag = u.flag /\ t.lane = u.lane
  BY <1>3, QuarantineSet
<1> HIDE DEF t
<1>6. Good(t, e)
  <2>1. \A c \in Command : Row(t, c) /\ Truth(t, e, c)
    BY <1>3, <1>5 DEF Good, Row, Truth
  <2>2. \A c \in Command : Waiting(u, c) => Waiting(t, c)
    BY <1>5 DEF Waiting
  <2>3. ASSUME u.lane # <<>> PROVE HeadRight(t, e, u.lane[1])
    <3>1. HeadRight(u, e, u.lane[1])
      BY <1>3, <2>3 DEF Good
    <3> QED
      BY <1>5, <3>1 DEF HeadRight
  <2> QED
    BY <1>3, <1>5, <2>1, <2>2, <2>3, RowsMove
<1>7. /\ t.ledger = ledger /\ t.mem = mem /\ t.ahead = ahead /\ t.pending = pending
      /\ t.slot = slot /\ t.flag = F /\ t.lane = lane
  BY <1>4, <1>5, NowFields DEF Beside
<1>8. Become(t)
  BY <1>1, <1>5, <1>7 DEF Become
<1> QED
  BY <1>6, <1>7, <1>8 DEF AsNow

LEMMA StepDisposeTimesOut ==
    ASSUME IInv, DisposeTimesOut
    PROVE  IInv'
<1> DEFINE d == "dispose"
           k == [stopper["dispose"] EXCEPT !.late = TRUE]
<1>1. /\ stopper["dispose"].pc # "idle" /\ Quarantined
      /\ UNCHANGED <<proc, view, started, woken, closed, disposed>>
      /\ UNCHANGED <<ledger, mem, ahead, pending, slot, lane>>
  BY DEF DisposeTimesOut, Quarantined, portVars
<1>2. stopper' = [stopper EXCEPT !["dispose"] = k]
  BY DEF DisposeTimesOut
<1>3. Good(Now, World) /\ StopperRight /\ DisposalRight /\ CallShape(stopper["dispose"])
  BY DEF IInv, StopperRight, Stopper
<1>4. CallShape(k) /\ k.pc = stopper["dispose"].pc /\ k.stage = stopper["dispose"].stage
  BY <1>3, CallLate
<1> HIDE DEF k
<1>5. PICK t : Become(t) /\ Good(t, World) /\ AsNow(t)
  BY <1>1, <1>3, QuarantinedRight
<1>6. t.ledger = ledger /\ t.mem = mem /\ Later(Now, t)
  BY <1>5, LaterByFields, NowFields DEF AsNow
<1>7. World' = World
  BY <1>1, <1>2, <1>3, <1>4, WorldSame DEF StopperRight, Stopper
<1>8. Good(t, World')
  BY <1>5, <1>7
<1>9. Waits(t, k)
  BY <1>3, <1>4, <1>6 DEF Waits, StopperRight, Stopper
<1>10. PICK x : x = "dispose"
  OBVIOUS
<1>11. /\ x \in Stopper /\ stopper' = [stopper EXCEPT ![x] = k]
       /\ (x = "resume" => k.pc # "stop") /\ (closed => closed')
  BY <1>1, <1>2, <1>10 DEF Stopper
<1>12. x = "dispose" => /\ k.pc # "idle" => closed'
                        /\ k.pc = "cancel" => Knows(t, k)
  BY <1>1, <1>3, <1>4, <1>6 DEF DisposalRight, Knows
<1> QED
  BY <1>1, <1>4, <1>5, <1>6, <1>8, <1>9, <1>11, <1>12, OnwardCall

\* A disposal that saw no failure and no claim left every row safe.
LEMMA AllSafe ==
    ASSUME IInv, stopper["dispose"].pc = "cancel", StopDone("dispose"), DisposeSucceeds
    PROVE  \A c \in Command : ledger[c] \in {None} \cup Safe
<1> SUFFICES ASSUME NEW c \in Command PROVE ledger[c] \in {None} \cup Safe
  OBVIOUS
<1>1. /\ ledger[c] # None => mem[c] # None
      /\ mem[c] = "queued" => stopper["dispose"].stage[c] \in {"job", "failed"}
  BY DEF IInv, DisposalRight
<1>2. Row(Now, c) /\ mem[c] \in Status \cup {None} /\ Now.mem = mem /\ Now.ledger = ledger
  BY NowFields DEF IInv, Good, Typed
<1>3. stopper["dispose"].stage[c] \in {None, "ok", "failed"}
      /\ stopper["dispose"].stage[c] # "failed"
  BY DEF StopDone, DisposeSucceeds, Stages
<1>4. mem[c] # "queued"
  BY <1>1, <1>3 DEF None
<1>5. mem[c] # None => mem[c] \notin Claimed
  BY DEF DisposeSucceeds, Loaded
<1>6. mem[c] \in {None} \cup Safe
  BY <1>2, <1>4, <1>5 DEF Status
<1> QED
  BY <1>1, <1>2, <1>6 DEF Row

LEMMA StepDisposeEnds ==
    ASSUME IInv, DisposeEnds
    PROVE  IInv'
<1>1. /\ stopper["dispose"].pc = "reject" \/ (StopDone("dispose") /\ lane = <<>>)
      /\ stopper' = [stopper EXCEPT !["dispose"] = Idle]
      /\ UNCHANGED <<proc, view, started, woken, closed>>
      /\ UNCHANGED <<ledger, mem, ahead, pending, slot, lane>>
      /\ \/ UNCHANGED <<quarantine, flag, disposed>>
         \/ /\ stopper["dispose"].pc = "cancel" /\ DisposeSucceeds
            /\ disposed' = TRUE /\ UNCHANGED <<quarantine, flag>>
         \/ Quarantined
  BY DEF DisposeEnds, portVars
<1>2. Good(Now, World) /\ StopperRight /\ DisposalRight
  BY DEF IInv
<1>3. stopper["dispose"].pc \in {"reject", "cancel"} /\ closed
  BY <1>1, <1>2 DEF StopDone, DisposalRight
<1>4. /\ CallShape(Idle) /\ Idle.pc = "idle" /\ \A c \in Command : Idle.stage[c] \notin {"stop", "await"}
  BY IdleShape DEF None
<1>5. stopper'["dispose"] = Idle /\ \A x \in Stopper : x # "dispose" => stopper'[x] = stopper[x]
  BY <1>1, <1>2 DEF StopperRight, Stopper
<1>6. World' = World
  BY <1>1, <1>3, <1>4, <1>5 DEF World
<1>7. ASSUME NEW t, Become(t), Good(t, World), t.ledger = ledger, t.mem = mem, UNCHANGED disposed
      PROVE  IInv'
  <2>1. Later(Now, t)
    BY <1>7, LaterByFields, NowFields
  <2>2. Good(t, World')
    BY <1>6, <1>7
  <2>3. Waits(t, Idle)
    BY <1>4 DEF Waits
  <2>4. PICK x : x = "dispose"
    OBVIOUS
  <2>5. PICK k : k = Idle
    OBVIOUS
  <2>6. /\ x \in Stopper /\ stopper' = [stopper EXCEPT ![x] = k]
        /\ (x = "resume" => k.pc # "stop") /\ (closed => closed') /\ CallShape(k) /\ Waits(t, k)
    BY <1>1, <1>4, <2>3, <2>4, <2>5 DEF Stopper
  <2>7. x = "dispose" => /\ k.pc # "idle" => closed'
                         /\ k.pc = "cancel" => Knows(t, k)
    BY <1>4, <2>5
  <2>8. UNCHANGED <<proc, view, started, disposed>> /\ Become(t)
    BY <1>1, <1>7
  <2> QED
    BY <2>1, <2>2, <2>6, <2>7, <2>8, OnwardCall
<1>8. CASE UNCHANGED <<quarantine, flag, disposed>>
  <2>1. Become(Now)
    BY <1>1, <1>8, NowFields DEF Become
  <2> QED
    BY <1>2, <1>7, <1>8, <2>1, NowFields
<1>9. CASE Quarantined
  <2>1. PICK t : Become(t) /\ Good(t, World) /\ AsNow(t)
    BY <1>1, <1>2, <1>9, QuarantinedRight
  <2> QED
    BY <1>7, <1>9, <2>1 DEF AsNow, Quarantined
<1>10. CASE /\ stopper["dispose"].pc = "cancel" /\ DisposeSucceeds
            /\ disposed' = TRUE /\ UNCHANGED <<quarantine, flag>>
  <2>1. \A c \in Command : ledger[c] \in {None} \cup Safe
    BY <1>1, <1>10, AllSafe
  <2>2. Become(Now)
    BY <1>1, <1>10, NowFields DEF Become
  <2>3. Now' = Now
    BY <1>2, <2>2, NowIs DEF Good
  <2>4. Good(Now, World)'
    BY <1>2, <1>6, <2>3, GoodNext
  <2>5. WorldRight'
    BY <1>1 DEF IInv, WorldRight
  <2>6. StopperRight'
    <3>1. Waits(Now, Idle) /\ Later(Now, Now)
      BY <1>4, LaterByFields DEF Waits
    <3>2. "dispose" \in Stopper /\ "dispose" # "resume"
      BY DEF Stopper
    <3>3. \A c \in Command : /\ Idle.stage[c] = "stop" => Now.mem[c] # None
                             /\ Idle.stage[c] = "await" => Now.mem[c] \notin {None, "queued"}
      BY <3>1 DEF Waits
    <3> QED
      BY <1>1, <1>2, <1>4, <2>3, <3>1, <3>2, <3>3, StopperMoves
  <2>7. DisposalRight'
    <3>1. stopper'["dispose"].pc = "idle" /\ closed' /\ ledger' = ledger
      BY <1>1, <1>3, <1>4, <1>5
    <3> QED
      BY <2>1, <3>1 DEF DisposalRight
  <2> QED
    BY <2>4, <2>5, <2>6, <2>7 DEF IInv
<1> QED
  BY <1>1, <1>8, <1>9, <1>10

LEMMA StepCallResume ==
    ASSUME IInv, CallResume
    PROVE  IInv'
<1> DEFINE j == NewJob("recover", 0, "resume", TRUE)
           i == [Idle EXCEPT !.pc = "recover"]
           t == [Now EXCEPT !.lane = Append(@, j)]
<1>1. /\ ~disposed /\ closed /\ stopper["dispose"].pc = "idle" /\ closed' = FALSE
      /\ Become(t)
      /\ UNCHANGED <<proc, view, started, woken, disposed>>
  BY DEF CallResume, portVars
<1>2. stopper' = [stopper EXCEPT !["resume"] = i]
  BY DEF CallResume
<1>3. Good(Now, World) /\ StopperRight /\ DisposalRight /\ WorldRight
  BY DEF IInv
<1>4. JobShape(j) /\ j.kind = "recover" /\ j.by = "resume" /\ j.pc = "first"
  BY DEF NewJob, Job, JobShape
<1> HIDE DEF j
<1>5. CallShape(i) /\ i.pc = "recover" /\ i.stage = Idle.stage
  BY IdleShape, CallAt
<1> HIDE DEF i
<1>6. Joins(Now, World, j)
  <2>1. World.closed /\ World.drained
    BY <1>1 DEF World
  <2>2. /\ \A k \in 1..Len(Now.lane) : Now.lane[k].kind # "start"
        /\ \A c \in Command : "launch" \notin Now.flag[c]
    BY <1>3, <2>1 DEF Good, Fence
  <2> QED
    BY <1>4, <2>2 DEF Joins, JobRight, OfDispose, Stopper
<1>7. Good(t, World) /\ Beside(Now, t)
  BY <1>3, <1>6, Queued
<1> HIDE DEF t
<1>8. stopper'["resume"] = i /\ \A x \in Stopper : x # "resume" => stopper'[x] = stopper[x]
  BY <1>2, <1>3 DEF StopperRight, Stopper
<1>9. stopper'["dispose"] = stopper["dispose"]
  BY <1>8 DEF Stopper
<1>10. Now' = t
  BY <1>1, <1>7, NowIs DEF Good
<1>11. Good(Now, World)'
  <2>1. PICK n : n = World'
    OBVIOUS
  <2>2. PICK e : e = World
    OBVIOUS
  <2>3. /\ n.started = e.started /\ n.woken = e.woken /\ n.proc = e.proc /\ n.view = e.view
        /\ ~n.closed /\ ~n.drained /\ n.recovering = e.recovering
    BY <1>1, <1>9, <2>1, <2>2 DEF World
  <2>4. \A c \in Command : t.ledger[c] \in Safe => n.proc[c] # "alive" /\ n.view[c] # "running"
    BY <1>7, <2>2, <2>3 DEF Good, Truth
  <2>5. ~n.recovering => ~e.recovering
    BY <2>3
  <2>6. Good(t, n)
    BY <1>7, <2>2, <2>3, <2>4, <2>5, WorldMoves
  <2> QED
    BY <1>10, <2>1, <2>6, GoodNext
<1>12. WorldRight'
  BY <1>1, <1>3 DEF WorldRight
<1>13. StopperRight'
  <2>1. \A c \in Command : /\ i.stage[c] = "stop" => t.mem[c] # None
                           /\ i.stage[c] = "await" => t.mem[c] \notin {None, "queued"}
    BY <1>5, IdleShape DEF None
  <2>2. Later(Now, t)
    BY <1>7, LaterBeside
  <2>3. PICK d : d = "resume"
    OBVIOUS
  <2>4. d \in Stopper /\ stopper' = [stopper EXCEPT ![d] = i] /\ (d = "resume" => i.pc # "stop")
    BY <1>2, <1>5, <2>3 DEF Stopper
  <2> QED
    BY <1>3, <1>5, <1>10, <2>1, <2>2, <2>4, StopperMoves
<1>14. DisposalRight'
  BY <1>1, <1>9 DEF DisposalRight
<1> QED
  BY <1>11, <1>12, <1>13, <1>14 DEF IInv

-----------------------------------------------------------------------------
(* The callers, other processes and the end of this one. *)

LEMMA StepCallStart ==
    ASSUME IInv, NEW c \in Command, CallStart(c)
    PROVE  IInv'
<1> DEFINE j == NewJob("start", c, None, FALSE)
           t == [Now EXCEPT !.lane = Append(@, j)]
<1>1. /\ ~closed /\ Become(t)
      /\ UNCHANGED <<proc, view, started, woken, closed, disposed, stopper>>
  BY DEF CallStart, Quiet, portVars
<1>2. Good(Now, World)
  BY DEF IInv
<1>3. JobShape(j) /\ j.kind = "start" /\ j.cmd = c /\ j.by = None /\ j.pc = "first"
  BY DEF NewJob, Job, JobShape
<1> HIDE DEF j
<1>4. ~World.drained
  BY <1>1 DEF World
<1>5. Joins(Now, World, j)
  BY <1>3, <1>4 DEF Joins, JobRight, OfDispose
<1>6. Good(t, World) /\ Beside(Now, t)
  BY <1>2, <1>5, Queued
<1> HIDE DEF t
<1> QED
  BY <1>1, <1>6, OnwardBeside

\* All but what the ledger says is the same.
Other(s, t) ==
    /\ t.mem = s.mem /\ t.pending = s.pending /\ t.slot = s.slot /\ t.flag = s.flag
    /\ t.lane = s.lane /\ t.quarantine = s.quarantine

LEMMA StepForeign ==
    ASSUME IInv, NEW c \in Command, Foreign(c)
    PROVE  IInv'
<1> DEFINE L == [ledger EXCEPT ![c] = IF @ = "queued" THEN "interrupted" ELSE "missing"]
           A == [ahead EXCEPT ![c] = IF mem[c] = None THEN 0 ELSE @ + 1]
           u == [Now EXCEPT !.ledger = L]
           t == [u EXCEPT !.ahead = A]
<1>1. /\ ledger[c] \in {"queued", "running", "unknown"} /\ ledger' = L /\ ahead' = A
      /\ UNCHANGED <<mem, pending, slot, flag, lane, quarantine>>
      /\ UNCHANGED <<proc, view, started, woken, closed, disposed, stopper>>
  BY DEF Foreign, portVars
<1>2. Good(Now, World) /\ WorldRight /\ Typed(Now)
  BY DEF IInv, Good
<1>3. ledger \in [Command -> Status \cup {None}] /\ ahead \in [Command -> Nat]
  BY <1>2, NowFields DEF Typed
<1>4. /\ L \in [Command -> Status \cup {None}]
      /\ \A d \in Command : d # c => L[d] = ledger[d]
      /\ L[c] = IF ledger[c] = "queued" THEN "interrupted" ELSE "missing"
  BY <1>3 DEF Status, Safe, Claimed
<1>5. /\ A \in [Command -> Nat] /\ \A d \in Command : d # c => A[d] = ahead[d]
      /\ mem[c] # None => A[c] # 0
  BY <1>3
<1> HIDE DEF L, A
<1>6. Typed(u) /\ u.ledger = L /\ Other(Now, u) /\ u.ahead = ahead
  BY <1>2, <1>4, LedgerSet, NowFields DEF Other
<1> HIDE DEF u
<1>7. Typed(t) /\ t.ledger = L /\ t.ahead = A /\ Other(Now, t)
  BY <1>5, <1>6, AheadSet DEF Other
<1> HIDE DEF t
<1>8. /\ t.mem = mem /\ t.pending = pending /\ t.slot = slot /\ t.flag = flag /\ t.lane = lane
      /\ t.quarantine = quarantine
  BY <1>7, NowFields DEF Other
<1>9. Become(t)
  BY <1>1, <1>7, <1>8 DEF Become
<1>10. \A d \in Command : Row(Now, d) /\ Truth(Now, World, d)
  BY <1>2 DEF Good
<1>11. \A d \in Command : d # c => Row(t, d) /\ Truth(t, World, d)
  BY <1>4, <1>5, <1>7, <1>8, <1>10, NowFields DEF Row, Truth
<1>12. Row(t, c)
  <2>1. Row(Now, c)
    BY <1>10
  <2>2. ledger[c] \notin Safe /\ L[c] \notin {None, "queued"}
    BY <1>1, <1>4 DEF Safe, None
  <2>3. "launch" \in flag[c] => L[c] \notin Claimed
    BY <1>1, <1>4, <2>1, NowFields DEF Row, Claimed
  <2>4. mem[c] \notin Safe
    BY <2>1, <2>2, NowFields DEF Row
  <2> QED
    BY <1>5, <1>7, <1>8, <2>1, <2>2, <2>3, <2>4, NowFields DEF Row
<1>13. Truth(t, World, c)
  <2>1. Truth(Now, World, c)
    BY <1>10
  <2>2. L[c] \in Safe => ledger[c] = "queued"
    BY <1>4 DEF Safe
  <2>3. L[c] \in Safe => proc[c] # "alive" /\ view[c] # "running"
    BY <1>2, <2>1, <2>2, NowFields, NeverStarted DEF Truth, World
  <2>4. World.proc = proc /\ World.view = view /\ L[c] \notin {None, "queued"}
    BY <1>4 DEF World, None
  <2> QED
    BY <1>7, <1>8, <2>1, <2>3, <2>4, NowFields DEF Truth
<1>14. \A d \in Command : Waiting(Now, d) => Waiting(t, d)
  <2>1. \A d \in Command : ledger[d] \notin Claimed => L[d] \notin Claimed
    BY <1>1, <1>4 DEF Claimed
  <2> QED
    BY <1>7, <1>8, <2>1, NowFields DEF Waiting
<1>15. ASSUME lane # <<>> PROVE HeadRight(t, World, lane[1])
  <2>1. HeadRight(Now, World, lane[1])
    BY <1>2, <1>15, NowFields DEF Good
  <2>2. \A d \in Command : /\ ledger[d] \notin Claimed => L[d] \notin Claimed
                           /\ ledger[d] \in Claimed => L[d] \in Claimed
                           /\ L[d] # None => ledger[d] # None
    BY <1>1, <1>4 DEF Claimed, None
  <2>3. lane[1].pc = "enqueue" => lane[1].cmd \in Command
    <3>1. JobRight(Now, lane[1])
      BY <1>2, <1>15, HeadIsRight DEF Head1
    <3> QED
      BY <2>1, <3>1 DEF HeadRight, JobRight
  <2> QED
    BY <1>7, <1>8, <2>1, <2>2, <2>3, NowFields DEF HeadRight
<1>16. Good(t, World)
  <2>1. \A d \in Command : Row(t, d) /\ Truth(t, World, d)
    BY <1>11, <1>12, <1>13
  <2> QED
    BY <1>2, <1>7, <1>8, <1>14, <1>15, <2>1, NowFields, RowsMove
<1>17. Later(Now, t)
  <2>1. \A d \in Command : /\ ledger[d] \in Safe => L[d] \in Safe
                           /\ ledger[d] = None => L[d] = None
    BY <1>1, <1>4 DEF Safe, None
  <2> QED
    BY <1>7, <1>8, <2>1, NowFields DEF Later
<1> QED
  BY <1>1, <1>9, <1>16, <1>17, Onward

LEMMA BlankRight ==
    ASSUME NEW l \in [Command -> Status \cup {None}], NEW e,
           \A c \in Command : /\ l[c] \in {None, "queued"} => c \notin e.started
                              /\ l[c] \in Safe => e.proc[c] # "alive" /\ e.view[c] # "running",
           e.woken = {}
    PROVE  Good(Blank(l), e)
<1> DEFINE b == Blank(l)
<1>1. /\ b.ledger = l /\ b.mem = [c \in Command |-> None] /\ b.pending = [c \in Command |-> None]
      /\ b.ahead = [c \in Command |-> 0] /\ b.slot = [c \in Command |-> None]
      /\ b.flag = [c \in Command |-> {}] /\ b.lane = <<>> /\ b.quarantine = FALSE
      /\ b = [ledger |-> b.ledger, mem |-> b.mem, ahead |-> b.ahead, pending |-> b.pending,
              slot |-> b.slot, flag |-> b.flag, lane |-> b.lane, quarantine |-> b.quarantine]
  BY DEF Blank
<1> HIDE DEF b
<1>2. Typed(b)
  <2>1. [c \in Command |-> None] \in [Command -> Status \cup {None}]
    OBVIOUS
  <2>2. [c \in Command |-> None] \in [Command -> Place]
    BY DEF Place
  <2> QED
    BY <1>1, <2>1, <2>2 DEF Typed
<1>3. \A c \in Command : b.mem[c] = None /\ b.flag[c] = {}
  BY <1>1
<1>4. \A c \in Command : Row(b, c) /\ Truth(b, e, c)
  BY <1>1, <1>3, StatusApart DEF Row, Truth
<1>5. IsSeq(b.lane) /\ 1..Len(b.lane) = {}
  BY <1>1 DEF IsSeq
<1>6. LaneRight(b) /\ Single(b, e)
  BY <1>5 DEF LaneRight, Single
<1>7. Fence(b, e)
  BY <1>3, <1>5 DEF Fence
<1> QED
  BY <1>1, <1>2, <1>4, <1>6, <1>7 DEF Good, b

\* Nothing is called.
LEMMA AllIdle ==
    ASSUME stopper' = [d \in Stopper |-> Idle]
    PROVE  StopperRight' /\ stopper'["dispose"].pc = "idle"
  BY IdleShape DEF StopperRight, Stopper, None

LEMMA StepCrash ==
    ASSUME IInv, Crash
    PROVE  IInv'
<1>1. /\ Become(Blank(ledger)) /\ woken' = {} /\ closed' = FALSE /\ disposed' = FALSE
      /\ stopper' = [d \in Stopper |-> Idle] /\ view' = [c \in Command |-> "absent"]
      /\ UNCHANGED <<proc, started>>
  BY DEF Crash
<1>2. Good(Now, World) /\ WorldRight /\ ledger \in [Command -> Status \cup {None}]
  BY NowFields DEF IInv, Good, Typed
<1>3. \A c \in Command : /\ ledger[c] \in {None, "queued"} => c \notin started
                         /\ ledger[c] \in Safe => proc[c] # "alive"
  BY <1>2, NowFields DEF Good, Truth, World
<1>4. Good(Blank(ledger), World')
  <2>1. PICK n : n = World'
    OBVIOUS
  <2>2. /\ n.started = started /\ n.proc = proc /\ n.woken = {}
        /\ \A c \in Command : n.view[c] # "running"
    BY <1>1, <2>1 DEF World
  <2>3. Good(Blank(ledger), n)
    BY <1>2, <1>3, <2>2, BlankRight
  <2> QED
    BY <2>1, <2>3
<1>5. Now' = Blank(ledger)
  <2> DEFINE b == Blank(ledger)
  <2>1. Become(b) /\ Typed(b)
    BY <1>1, <1>4 DEF Good
  <2> HIDE DEF b
  <2>2. Now' = b
    BY <2>1, NowIs
  <2> QED
    BY <2>2 DEF b
<1>6. Good(Now, World)'
  <2> DEFINE b == Blank(ledger)
  <2>1. PICK n : n = World'
    OBVIOUS
  <2>2. Now' = b /\ Good(b, n)
    BY <1>4, <1>5, <2>1
  <2> HIDE DEF b
  <2> QED
    BY <2>1, <2>2, GoodNext
<1>7. WorldRight'
  BY <1>1, <1>2 DEF WorldRight
<1>8. StopperRight' /\ stopper'["dispose"].pc = "idle"
  BY <1>1, AllIdle
<1>9. DisposalRight'
  BY <1>1, <1>8 DEF DisposalRight
<1> QED
  BY <1>6, <1>7, <1>8, <1>9 DEF IInv

LEMMA StepPortMoves ==
    ASSUME IInv, NEW c \in Command, PortMoves(c)
    PROVE  IInv'
<1>1. /\ PortStep(c)
      /\ UNCHANGED <<ledger, heap>> /\ UNCHANGED <<woken, closed, disposed, stopper, started>>
  BY DEF PortMoves
<1>2. Good(Now, World) /\ WorldRight /\ Become(Now)
  BY <1>1, NowBecomes DEF IInv
<1>3. /\ proc \in [Command -> {"none", "alive", "gone"}] /\ view \in [Command -> View \cup {"absent"}]
      /\ c \notin started => proc[c] = "none" /\ view[c] = "absent"
      /\ view[c] = "stopped" => proc[c] # "alive"
  BY <1>2 DEF WorldRight
<1>4. /\ proc' \in [Command -> {"none", "alive", "gone"}] /\ view' \in [Command -> View \cup {"absent"}]
      /\ \A d \in Command : d # c => proc'[d] = proc[d] /\ view'[d] = view[d]
      /\ c \in started
      /\ view'[c] = "stopped" => proc'[c] # "alive"
      /\ proc'[c] = "alive" => proc[c] = "alive" \/ view[c] = "running"
      /\ view'[c] = "running" => view[c] = "running"
  <2>1. CASE Launch(c)
    BY <1>3, <2>1 DEF Launch
  <2>2. CASE End(c)
    BY <1>3, <2>2 DEF End
  <2>3. CASE Settle(c)
    <3>1. /\ view[c] \in OpenView /\ UNCHANGED proc
      BY <2>3 DEF Settle
    <3>2. PICK v \in View \ {"running"} :
             (v \in StoppedView => proc[c] # "alive") /\ view' = [view EXCEPT ![c] = v]
      BY <2>3 DEF Settle
    <3>3. view[c] # "absent"
      BY <3>1 DEF OpenView
    <3>4. view'[c] = v /\ \A d \in Command : d # c => view'[d] = view[d]
      BY <1>3, <3>2
    <3>5. view' \in [Command -> View \cup {"absent"}]
      BY <1>3, <3>2
    <3> QED
      BY <1>3, <3>1, <3>2, <3>3, <3>4, <3>5 DEF StoppedView
  <2> QED
    BY <1>1, <2>1, <2>2, <2>3 DEF PortStep
<1>5. Good(Now, World')
  <2>1. PICK n : n = World'
    OBVIOUS
  <2>2. PICK e : e = World
    OBVIOUS
  <2>3. /\ n.started = e.started /\ n.woken = e.woken /\ n.closed = e.closed
        /\ n.drained = e.drained /\ n.recovering = e.recovering
        /\ n.proc = proc' /\ n.view = view' /\ e.proc = proc /\ e.view = view
    BY <1>1, <2>1, <2>2 DEF World
  <2>4. \A d \in Command : Now.ledger[d] \in Safe => e.proc[d] # "alive" /\ e.view[d] # "running"
    BY <1>2, <2>2 DEF Good, Truth
  <2>5. \A d \in Command : Now.ledger[d] \in Safe => n.proc[d] # "alive" /\ n.view[d] # "running"
    BY <1>4, <2>3, <2>4
  <2>6. ~n.recovering => ~e.recovering
    BY <2>3
  <2>7. Good(Now, n)
    BY <1>2, <2>2, <2>3, <2>5, <2>6, WorldMoves
  <2> QED
    BY <2>1, <2>7
<1>6. WorldRight'
  BY <1>1, <1>2, <1>4 DEF WorldRight
<1>7. Later(Now, Now)
  BY LaterByFields
<1> QED
  BY <1>1, <1>2, <1>5, <1>6, <1>7, OnwardWorld

-----------------------------------------------------------------------------
(* The invariant holds of every state. *)

LEMMA InitRight ==
    ASSUME Init
    PROVE  IInv
<1> DEFINE l == [c \in Command |-> None]
           b == Blank(l)
<1>1. /\ ledger = b.ledger /\ mem = b.mem /\ ahead = b.ahead /\ pending = b.pending
      /\ slot = b.slot /\ flag = b.flag /\ lane = b.lane /\ quarantine = b.quarantine
  BY DEF Init
<1>2. /\ woken = {} /\ closed = FALSE /\ disposed = FALSE /\ started = {}
      /\ stopper = [d \in Stopper |-> Idle]
      /\ proc = [e \in Execution |-> "none"] /\ view = [e \in Execution |-> "absent"]
  BY DEF Init, PortInit
<1>3. l \in [Command -> Status \cup {None}] /\ \A c \in Command : l[c] \notin Safe
  BY StatusApart
<1> HIDE DEF l
<1>4. Good(b, World)
  <2>1. PICK e : e = World
    OBVIOUS
  <2>2. e.started = {} /\ e.woken = {}
    BY <1>2, <2>1 DEF World
  <2>3. Good(b, e)
    BY <1>3, <2>2, BlankRight
  <2> QED
    BY <2>1, <2>3
<1>5. Now = b
  <2>1. Typed(b)
    BY <1>4 DEF Good
  <2> HIDE DEF b
  <2> QED
    BY <1>1, <2>1 DEF Typed, Now
<1>6. WorldRight
  <2>1. Execution = Command
    BY CommandTaskAssumption
  <2> QED
    BY <1>2, <2>1 DEF WorldRight
<1>7. StopperRight /\ stopper["dispose"].pc = "idle"
  BY <1>2, IdleShape DEF StopperRight, Stopper, None
<1>8. DisposalRight
  BY <1>2, <1>7 DEF DisposalRight
<1> QED
  BY <1>4, <1>5, <1>6, <1>7, <1>8 DEF IInv

LEMMA StepKeeps ==
    ASSUME IInv, [Next]_vars
    PROVE  IInv'
<1>1. CASE Jobs
  <2>1. CASE TurnedAway BY <2>1, StepTurnedAway
  <2>2. CASE Load BY <2>2, StepLoad
  <2>3. CASE RecoverEach BY <2>3, StepRecoverEach
  <2>4. CASE Publish BY <2>4, StepPublish
  <2>5. CASE Insert BY <2>5, StepInsert
  <2>6. CASE Enqueue BY <2>6, StepEnqueue
  <2>7. CASE DispatchCheck BY <2>7, StepDispatchCheck
  <2>8. CASE Refused BY <2>8, StepRefused
  <2>9. CASE Authorized BY <2>9, StepAuthorized
  <2>10. CASE Submit BY <2>10, StepSubmit
  <2>11. CASE Settling BY <2>11, StepSettling
  <2>12. CASE Cancelled BY <2>12, StepCancelled
  <2> QED
    BY <1>1, <2>1, <2>2, <2>3, <2>4, <2>5, <2>6, <2>7, <2>8, <2>9, <2>10, <2>11, <2>12 DEF Jobs
<1>2. CASE DisposeEnds
  BY <1>2, StepDisposeEnds
<1>3. CASE DisposeTimesOut
  BY <1>3, StepDisposeTimesOut
<1>4. ASSUME NEW d \in Stopper, CallStop(d) \/ Stops(d) PROVE IInv'
  <2>1. CASE CallStop(d)
    BY <2>1, StepCallStop
  <2>2. CASE StopRecovers(d)
    BY <2>2, StepStopRecovers
  <2>3. CASE StopEnds(d)
    BY <2>3, StepStopEnds
  <2>4. ASSUME NEW c \in Command, Answered(d, c) \/ TimedOut(d, c) PROVE IInv'
    BY <2>4, StepAnswered, StepTimedOut
  <2> QED
    BY <1>4, <2>1, <2>2, <2>3, <2>4 DEF Stops
<1>5. CASE CallTool
  BY <1>5, StepCallTool
<1>6. CASE CallResume
  BY <1>6, StepCallResume
<1>7. ASSUME NEW c \in Command,
             CallStart(c) \/ Wake(c) \/ Notify(c) \/ Foreign(c) \/ PortMoves(c)
      PROVE  IInv'
  <2>1. CASE CallStart(c)
    BY <2>1, StepCallStart
  <2>2. CASE Wake(c)
    BY <2>2, StepWake
  <2>3. CASE Notify(c)
    BY <2>3, StepNotify
  <2>4. CASE Foreign(c)
    BY <2>4, StepForeign
  <2>5. CASE PortMoves(c)
    BY <2>5, StepPortMoves
  <2> QED
    BY <1>7, <2>1, <2>2, <2>3, <2>4, <2>5
<1>8. CASE Crash
  BY <1>8, StepCrash
<1>9. CASE UNCHANGED vars
  <2>1. /\ UNCHANGED <<ledger, heap>>
        /\ UNCHANGED <<proc, view, started, woken, closed, disposed, stopper>>
    BY <1>9 DEF vars, portVars
  <2>2. Become(Now) /\ Later(Now, Now) /\ Good(Now, World)
    BY <2>1, NowBecomes, LaterByFields DEF IInv
  <2> QED
    BY <2>1, <2>2, Onward
<1> QED
  BY <1>1, <1>2, <1>3, <1>4, <1>5, <1>6, <1>7, <1>8, <1>9 DEF Next

\* Whatever is called, answered late, not stored, done elsewhere or lost in a
\* crash: the queue, the slots, the flags and the rows of the runtime fit each
\* other and the processes.
THEOREM Invariance ==
    Spec => []IInv
<1>1. Init => IInv
  BY InitRight
<1>2. IInv /\ [Next]_vars => IInv'
  BY StepKeeps
<1> QED
  BY <1>1, <1>2, PTL DEF Spec

\* A row that says stopped, cancelled or interrupted is of a command no process of
\* which is alive, and none will be: #settle, #cancel, #recover, #dispatch and
\* another process on the same ledger may all have written it.
THEOREM SafeIsOver ==
    Spec => []SafeIsStopped
<1>1. IInv => SafeIsStopped
  BY NowFields DEF IInv, Good, Truth, SafeIsStopped, World
<1> QED
  BY <1>1, Invariance, PTL

\* A command that may be running keeps its slot until its row is safe, though its
\* claim, its handle or the answer to a write was lost, so that the scheduler
\* admits nothing in its place.
THEOREM SlotIsHeld ==
    Spec => []SlotHeld
<1>1. ASSUME IInv PROVE SlotHeld
  <2> SUFFICES ASSUME NEW c \in Loaded, proc[c] = "alive"
               PROVE  slot[c] = "active"
    BY DEF SlotHeld
  <2>1. c \in Command /\ mem[c] # None
    BY DEF Loaded
  <2>2. Row(Now, c) /\ Truth(Now, World, c) /\ mem[c] \in Status \cup {None}
    BY <1>1, <2>1, NowFields DEF IInv, Good, Typed
  <2>3. c \in started
    BY <1>1, <2>1 DEF IInv, WorldRight
  <2>4. mem[c] # "queued"
    BY <2>2, <2>3, NowFields DEF Truth, World
  <2>5. mem[c] \notin Safe
    <3>1. ledger[c] \notin Safe
      BY <2>2, NowFields DEF Truth, World
    <3> QED
      BY <2>2, <3>1, NowFields DEF Row
  <2>6. mem[c] \in Claimed
    BY <2>1, <2>2, <2>4, <2>5 DEF Status
  <2> QED
    BY <2>2, <2>6, NowFields DEF Row
<1>2. IInv => SlotHeld
  BY <1>1
<1> QED
  BY <1>2, Invariance, PTL

\* dispose that resolves leaves no command behind that is not settled on record:
\* what came after it, the late end of a handle or a repeated call, changes
\* nothing of that.
THEOREM DisposalIsFinal ==
    Spec => []DisposedIsSettled
<1>1. ASSUME IInv PROVE DisposedIsSettled
  <2> SUFFICES ASSUME disposed, NEW c \in Loaded
               PROVE  ledger[c] \in Safe /\ proc[c] # "alive"
    BY DEF DisposedIsSettled
  <2>1. c \in Command /\ mem[c] # None
    BY DEF Loaded
  <2>2. Row(Now, c) /\ Truth(Now, World, c)
    BY <1>1, <2>1 DEF IInv, Good
  <2>3. ledger[c] \in {None} \cup Safe
    BY <1>1, <2>1 DEF IInv, DisposalRight
  <2>4. ledger[c] \in Safe
    BY <2>1, <2>2, <2>3, NowFields DEF Row
  <2> QED
    BY <2>2, <2>4, NowFields DEF Truth, World
<1>2. IInv => DisposedIsSettled
  BY <1>1
<1> QED
  BY <1>2, Invariance, PTL

\* Only Submit hands a command to the port.
LEMMA StartStep ==
    ASSUME IInv, [Next]_vars, NEW c \in Command, view[c] = "absent", view'[c] = "running"
    PROVE  c \notin started /\ ledger[c] \in Claimed
<1>1. view' # view
  OBVIOUS
<1>2. Submit \/ Crash \/ \E d \in Command : PortMoves(d)
  <2>1. ~(TurnedAway \/ Load \/ RecoverEach \/ Publish \/ Insert)
    BY <1>1 DEF TurnedAway, Load, RecoverEach, Publish, Insert, Quiet, portVars
  <2>2. ~(Enqueue \/ DispatchCheck \/ Refused \/ Authorized \/ Settling \/ Cancelled)
    <3>1. ~(Enqueue \/ DispatchCheck \/ Refused \/ Authorized)
      BY <1>1 DEF Enqueue, DispatchCheck, Refused, Authorized, Quiet, portVars
    <3>2. ~(Settling \/ Cancelled)
      <4>1. ~Settling
        BY <1>1 DEF Settling, Quiet, portVars
      <4>2. ~Cancelled
        BY <1>1 DEF Cancelled
      <4> QED
        BY <4>1, <4>2
    <3> QED
      BY <3>1, <3>2
  <2>3. ~(DisposeEnds \/ DisposeTimesOut \/ CallTool \/ CallResume)
    BY <1>1 DEF DisposeEnds, DisposeTimesOut, CallTool, CallResume, Quiet, portVars
  <2>4. \A d \in Stopper : ~CallStop(d) /\ ~Stops(d)
    <3>1. ASSUME NEW d \in Stopper, CallStop(d) PROVE FALSE
      BY <1>1, <3>1 DEF CallStop
    <3>2. ASSUME NEW d \in Stopper, Stops(d) PROVE FALSE
      <4>1. StopRecovers(d) \/ StopEnds(d) \/ \E x \in Command : Answered(d, x) \/ TimedOut(d, x)
        BY <3>2 DEF Stops
      <4>2. Quiet
        BY <4>1 DEF StopRecovers, StopEnds, Answered, TimedOut
      <4> QED
        BY <1>1, <4>2 DEF Quiet, portVars
    <3> QED
      BY <3>1, <3>2
  <2>5. \A d \in Command : ~(CallStart(d) \/ Wake(d) \/ Notify(d) \/ Foreign(d))
    BY <1>1 DEF CallStart, Wake, Notify, Foreign, Quiet, portVars
  <2>6. ~UNCHANGED vars
    BY <1>1 DEF vars, portVars
  <2> QED
    BY <2>1, <2>2, <2>3, <2>4, <2>5, <2>6 DEF Next, Jobs
<1>3. CASE Submit
  <2>1. AtHead("dispatch", "submit") /\ (view' = view \/ Claim(Head1.cmd))
    BY <1>3 DEF Submit, portVars
  <2>2. c = Head1.cmd
    <3>1. Claim(Head1.cmd)
      BY <1>1, <2>1
    <3>2. view' = [view EXCEPT ![Head1.cmd] = "running"]
      BY <3>1 DEF Claim
    <3>3. view \in [Command -> View \cup {"absent"}]
      BY DEF IInv, WorldRight
    <3> QED
      BY <3>2, <3>3
  <2> QED
    BY <2>1, <2>2, HeadDispatch DEF AtHead
<1>4. ~Crash
  BY DEF Crash
<1>5. ASSUME NEW d \in Command, PortMoves(d) PROVE FALSE
  <2>1. Settle(d)
    BY <1>1, <1>5 DEF PortMoves, PortStep, Launch, End
  <2>2. PICK v \in View \ {"running"} : view' = [view EXCEPT ![d] = v]
    BY <2>1 DEF Settle
  <2>3. view \in [Command -> View \cup {"absent"}]
    BY DEF IInv, WorldRight
  <2> QED
    BY <2>2, <2>3
<1> QED
  BY <1>2, <1>3, <1>4, <1>5

\* A command is handed to the execution port once, with its claim in the ledger:
\* a repeated call, a recovery, a resumption and a restart of the process all
\* leave what was handed over once alone.
THEOREM StartedAtMostOnce ==
    Spec => StartedOnce
<1> DEFINE A == \A c \in Command : (view[c] = "absent" /\ view'[c] = "running")
                                      => c \notin started /\ ledger[c] \in Claimed
<1>1. IInv /\ [Next]_vars => [A]_vars
  BY StartStep
<1>2. Spec => [][A]_vars
  BY <1>1, Invariance, PTL DEF Spec
<1> QED
  BY <1>2 DEF StartedOnce

-----------------------------------------------------------------------------
(***************************************************************************)
(* The executions behind the port, CommandExecution: for every set of      *)
(* processes the shell may start and any number of cancel requests, a stop *)
(* that is reported is one, a signal strays only in one narrow window, and the execution       *)
(* implements ExecutionPort, on which everything above stands.             *)
(***************************************************************************)
(* The inductive invariant. *)

\* Without a child there are no processes, and nothing settles before it.
NoGroupYet ==
    /\ launched # "child" => born = {}
    /\ launched = "no" => pc = "rest"

\* What has been reported, and what stands behind it.
ReportedRight ==
    /\ stopped => finished /\ group = {}
    /\ finished <=> status # "running"
    /\ finished <=> outcome # "pending"

\* What stopGroup has found out about the group holds from then on.
FoundRight ==
    /\ confirmed => groupGone
    /\ groupGone => group = {} /\ launched # "no"

\* The census: a member that was read and not found alive has ended, or its
\* entry could not be read.
CensusRight ==
    /\ scan.on => launched = "child"
    /\ scan.on /\ scan.whole /\ ~scan.live =>
         \A m \in scan.entries \ scan.left : m \notin group

\* An aimed signal: the number is the group's, unless it slipped.
AimRight ==
    /\ scan.aimed => scan.on
    /\ scan.aimed /\ reused => slipped
    /\ stray => slipped /\ reused

ExecIInv == TypeOK /\ NoGroupYet /\ ReportedRight /\ FoundRight /\ CensusRight /\ AimRight

-----------------------------------------------------------------------------
(* What a step does to the report. *)

ReportType ==
    /\ finished \in BOOLEAN /\ stopped \in BOOLEAN
    /\ stopping \in BOOLEAN /\ deadline \in BOOLEAN
    /\ status \in {"running", "ended", "cancelled", "unknown"}
    /\ outcome \in {"pending", "stopped", "unconfirmed"}
    /\ log \in [file : BOOLEAN, error : BOOLEAN, complete : BOOLEAN, active : BOOLEAN]

Seen == ViewOf(status, stopped)

SaysNothing == UNCHANGED <<status, stopped, outcome, stopping>>

TakesRequest ==
    /\ Seen # "stopped"
    /\ UNCHANGED <<status, stopped, outcome>> /\ stopping' = TRUE

Settles ==
    /\ Seen # "stopped" /\ Seen' # "running"
    /\ Seen' = "stopped" => group = {}
    /\ outcome' = IF outcome = "pending" THEN Seen' ELSE outcome
    /\ stopping' = FALSE

Reports ==
    /\ ReportType'
    /\ stopped' => finished' /\ group = {}
    /\ finished' <=> status' # "running"
    /\ finished' <=> outcome' # "pending"
    /\ SaysNothing \/ TakesRequest \/ Settles

LEMMA SilenceReports ==
    ASSUME ExecIInv, UNCHANGED <<result, stopping>>, deadline' \in BOOLEAN
    PROVE  Reports
  BY DEF ExecIInv, TypeOK, ReportedRight, Reports, ReportType, SaysNothing, result

\* finish, when a stop it claims is one.
LEMMA FinishReports ==
    ASSUME ExecIInv, NEW s \in {"ended", "cancelled", "unknown"}, NEW isStopped \in BOOLEAN,
           NEW lost \in BOOLEAN, isStopped => group = {}, Finish(s, isStopped, lost)
    PROVE  Reports
<1>1. CASE finished /\ stopped
  BY <1>1, SilenceReports DEF Finish, ExecIInv, TypeOK
<1>2. CASE ~(finished /\ stopped)
  <2>1. /\ finished' = TRUE /\ status' = s /\ stopped' = isStopped
        /\ outcome' = IF finished THEN outcome ELSE ViewOf(s, isStopped)
        /\ log' = Finalized(isStopped, lost)
        /\ stopping' = FALSE /\ deadline' = FALSE
    BY <1>2 DEF Finish
  <2>2. log' \in [file : BOOLEAN, error : BOOLEAN, complete : BOOLEAN, active : BOOLEAN]
    BY <2>1 DEF Finalized, ExecIInv, TypeOK
  <2>3. Seen' = ViewOf(s, isStopped)
    BY <2>1 DEF Seen
  <2>4. /\ ViewOf(s, isStopped) \in {"stopped", "unconfirmed"}
        /\ ViewOf(s, isStopped) = "stopped" => isStopped
    BY DEF ViewOf
  <2>5. Seen # "stopped"
    BY <1>2 DEF Seen, ViewOf, ExecIInv, ReportedRight
  <2>6. outcome' = IF outcome = "pending" THEN Seen' ELSE outcome
    BY <2>1, <2>3 DEF ExecIInv, ReportedRight
  <2>7. Settles
    BY <2>1, <2>3, <2>4, <2>5, <2>6 DEF Settles
  <2>8. outcome' \in {"stopped", "unconfirmed"}
    BY <2>3, <2>4, <2>6 DEF ExecIInv, TypeOK
  <2>9. ReportType'
    BY <2>1, <2>2, <2>8 DEF ReportType
  <2> QED
    BY <2>1, <2>7, <2>8, <2>9 DEF Reports
<1> QED
  BY <1>1, <1>2

LEMMA StopReports ==
    ASSUME ExecIInv, NEW reason \in {"cancelled", "timeout", "execution-error", "exit", "output-error"},
           launched # "no" => MayStop, Stop(reason)
    PROVE  /\ Reports
           /\ launched = "no" => UNCHANGED <<why, pc>>
           /\ launched # "no" => why' = reason /\ pc' = "term"
<1>1. CASE launched = "no"
  <2>1. group = {}
    BY <1>1 DEF ExecIInv, NoGroupYet, TypeOK
  <2>2. PICK s \in {"ended", "cancelled", "unknown"} : Finish(s, TRUE, incomplete)
    BY <1>1 DEF Stop
  <2>3. Reports
    BY <2>1, <2>2, FinishReports DEF ExecIInv, TypeOK
  <2> QED
    BY <1>1, <2>3 DEF Stop
<1>2. CASE launched # "no"
  <2>1. /\ stopping' = TRUE /\ deadline' = FALSE /\ UNCHANGED result
        /\ why' = reason /\ pc' = "term"
    BY <1>2 DEF Stop
  <2>2. TakesRequest
    BY <1>2, <2>1 DEF TakesRequest, Seen, ViewOf, MayStop, result, ExecIInv, ReportedRight
  <2>3. Reports
    BY <2>1, <2>2 DEF Reports, ReportType, result, ExecIInv, TypeOK, ReportedRight
  <2> QED
    BY <1>2, <2>1, <2>3
<1> QED
  BY <1>1, <1>2

LEMMA StopOrNotReports ==
    ASSUME ExecIInv, NEW reason \in {"cancelled", "timeout", "execution-error", "exit", "output-error"},
           launched # "no", StopOrNot(reason)
    PROVE  /\ Reports
           /\ why' \in {why, reason} /\ pc' \in {pc, "term"}
<1>1. CASE MayStop
  BY <1>1, StopReports DEF StopOrNot
<1>2. CASE ~MayStop
  BY <1>2, SilenceReports DEF StopOrNot, ExecIInv, TypeOK
<1> QED
  BY <1>1, <1>2

\* The end of stopGroup.
LEMMA ReturnReports ==
    ASSUME ExecIInv, NEW gone \in BOOLEAN, gone => group = {}, Return(gone)
    PROVE  /\ Reports
           /\ pc' \in {"rest", "drain"} /\ UNCHANGED <<why, stray>>
           /\ confirmed' = gone /\ groupGone' = (groupGone \/ gone)
<1>1. CASE finished
  <2>1. PICK s \in {"ended", "cancelled", "unknown"} : Finish(s, gone, incomplete)
    BY <1>1 DEF Return, Conclude
  <2>2. Reports
    BY <2>1, FinishReports DEF ExecIInv, TypeOK
  <2> QED
    BY <1>1, <2>2 DEF Return
<1>2. CASE ~finished
  <2>1. Reports
    BY <1>2, SilenceReports DEF Return, ExecIInv, TypeOK
  <2> QED
    BY <1>2, <2>1 DEF Return
<1> QED
  BY <1>1, <1>2 DEF ExecIInv, TypeOK

LEMMA ExecutionInit == ExecInit => ExecIInv
<1> SUFFICES ASSUME ExecInit PROVE ExecIInv
  OBVIOUS
<1>1. TypeOK
  <2>1. NoScan \in Scan /\ NoScan.entries = {} /\ NoScan.left = {}
    BY DEF NoScan, Scan
  <2>2. scan \in Scan /\ scan.entries \subseteq born /\ scan.left \subseteq scan.entries
    BY <2>1 DEF ExecInit
  <2>3. log \in [file : BOOLEAN, error : BOOLEAN, complete : BOOLEAN, active : BOOLEAN]
    BY DEF ExecInit
  <2>4. asks \in 0 .. MaxAsks
    BY CommandExecutionAssumption DEF ExecInit
  <2> QED
    BY <2>2, <2>3, <2>4 DEF ExecInit, TypeOK, SettlePC
<1>2. NoGroupYet /\ ReportedRight /\ FoundRight
  BY DEF ExecInit, NoGroupYet, ReportedRight, FoundRight
<1>3. CensusRight /\ AimRight
  BY DEF ExecInit, CensusRight, AimRight, NoScan
<1> QED
  BY <1>1, <1>2, <1>3 DEF ExecIInv
-----------------------------------------------------------------------------
(* A step of Node: it reports, and leaves the operating system alone. *)

ChildType ==
    /\ launched \in {"no", "none", "nopid", "child"}
    /\ identity \in BOOLEAN /\ exitSeen \in BOOLEAN
    /\ pipes \in {"open", "ended", "destroyed"}
    /\ ioFailed \in BOOLEAN /\ incomplete \in BOOLEAN

ControlType ==
    /\ why \in {"cancelled", "timeout", "identity", "execution-error", "exit", "output-error"}
    /\ pc \in SettlePC /\ asks \in 0 .. MaxAsks
    /\ confirmed \in BOOLEAN /\ groupGone \in BOOLEAN

LEMMA ExecTyped == ExecIInv => ChildType /\ ControlType
  BY DEF ExecIInv, TypeOK, ChildType, ControlType

\* What is reported is a step of the port.
LEMMA ReportIsPortStep ==
    ASSUME ExecIInv, Reports, ProcOf' = ProcOf
    PROVE  [Port!PortNext]_(Port!portVars)
<1>1. Seen \in {"running", "stopped", "unconfirmed"} /\ Seen' \in {"running", "stopped", "unconfirmed"}
  BY DEF Seen, ViewOf
<1>2. CASE SaysNothing
  <2>1. UNCHANGED Port!portVars
    BY <1>2 DEF SaysNothing, Port!portVars, ViewOf, ProcOf
  <2> QED
    BY <2>1
<1>3. CASE TakesRequest
  <2>1. Port!AskStop("x")
    BY <1>1, <1>3 DEF TakesRequest, Port!AskStop, Port!OpenView, Seen, ViewOf
  <2> QED
    BY <2>1 DEF Port!PortNext
<1>4. CASE Settles
  <2>1. group = {} => ProcOf # "alive"
    BY DEF ProcOf
  <2>2. Port!Settle("x")
    BY <1>1, <1>4, <2>1 DEF Settles, Port!Settle, Port!OpenView, Port!StoppedView, Port!View, Seen
  <2> QED
    BY <2>2 DEF Port!PortNext, Port!PortStep
<1> QED
  BY <1>2, <1>3, <1>4 DEF Reports

LEMMA NodeStep ==
    ASSUME ExecIInv, Reports, UNCHANGED os, scan' \in {scan, NoScan},
           ChildType', ControlType', ProcOf' = ProcOf,
           launched' # "child" => launched # "child", launched' = "no" => pc' = "rest",
           FoundRight', stray' = stray \/ (scan.aimed /\ stray' = (stray \/ reused))
    PROVE  ExecIInv' /\ [Port!PortNext]_(Port!portVars)
<1>1. NoScan \in Scan /\ NoScan.entries = {} /\ NoScan.left = {} /\ ~NoScan.on /\ ~NoScan.aimed
  BY DEF NoScan, Scan
<1>7. stray' \in BOOLEAN
  BY DEF ExecIInv, TypeOK
<1>2. TypeOK'
  BY <1>1, <1>7 DEF ExecIInv, TypeOK, ChildType, ControlType, Reports, ReportType, os
<1>8. AimRight'
  <2>1. UNCHANGED <<reused, slipped>> /\ reused \in BOOLEAN /\ slipped \in BOOLEAN
    BY DEF ExecIInv, TypeOK, os
  <2>2. scan'.aimed => scan'.on /\ scan.aimed
    BY <1>1 DEF ExecIInv, AimRight
  <2>3. stray' => stray \/ (scan.aimed /\ reused)
    OBVIOUS
  <2> QED
    BY <2>1, <2>2, <2>3 DEF ExecIInv, AimRight
<1>3. NoGroupYet'
  BY DEF ExecIInv, NoGroupYet, os
<1>4. ReportedRight'
  BY DEF Reports, ReportedRight, os
<1>5. CensusRight'
  BY <1>1 DEF ExecIInv, CensusRight, os
<1>6. ExecIInv'
  BY <1>2, <1>3, <1>4, <1>5, <1>8 DEF ExecIInv
<1> QED
  BY <1>6, ReportIsPortStep
-----------------------------------------------------------------------------
(* The microtask that spawns, and the events of the child. *)

LEMMA SpawnNothingStep == ExecIInv /\ SpawnNothing => ExecIInv' /\ [Port!PortNext]_(Port!portVars)
<1> SUFFICES ASSUME ExecIInv, SpawnNothing PROVE ExecIInv' /\ [Port!PortNext]_(Port!portVars)
  OBVIOUS
<1>1. Reports /\ UNCHANGED <<why, pc>>
  BY StopReports DEF SpawnNothing
<1>2. ChildType' /\ ControlType' /\ ProcOf' = ProcOf /\ FoundRight' /\ stray' = stray
  BY <1>1, ExecTyped DEF SpawnNothing, ChildType, ControlType, ProcOf, ExecIInv, FoundRight, os, child
<1>3. launched' = "no" => pc' = "rest"
  BY <1>1 DEF SpawnNothing, ExecIInv, NoGroupYet, child
<1> QED
  BY <1>1, <1>2, <1>3, NodeStep DEF SpawnNothing, child

LEMMA SpawnThrowsStep == ExecIInv /\ SpawnThrows => ExecIInv' /\ [Port!PortNext]_(Port!portVars)
<1> SUFFICES ASSUME ExecIInv, SpawnThrows PROVE ExecIInv' /\ [Port!PortNext]_(Port!portVars)
  OBVIOUS
<1>1. group = {}
  BY DEF SpawnThrows, ExecIInv, NoGroupYet, TypeOK
<1>2. Reports
  BY <1>1, FinishReports DEF SpawnThrows, ExecIInv, TypeOK
<1>3. ChildType' /\ ControlType' /\ ProcOf' = ProcOf /\ FoundRight' /\ stray' = stray
  BY ExecTyped DEF SpawnThrows, ChildType, ControlType, ProcOf, ExecIInv, FoundRight, NoGroupYet, os
<1> QED
  BY <1>2, <1>3, NodeStep DEF SpawnThrows

LEMMA SpawnWithoutPidStep ==
    ExecIInv /\ SpawnWithoutPid => ExecIInv' /\ [Port!PortNext]_(Port!portVars)
<1> SUFFICES ASSUME ExecIInv, SpawnWithoutPid PROVE ExecIInv' /\ [Port!PortNext]_(Port!portVars)
  OBVIOUS
<1>1. Reports
  BY SilenceReports DEF SpawnWithoutPid, control, result, ExecIInv, TypeOK
<1>2. ChildType' /\ ControlType' /\ ProcOf' = ProcOf /\ FoundRight' /\ stray' = stray
  BY ExecTyped DEF SpawnWithoutPid, ChildType, ControlType, ProcOf, ExecIInv, FoundRight, os, control
<1> QED
  BY <1>1, <1>2, NodeStep DEF SpawnWithoutPid

\* Spawn starts the group; no other step of Node does.
LEMMA SpawnStep == ExecIInv /\ Spawn => ExecIInv' /\ [Port!PortNext]_(Port!portVars)
<1> SUFFICES ASSUME ExecIInv, Spawn PROVE ExecIInv' /\ [Port!PortNext]_(Port!portVars)
  OBVIOUS
<1>1. /\ launched = "no" /\ ~finished /\ ~stopped /\ born = {} /\ group = {} /\ zombies = {}
      /\ status = "running" /\ outcome = "pending" /\ pc = "rest" /\ ~groupGone /\ ~confirmed
  BY DEF Spawn, ExecIInv, NoGroupYet, TypeOK, ReportedRight, FoundRight
<1>2. /\ UNCHANGED <<result, scan, confirmed, groupGone, asks, stray, zombies, reused, slipped>>
      /\ launched' = "child" /\ group' = {"leader"} /\ born' = {"leader"}
      /\ stopping' \in {stopping, TRUE} /\ deadline' \in {deadline, FALSE}
      /\ why' \in {why, "identity"} /\ pc' \in {pc, "term"}
      /\ identity' \in BOOLEAN /\ UNCHANGED <<exitSeen, pipes, ioFailed, incomplete>>
  BY DEF Spawn
<1>3. TypeOK'
  <2>1. scan' \in Scan /\ scan'.entries \subseteq born' /\ scan'.left \subseteq scan'.entries
    BY <1>1, <1>2 DEF ExecIInv, TypeOK
  <2>2. born' \in SUBSET Members /\ group' \in SUBSET born' /\ zombies' \in SUBSET (born' \ group')
    BY <1>1, <1>2 DEF Members
  <2>3. pc' \in SettlePC
    BY <1>2 DEF ExecIInv, TypeOK, SettlePC
  <2>4. stopping' \in BOOLEAN /\ deadline' \in BOOLEAN
    BY <1>2 DEF ExecIInv, TypeOK
  <2>5. why' \in {"cancelled", "timeout", "identity", "execution-error", "exit", "output-error"}
    BY <1>2 DEF ExecIInv, TypeOK
  <2>6. /\ launched' \in {"no", "none", "nopid", "child"}
        /\ pipes' \in {"open", "ended", "destroyed"}
        /\ identity' \in BOOLEAN /\ reused' \in BOOLEAN /\ exitSeen' \in BOOLEAN
        /\ ioFailed' \in BOOLEAN /\ incomplete' \in BOOLEAN /\ groupGone' \in BOOLEAN
        /\ confirmed' \in BOOLEAN /\ slipped' \in BOOLEAN /\ stray' \in BOOLEAN /\ asks' \in 0 .. MaxAsks
    BY <1>2 DEF ExecIInv, TypeOK
  <2>7. /\ finished' \in BOOLEAN /\ stopped' \in BOOLEAN
        /\ status' \in {"running", "ended", "cancelled", "unknown"}
        /\ outcome' \in {"pending", "stopped", "unconfirmed"}
        /\ log' \in [file : BOOLEAN, error : BOOLEAN, complete : BOOLEAN, active : BOOLEAN]
    BY <1>2 DEF ExecIInv, TypeOK, result
  <2> QED
    BY <2>1, <2>2, <2>3, <2>4, <2>5, <2>6, <2>7 DEF TypeOK
<1>4. NoGroupYet' /\ ReportedRight' /\ FoundRight'
  BY <1>1, <1>2 DEF NoGroupYet, ReportedRight, FoundRight, result, ExecIInv
<1>5. CensusRight' /\ AimRight'
  BY <1>1, <1>2 DEF CensusRight, AimRight, ExecIInv, TypeOK
<1>6. Port!Launch("x")
  <2>1. ProcOf = "none" /\ ProcOf' = "alive"
    BY <1>1, <1>2 DEF ProcOf
  <2>2. ViewOf(status, stopped) = "running" /\ ViewOf(status, stopped)' = "running"
    BY <1>1, <1>2 DEF ViewOf, result
  <2>3. (IF stopping' THEN {"x"} ELSE {}) \in
          {IF stopping THEN {"x"} ELSE {}, (IF stopping THEN {"x"} ELSE {}) \cup {"x"}}
    <3>1. CASE stopping' = stopping
      BY <3>1
    <3>2. CASE stopping' = TRUE
      BY <3>2
    <3> QED
      BY <1>2, <3>1, <3>2
  <2> QED
    BY <1>2, <2>1, <2>2, <2>3 DEF Port!Launch, result
<1> QED
  BY <1>3, <1>4, <1>5, <1>6 DEF ExecIInv, Port!PortNext, Port!PortStep

LEMMA ErrorWithoutPidStep ==
    ExecIInv /\ ErrorWithoutPid => ExecIInv' /\ [Port!PortNext]_(Port!portVars)
<1> SUFFICES ASSUME ExecIInv, ErrorWithoutPid PROVE ExecIInv' /\ [Port!PortNext]_(Port!portVars)
  OBVIOUS
<1>1. group = {}
  BY DEF ErrorWithoutPid, ExecIInv, NoGroupYet, TypeOK
<1>2. Reports
  BY <1>1, FinishReports DEF ErrorWithoutPid, ExecIInv, TypeOK
<1>3. ChildType' /\ ControlType' /\ ProcOf' = ProcOf /\ FoundRight' /\ stray' = stray
  BY ExecTyped DEF ErrorWithoutPid, ChildType, ControlType, ProcOf, ExecIInv, FoundRight, os, child
<1> QED
  BY <1>2, <1>3, NodeStep DEF ErrorWithoutPid, child

LEMMA ExecutionErrorStep ==
    ExecIInv /\ ExecutionError => ExecIInv' /\ [Port!PortNext]_(Port!portVars)
<1> SUFFICES ASSUME ExecIInv, ExecutionError PROVE ExecIInv' /\ [Port!PortNext]_(Port!portVars)
  OBVIOUS
<1>1. Reports /\ why' = "execution-error" /\ pc' = "term"
  BY StopReports DEF ExecutionError
<1>2. ChildType' /\ ControlType' /\ ProcOf' = ProcOf /\ FoundRight' /\ stray' = stray
  BY <1>1, ExecTyped DEF ExecutionError, ChildType, ControlType, ProcOf, ExecIInv, FoundRight, os, child,
                     SettlePC
<1> QED
  BY <1>1, <1>2, NodeStep DEF ExecutionError, child

LEMMA ExitStep == ExecIInv /\ Exit => ExecIInv' /\ [Port!PortNext]_(Port!portVars)
<1> SUFFICES ASSUME ExecIInv, Exit PROVE ExecIInv' /\ [Port!PortNext]_(Port!portVars)
  OBVIOUS
<1>1. Reports /\ why' \in {why, "exit"} /\ pc' \in {pc, "term"}
  <2>1. CASE finished
    BY <2>1, SilenceReports DEF Exit, ExecIInv, TypeOK
  <2>2. CASE ~finished
    BY <2>2, StopOrNotReports DEF Exit
  <2> QED
    BY <2>1, <2>2
<1>2. ChildType' /\ ControlType' /\ ProcOf' = ProcOf /\ FoundRight' /\ stray' = stray
  BY <1>1, ExecTyped DEF Exit, ChildType, ControlType, ProcOf, ExecIInv, FoundRight, os, SettlePC
<1> QED
  BY <1>1, <1>2, NodeStep DEF Exit

LEMMA PipesEndStep == ExecIInv /\ PipesEnd => ExecIInv' /\ [Port!PortNext]_(Port!portVars)
<1> SUFFICES ASSUME ExecIInv, PipesEnd PROVE ExecIInv' /\ [Port!PortNext]_(Port!portVars)
  OBVIOUS
<1>1. Reports
  BY SilenceReports DEF PipesEnd, control, result, ExecIInv, TypeOK
<1>2. ChildType' /\ ControlType' /\ ProcOf' = ProcOf /\ FoundRight' /\ stray' = stray
  BY ExecTyped DEF PipesEnd, ChildType, ControlType, ProcOf, ExecIInv, FoundRight, os, control
<1> QED
  BY <1>1, <1>2, NodeStep DEF PipesEnd

LEMMA StreamErrorStep == ExecIInv /\ StreamError => ExecIInv' /\ [Port!PortNext]_(Port!portVars)
<1> SUFFICES ASSUME ExecIInv, StreamError PROVE ExecIInv' /\ [Port!PortNext]_(Port!portVars)
  OBVIOUS
<1>1. Reports /\ why' \in {why, "output-error"} /\ pc' \in {pc, "term"}
  <2>1. CASE finished
    BY <2>1, SilenceReports DEF StreamError, ExecIInv, TypeOK
  <2>2. CASE ~finished
    BY <2>2, StopOrNotReports DEF StreamError
  <2> QED
    BY <2>1, <2>2
<1>2. ChildType' /\ ControlType' /\ ProcOf' = ProcOf /\ FoundRight' /\ stray' = stray
  BY <1>1, ExecTyped DEF StreamError, ChildType, ControlType, ProcOf, ExecIInv, FoundRight, os, SettlePC
<1> QED
  BY <1>1, <1>2, NodeStep DEF StreamError

LEMMA LogFailsStep == ExecIInv /\ LogFails => ExecIInv' /\ [Port!PortNext]_(Port!portVars)
<1> SUFFICES ASSUME ExecIInv, LogFails PROVE ExecIInv' /\ [Port!PortNext]_(Port!portVars)
  OBVIOUS
<1>1. log' \in [file : BOOLEAN, error : BOOLEAN, complete : BOOLEAN, active : BOOLEAN]
  BY DEF LogFails, ExecIInv, TypeOK
<1>2. Reports
  BY <1>1 DEF LogFails, control, ExecIInv, TypeOK, ReportedRight, Reports, ReportType, SaysNothing
<1>3. ChildType' /\ ControlType' /\ ProcOf' = ProcOf /\ FoundRight' /\ stray' = stray
  BY ExecTyped DEF LogFails, ChildType, ControlType, ProcOf, ExecIInv, FoundRight, os, control, child
<1> QED
  BY <1>2, <1>3, NodeStep DEF LogFails, child

\* The deadline and cancel() ask for a stop, before the spawn too.
LEMMA TimeoutStep == ExecIInv /\ Timeout => ExecIInv' /\ [Port!PortNext]_(Port!portVars)
<1> SUFFICES ASSUME ExecIInv, Timeout PROVE ExecIInv' /\ [Port!PortNext]_(Port!portVars)
  OBVIOUS
<1>1. /\ Reports
      /\ launched = "no" => UNCHANGED <<why, pc>>
      /\ launched # "no" => why' = "timeout" /\ pc' = "term"
  BY StopReports DEF Timeout
<1>2. ChildType' /\ ControlType' /\ ProcOf' = ProcOf /\ FoundRight' /\ stray' = stray
  BY <1>1, ExecTyped DEF Timeout, ChildType, ControlType, ProcOf, ExecIInv, FoundRight, os, child, SettlePC
<1>3. launched' = "no" => pc' = "rest"
  BY <1>1 DEF Timeout, ExecIInv, NoGroupYet, child
<1> QED
  BY <1>1, <1>2, <1>3, NodeStep DEF Timeout, child

LEMMA CancelStep == ExecIInv /\ Cancel => ExecIInv' /\ [Port!PortNext]_(Port!portVars)
<1> SUFFICES ASSUME ExecIInv, Cancel PROVE ExecIInv' /\ [Port!PortNext]_(Port!portVars)
  OBVIOUS
<1>1. /\ Reports
      /\ launched = "no" => UNCHANGED <<why, pc>>
      /\ launched # "no" => why' = "cancelled" /\ pc' = "term"
  BY StopReports DEF Cancel
<1>2. ChildType' /\ ProcOf' = ProcOf /\ FoundRight' /\ stray' = stray
  BY <1>1, ExecTyped DEF Cancel, ChildType, ProcOf, ExecIInv, FoundRight, os, child
<1>3. asks' \in 0 .. MaxAsks
  BY CommandExecutionAssumption DEF Cancel, ExecIInv, TypeOK
<1>4. ControlType'
  BY <1>1, <1>3, ExecTyped DEF Cancel, ControlType, SettlePC
<1>5. launched' = "no" => pc' = "rest"
  BY <1>1 DEF Cancel, ExecIInv, NoGroupYet, child
<1> QED
  BY <1>1, <1>2, <1>4, <1>5, NodeStep DEF Cancel, child
-----------------------------------------------------------------------------
(* stopGroup and settle. *)

\* inspectGroup begins, goes on, or aims: nothing is reported.
LEMMA ScanStep ==
    ASSUME ExecIInv, UNCHANGED <<child, os, result, control, asks, stray>>,
           scan' \in Scan, scan'.entries \subseteq born, scan'.left \subseteq scan'.entries,
           CensusRight', scan'.aimed => scan'.on /\ (scan.aimed \/ ~reused)
    PROVE  ExecIInv' /\ [Port!PortNext]_(Port!portVars)
<1>1. TypeOK'
  BY DEF ExecIInv, TypeOK, child, os, result, control
<1>2. NoGroupYet' /\ ReportedRight' /\ FoundRight' /\ AimRight'
  BY DEF ExecIInv, NoGroupYet, ReportedRight, FoundRight, AimRight, child, os, result, control
<1>3. UNCHANGED Port!portVars
  BY DEF Port!portVars, ViewOf, ProcOf, child, os, result, control
<1> QED
  BY <1>1, <1>2, <1>3 DEF ExecIInv

\* The end of stopGroup, on what inspectGroup or the signal has found.
LEMMA ReturnStep ==
    ASSUME ExecIInv, launched # "no", NEW gone \in BOOLEAN, gone => group = {},
           Return(gone), scan' = NoScan, UNCHANGED <<child, os, asks>>
    PROVE  ExecIInv' /\ [Port!PortNext]_(Port!portVars)
<1>1. /\ Reports
      /\ pc' \in {"rest", "drain"} /\ UNCHANGED <<why, stray>>
      /\ confirmed' = gone /\ groupGone' = (groupGone \/ gone)
  BY ReturnReports
<1>2. ChildType' /\ ControlType' /\ ProcOf' = ProcOf
  BY <1>1, ExecTyped DEF ChildType, ControlType, SettlePC, ProcOf, child, os
<1>3. FoundRight'
  BY <1>1 DEF ExecIInv, FoundRight, child, os
<1> QED
  BY <1>1, <1>2, <1>3, NodeStep DEF child

\* A signal is only aimed, and a stop only claimed, on what inspectGroup has seen.
LEMMA AnswerStep ==
    ASSUME ExecIInv, launched # "no", NEW gone \in BOOLEAN, NEW safe \in BOOLEAN,
           gone => group = {}, ~gone /\ safe => ~reused /\ launched = "child",
           Answer(gone, safe)
    PROVE  ExecIInv' /\ [Port!PortNext]_(Port!portVars)
<1>1. UNCHANGED <<child, os, asks>>
  BY DEF Answer
<1>2. CASE gone \/ ~safe \/ pc = "killWait"
  <2>1. scan' = NoScan /\ Return(gone)
    BY <1>2 DEF Answer
  <2> QED
    BY <1>1, <2>1, ReturnStep
<1>3. CASE ~gone /\ safe /\ pc = "termWait"
  <2>1. /\ scan' = NoScan /\ pc' = "kill"
        /\ UNCHANGED <<result, stopping, deadline, why, confirmed, groupGone, stray>>
    BY <1>3 DEF Answer
  <2>2. Reports
    BY <2>1, SilenceReports DEF ExecIInv, TypeOK
  <2>3. ChildType' /\ ControlType' /\ ProcOf' = ProcOf
    BY <1>1, <2>1, ExecTyped DEF ChildType, ControlType, SettlePC, ProcOf, child, os
  <2>4. FoundRight'
    BY <1>1, <2>1 DEF ExecIInv, FoundRight, child, os
  <2> QED
    BY <1>1, <2>1, <2>2, <2>3, <2>4, NodeStep DEF child
<1>4. CASE ~gone /\ safe /\ pc \notin {"termWait", "killWait"}
  <2>1. /\ scan' = [NoScan EXCEPT !.on = TRUE, !.aimed = TRUE] /\ pc' = pc
        /\ UNCHANGED <<result, stopping, deadline, why, confirmed, groupGone, stray>>
    BY <1>4 DEF Answer
  <2>2. scan' = [on |-> TRUE, aimed |-> TRUE, entries |-> {}, left |-> {}, found |-> FALSE,
                 live |-> FALSE, whole |-> TRUE]
    BY <2>1 DEF NoScan
  <2>3. /\ scan' \in Scan /\ scan'.entries = {} /\ scan'.left = {} /\ scan'.on
    BY <2>2 DEF Scan
  <2>4. CensusRight'
    BY <1>1, <1>4, <2>3 DEF CensusRight, child
  <2> QED
    BY <1>1, <1>4, <2>1, <2>3, <2>4, ScanStep DEF control
<1> QED
  BY <1>2, <1>3, <1>4

\* The signal: the number is the group's, or slipped under it.
LEMMA SignalStep == ExecIInv /\ Signal => ExecIInv' /\ [Port!PortNext]_(Port!portVars)
<1> SUFFICES ASSUME ExecIInv, Signal PROVE ExecIInv' /\ [Port!PortNext]_(Port!portVars)
  OBVIOUS
<1>1. /\ launched = "child" /\ scan.aimed /\ scan' = NoScan
      /\ UNCHANGED <<child, os, asks>>
  BY DEF Signal, ExecIInv, AimRight, CensusRight
<1>2. CASE Entries = {} /\ Return(TRUE)
  BY <1>1, <1>2, ReturnStep DEF Entries
<1>3. CASE Return(FALSE)
  BY <1>1, <1>3, ReturnStep
<1>4. CASE /\ pc' = IF pc = "term" THEN "termWait" ELSE "killWait"
           /\ stray' = (stray \/ reused)
           /\ UNCHANGED <<result, stopping, deadline, why, confirmed, groupGone>>
  <2>1. Reports
    BY <1>4, SilenceReports DEF ExecIInv, TypeOK
  <2>2. ChildType' /\ ControlType' /\ ProcOf' = ProcOf
    BY <1>1, <1>4, ExecTyped DEF ChildType, ControlType, SettlePC, ProcOf, child, os
  <2>3. FoundRight'
    BY <1>1, <1>4 DEF ExecIInv, FoundRight, child, os
  <2> QED
    BY <1>1, <1>4, <2>1, <2>2, <2>3, NodeStep DEF child
<1> QED
  BY <1>2, <1>3, <1>4 DEF Signal

LEMMA InspectStep == ExecIInv /\ Inspect => ExecIInv' /\ [Port!PortNext]_(Port!portVars)
<1> SUFFICES ASSUME ExecIInv, Inspect PROVE ExecIInv' /\ [Port!PortNext]_(Port!portVars)
  OBVIOUS
<1>0. launched # "no"
  BY DEF Inspect, Inspects, ExecIInv, NoGroupYet
<1>1. CASE Answer(TRUE, FALSE) /\ (groupGone \/ Entries = {})
  <2>1. group = {}
    BY <1>1 DEF ExecIInv, FoundRight, Entries
  <2> QED
    BY <1>0, <1>1, <2>1, AnswerStep
<1>2. CASE Answer(FALSE, FALSE)
  BY <1>0, <1>2, AnswerStep
<1>3. CASE ~reused /\ "leader" \in Entries /\ Answer(FALSE, TRUE)
  <2>1. launched = "child"
    BY <1>3 DEF Entries, ExecIInv, TypeOK, NoGroupYet
  <2> QED
    BY <1>0, <1>3, <2>1, AnswerStep
<1>4. CASE /\ Entries # {}
           /\ scan' = [NoScan EXCEPT !.on = TRUE, !.entries = Entries, !.left = Entries]
           /\ UNCHANGED <<child, os, result, control, asks, stray>>
  <2>1. Entries \subseteq born /\ born \subseteq Members
    BY DEF Entries, ExecIInv, TypeOK
  <2>2. /\ scan' = [on |-> TRUE, aimed |-> FALSE, entries |-> Entries, left |-> Entries,
                    found |-> FALSE, live |-> FALSE, whole |-> TRUE]
    BY <1>4 DEF NoScan
  <2>3. /\ scan' \in Scan /\ scan'.entries \subseteq born
        /\ scan'.left = Entries /\ scan'.entries = Entries /\ ~scan'.aimed
    BY <2>1, <2>2 DEF Scan
  <2>4. launched' = "child"
    BY <1>4, <2>1 DEF ExecIInv, NoGroupYet, child
  <2>5. CensusRight'
    BY <2>3, <2>4 DEF CensusRight
  <2> QED
    BY <1>4, <2>3, <2>5, ScanStep
<1>5. CASE groupGone
  BY <1>1, <1>5 DEF Inspect
<1>6. CASE ~groupGone
  BY <1>1, <1>2, <1>3, <1>4, <1>6 DEF Inspect
<1> QED
  BY <1>5, <1>6

LEMMA ReadEntryStep ==
    ASSUME NEW m \in Members, ExecIInv, ReadEntry(m)
    PROVE  ExecIInv' /\ [Port!PortNext]_(Port!portVars)
<1>1. PICK readable \in BOOLEAN :
        scan' = [scan EXCEPT !.left = @ \ {m},
                   !.whole = @ /\ readable,
                   !.found = @ \/ (readable /\ m \in Entries),
                   !.live = @ \/ (readable /\ m \in group)]
  BY DEF ReadEntry
<1>2. scan \in Scan /\ scan.entries \subseteq born /\ scan.left \subseteq scan.entries
  BY DEF ExecIInv, TypeOK
<1>3. /\ scan' \in Scan /\ scan'.entries = scan.entries /\ scan'.left = scan.left \ {m}
      /\ scan'.whole = (scan.whole /\ readable) /\ scan'.on = scan.on /\ scan'.aimed = scan.aimed
      /\ scan'.live = (scan.live \/ (readable /\ m \in group))
  BY <1>1, <1>2 DEF Scan
<1>4. UNCHANGED <<group, launched>>
  BY DEF ReadEntry, os, child
<1>5. CensusRight'
  BY <1>3, <1>4 DEF CensusRight, ExecIInv
<1>6. scan.aimed => scan.on
  BY DEF ExecIInv, AimRight
<1> QED
  BY <1>2, <1>3, <1>5, <1>6, ScanStep DEF ReadEntry

\* Zombies alone: with the same numbers as at the start, nothing was forked meanwhile.
LEMMA CensusStep == ExecIInv /\ Census => ExecIInv' /\ [Port!PortNext]_(Port!portVars)
<1> SUFFICES ASSUME ExecIInv, Census PROVE ExecIInv' /\ [Port!PortNext]_(Port!portVars)
  OBVIOUS
<1>0. launched = "child" /\ scan.on /\ scan.left = {}
  BY DEF Census, ExecIInv, CensusRight
<1>1. CASE Answer(FALSE, FALSE)
  BY <1>0, <1>1, AnswerStep
<1>2. CASE Answer(TRUE, FALSE) /\ Entries = {}
  BY <1>0, <1>2, AnswerStep DEF Entries
<1>3. CASE ~reused /\ Answer(FALSE, TRUE)
  BY <1>0, <1>3, AnswerStep
<1>4. CASE scan.whole /\ ~scan.live /\ Entries = scan.entries /\ Answer(TRUE, FALSE)
  <2>1. group \subseteq scan.entries
    BY <1>4 DEF Entries
  <2>2. group = {}
    BY <1>0, <1>4, <2>1 DEF ExecIInv, CensusRight
  <2> QED
    BY <1>0, <1>4, <2>2, AnswerStep
<1> QED
  BY <1>1, <1>2, <1>3, <1>4 DEF Census

LEMMA DrainStep == ExecIInv /\ Drain => ExecIInv' /\ [Port!PortNext]_(Port!portVars)
<1> SUFFICES ASSUME ExecIInv, Drain PROVE ExecIInv' /\ [Port!PortNext]_(Port!portVars)
  OBVIOUS
<1>1. PICK drained \in BOOLEAN :
        /\ incomplete' = (incomplete \/ ~drained \/ ioFailed \/ ~exitSeen)
        /\ pipes' \in {pipes, "destroyed"}
        /\ Conclude(confirmed, incomplete \/ ~drained \/ ioFailed \/ ~exitSeen)
  BY DEF Drain
<1>2. confirmed \in BOOLEAN /\ (confirmed => group = {})
  BY DEF ExecIInv, TypeOK, FoundRight
<1>3. PICK s \in {"ended", "cancelled", "unknown"} :
        Finish(s, confirmed, incomplete \/ ~drained \/ ioFailed \/ ~exitSeen)
  BY <1>1 DEF Conclude
<1>4. Reports
  BY <1>2, <1>3, FinishReports
<1>5. ChildType' /\ ControlType' /\ ProcOf' = ProcOf /\ FoundRight' /\ stray' = stray
  BY <1>1, ExecTyped DEF Drain, ChildType, ControlType, ProcOf, ExecIInv, FoundRight, os, SettlePC
<1> QED
  BY <1>4, <1>5, NodeStep DEF Drain

LEMMA SettleThrowsStep == ExecIInv /\ SettleThrows => ExecIInv' /\ [Port!PortNext]_(Port!portVars)
<1> SUFFICES ASSUME ExecIInv, SettleThrows PROVE ExecIInv' /\ [Port!PortNext]_(Port!portVars)
  OBVIOUS
<1>1. groupGone \in BOOLEAN /\ (groupGone => group = {})
  BY DEF ExecIInv, TypeOK, FoundRight
<1>2. Reports
  BY <1>1, FinishReports DEF SettleThrows
<1>3. ChildType' /\ ControlType' /\ ProcOf' = ProcOf /\ FoundRight' /\ stray' = stray
  BY ExecTyped DEF SettleThrows, ChildType, ControlType, ProcOf, ExecIInv, FoundRight, os, SettlePC
<1> QED
  BY <1>2, <1>3, NodeStep DEF SettleThrows
-----------------------------------------------------------------------------
(* The operating system: a group that is gone stays gone. *)

LEMMA SystemStep ==
    ASSUME ExecIInv, OSStep, group \in SUBSET born, born \subseteq born', born' \subseteq Members,
           group' \subseteq born', zombies' \subseteq born' \ group', reused' \in BOOLEAN,
           \/ UNCHANGED <<reused, slipped>>
           \/ ~reused /\ reused' = TRUE /\ slipped' = scan.aimed,
           group' \subseteq group \/ (group # {} /\ group' \subseteq group \cup (born' \ born)),
           born' # born => launched = "child",
           \/ UNCHANGED Port!portVars
           \/ Port!End("x")
    PROVE  ExecIInv' /\ [Port!PortNext]_(Port!portVars)
<1>1. UNCHANGED <<child, scan, result, control, asks, stray>>
  BY DEF OSStep
<1>6. slipped' \in BOOLEAN
  BY DEF ExecIInv, TypeOK, Scan
<1>7. AimRight'
  BY <1>1 DEF ExecIInv, AimRight
<1>2. TypeOK'
  BY <1>1, <1>6 DEF ExecIInv, TypeOK, child, result, control
<1>3. group = {} => group' = {}
  OBVIOUS
<1>4. NoGroupYet' /\ ReportedRight' /\ FoundRight'
  BY <1>1, <1>3 DEF ExecIInv, NoGroupYet, ReportedRight, FoundRight, child, result, control
<1>5. CensusRight'
  <2>1. scan.entries \subseteq born
    BY DEF ExecIInv, TypeOK
  <2>2. ASSUME NEW m \in scan.entries \ scan.left, m \notin group PROVE m \notin group'
    BY <2>1, <2>2
  <2> QED
    BY <1>1, <2>2 DEF ExecIInv, CensusRight, child
<1> QED
  BY <1>2, <1>4, <1>5, <1>7 DEF ExecIInv, Port!PortNext, Port!PortStep

LEMMA ForkStep ==
    ASSUME NEW m \in Members, ExecIInv, m # "leader", Fork(m)
    PROVE  ExecIInv' /\ [Port!PortNext]_(Port!portVars)
<1>1. /\ group # {} /\ m \notin born /\ group' = group \cup {m} /\ born' = born \cup {m}
      /\ zombies' = zombies /\ reused' = reused /\ slipped' = slipped
      /\ UNCHANGED <<child, scan, result, control, asks, stray>>
  BY DEF Fork, OSStep
<1>2. born \subseteq Members /\ group \subseteq born /\ zombies \subseteq born \ group /\ reused \in BOOLEAN
  BY DEF ExecIInv, TypeOK
<1>3. launched = "child"
  BY <1>1, <1>2 DEF ExecIInv, NoGroupYet
<1>4. UNCHANGED Port!portVars
  BY <1>1, <1>3 DEF Port!portVars, ProcOf, ViewOf, child, result, control
<1> QED
  BY <1>1, <1>2, <1>3, <1>4, SystemStep DEF OSStep

LEMMA DieStep ==
    ASSUME NEW m \in Members, ExecIInv, Die(m)
    PROVE  ExecIInv' /\ [Port!PortNext]_(Port!portVars)
<1>1. /\ m \in group /\ group' = group \ {m} /\ zombies' = zombies \cup {m}
      /\ born' = born /\ reused' = reused /\ slipped' = slipped
      /\ UNCHANGED <<child, scan, result, control, asks, stray>>
  BY DEF Die, OSStep
<1>2. born \subseteq Members /\ group \subseteq born /\ zombies \subseteq born \ group /\ reused \in BOOLEAN
  BY DEF ExecIInv, TypeOK
<1>3. launched = "child"
  BY <1>1, <1>2 DEF ExecIInv, NoGroupYet
<1>4. UNCHANGED <<ViewOf(status, stopped), outcome, stopping>>
  BY <1>1 DEF ViewOf, result, control
<1>5. ProcOf = "alive" /\ ProcOf' \in {"alive", "gone"}
  BY <1>1, <1>3 DEF ProcOf, child
<1>6. CASE ProcOf' = "alive"
  <2>1. UNCHANGED Port!portVars
    BY <1>4, <1>5, <1>6 DEF Port!portVars
  <2> QED
    BY <1>1, <1>2, <2>1, SystemStep DEF OSStep
<1>7. CASE ProcOf' = "gone"
  <2>1. Port!End("x")
    BY <1>4, <1>5, <1>7 DEF Port!End
  <2> QED
    BY <1>1, <1>2, <2>1, SystemStep DEF OSStep
<1> QED
  BY <1>5, <1>6, <1>7

LEMMA ReapStep ==
    ASSUME NEW m \in Members, ExecIInv, Reap(m)
    PROVE  ExecIInv' /\ [Port!PortNext]_(Port!portVars)
<1>1. /\ zombies' = zombies \ {m} /\ group' = group /\ born' = born
      /\ reused' = reused /\ slipped' = slipped
      /\ UNCHANGED <<child, scan, result, control, asks, stray>>
  BY DEF Reap, OSStep
<1>2. born \subseteq Members /\ group \subseteq born /\ zombies \subseteq born \ group /\ reused \in BOOLEAN
  BY DEF ExecIInv, TypeOK
<1>3. UNCHANGED Port!portVars
  BY <1>1 DEF Port!portVars, ProcOf, ViewOf, child, result, control
<1> QED
  BY <1>1, <1>2, <1>3, SystemStep DEF OSStep

LEMMA ReuseStep == ExecIInv /\ Reuse => ExecIInv' /\ [Port!PortNext]_(Port!portVars)
<1> SUFFICES ASSUME ExecIInv, Reuse PROVE ExecIInv' /\ [Port!PortNext]_(Port!portVars)
  OBVIOUS
<1>1. /\ zombies' = zombies /\ group' = group /\ born' = born
      /\ ~reused /\ reused' = TRUE /\ slipped' = scan.aimed
      /\ UNCHANGED <<child, scan, result, control, asks, stray>>
  BY DEF Reuse, OSStep
<1>2. born \subseteq Members /\ group \subseteq born /\ zombies \subseteq born \ group
  BY DEF ExecIInv, TypeOK
<1>3. UNCHANGED Port!portVars
  BY <1>1 DEF Port!portVars, ProcOf, ViewOf, child, result, control
<1> QED
  BY <1>1, <1>2, <1>3, SystemStep DEF OSStep
-----------------------------------------------------------------------------
(* The theorems. *)

LEMMA ExecutionStep == ExecIInv /\ [ExecNext]_execVars => ExecIInv' /\ [Port!PortNext]_(Port!portVars)
<1> SUFFICES ASSUME ExecIInv, [ExecNext]_execVars PROVE ExecIInv' /\ [Port!PortNext]_(Port!portVars)
  OBVIOUS
<1>1. CASE Spawning
  BY <1>1, SpawnNothingStep, SpawnThrowsStep, SpawnWithoutPidStep, SpawnStep DEF Spawning
<1>2. CASE Inspecting
  BY <1>2, InspectStep, CensusStep, SignalStep, ReadEntryStep DEF Inspecting
<1>3. CASE Drain \/ SettleThrows
  BY <1>3, DrainStep, SettleThrowsStep
<1>4. CASE Events
  BY <1>4, ErrorWithoutPidStep, ExitStep, PipesEndStep, ExecutionErrorStep, StreamErrorStep,
     LogFailsStep, TimeoutStep, CancelStep DEF Events
<1>5. ASSUME NEW m \in Members, (m # "leader" /\ Fork(m)) \/ Die(m) \/ Reap(m)
      PROVE  ExecIInv' /\ [Port!PortNext]_(Port!portVars)
  BY <1>5, ForkStep, DieStep, ReapStep
<1>6. CASE Reuse
  BY <1>6, ReuseStep
<1>7. CASE UNCHANGED execVars
  <2>1. UNCHANGED <<child, os, result, control, asks, stray, scan>>
    BY <1>7 DEF execVars
  <2>2. scan' \in Scan /\ scan'.entries \subseteq born /\ scan'.left \subseteq scan'.entries
    BY <2>1 DEF ExecIInv, TypeOK
  <2>3. CensusRight' /\ (scan.aimed => scan.on)
    BY <2>1 DEF ExecIInv, CensusRight, AimRight, child, os
  <2> QED
    BY <2>1, <2>2, <2>3, ScanStep
<1> QED
  BY <1>1, <1>2, <1>3, <1>4, <1>5, <1>6, <1>7 DEF ExecNext, ExecSettling

\* Every variable keeps its type, and the parts of the inductive invariant hold,
\* in every state of an execution.
THEOREM ExecutionInvariance == ExecSpec => []ExecIInv
<1>1. ExecIInv /\ [ExecNext]_execVars => ExecIInv'
  BY ExecutionStep
<1> QED
  BY ExecutionInit, <1>1, PTL DEF ExecSpec

\* What the runtime takes for evidence of a stop is one: no process of the group
\* runs, and no spawn is still to come (finish and stopGroup of the port).
THEOREM StopIsEvidence == ExecSpec => []StoppedIsGone
<1>1. ExecIInv => StoppedIsGone
  BY DEF ExecIInv, ReportedRight, StoppedIsGone
<1> QED
  BY ExecutionInvariance, <1>1, PTL

\* A signal goes astray only when the number of the group changes hands between
\* the last look of inspectGroup at /proc and the kill that follows at once (the
\* window the comment at command-execution-port.mjs:351 leaves open).
THEOREM SignalsAreOurs == ExecSpec => []NoStraySignal
<1>1. ExecIInv => NoStraySignal
  BY DEF ExecIInv, AimRight, NoStraySignal
<1> QED
  BY ExecutionInvariance, <1>1, PTL

\* Every step of an execution, of Node and of the operating system, is a step of
\* the port the command runtime relies on, or none of its.
THEOREM PortIsImplemented == ExecSpec => ImplementsPort
<1>1. ExecIInv /\ [ExecNext]_execVars => [Port!PortNext]_(Port!portVars)
  BY ExecutionStep
<1> QED
  BY ExecutionInvariance, <1>1, PTL DEF ExecSpec, ImplementsPort
=============================================================================
