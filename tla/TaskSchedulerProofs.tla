------------------------ MODULE TaskSchedulerProofs ------------------------
(***************************************************************************)
(* Theorems about TaskScheduler, for any number of facades, tasks, lanes   *)
(* and limits: a task's entry is always in the hands of live facades, a    *)
(* lane grows only up to the strictest limit of those that are there, no   *)
(* task is left waiting before a free slot, no admitted task is forgotten. *)
(***************************************************************************)
EXTENDS TaskScheduler, FiniteSetTheorems, WellFoundedInduction, TLAPS

-----------------------------------------------------------------------------
(* The inductive invariant. *)

TypeOK ==
    /\ phase \in [Facade -> Phase]
    /\ limits \in [Lane -> Nat]
    /\ active \in SUBSET Task /\ queued \in SUBSET Task
    /\ owner \in [Task -> Facade \cup {None}]
    /\ claims \in [Task -> SUBSET Facade]
    /\ scheduled \in SUBSET Task /\ stripped \in SUBSET Task
    /\ call # None => call \in Call

\* What EntriesInHand says of one task.
TaskInHand(t) ==
    IF owner[t] = None
    THEN claims[t] = {} /\ t \notin scheduled
         /\ (t \in active \cup queued => t \in stripped)
    ELSE /\ owner[t] \in claims[t]
         /\ claims[t] \subseteq Live
         /\ t \in active \cup queued

InHand == active \cap queued = {} /\ \A t \in Task : TaskInHand(t)

\* #limits is never looser than the configuration of a live facade.
LimitsStrict == \A f \in Live, l \in Lane : limits[l] <= LimitOf[f][l]

IInv == TypeOK /\ InHand /\ LimitsStrict

LEMMA InHandIsEntriesInHand == InHand <=> EntriesInHand
  BY DEF InHand, TaskInHand, EntriesInHand

LEMMA LiveIsFacade == Live \subseteq Facade
  BY DEF Live

\* A set of naturals has a least element.
LEMMA LeastExists ==
    ASSUME NEW S \in SUBSET Nat, S # {}
    PROVE  \E n \in S : \A m \in S : n <= m
<1>1. IsWellFoundedOn(OpToRel(<, Nat), Nat)
  BY NatLessThanWellFounded
<1>2. PICK n \in S : \A m \in S : <<m, n>> \notin OpToRel(<, Nat)
  BY <1>1, WFMin, Zenon
<1>3. OpToRel(<, Nat) = {ss \in Nat \X Nat : ss[1] < ss[2]}
  BY DEF OpToRel
<1>4. ASSUME NEW m \in S PROVE n <= m
  <2>1. m \in Nat /\ n \in Nat
    OBVIOUS
  <2>2. ~(m < n)
    BY <1>2, <1>3, <2>1
  <2> QED
    BY <2>1, <2>2
<1> QED
  BY <1>4

\* minimumLimits: the limits are naturals, and none is above the facade's own.
LEMMA MinimumIsStrict ==
    ASSUME NEW F \in SUBSET Facade, F # {}
    PROVE  /\ Minimum(F) \in [Lane -> Nat]
           /\ \A f \in F, l \in Lane : Minimum(F)[l] <= LimitOf[f][l]
           /\ \A l \in Lane : \E f \in F : Minimum(F)[l] = LimitOf[f][l]
<1> DEFINE Values(l) == {LimitOf[f][l] : f \in F}
           Least(l) == CHOOSE n \in Values(l) : \A f \in F : n <= LimitOf[f][l]
<1>1. ASSUME NEW l \in Lane
      PROVE  /\ Least(l) \in Nat /\ \A f \in F : Least(l) <= LimitOf[f][l]
             /\ \E f \in F : Least(l) = LimitOf[f][l]
  <2>1. Values(l) \in SUBSET Nat /\ Values(l) # {}
    BY TaskSchedulerAssumption
  <2>2. PICK n \in Values(l) : \A m \in Values(l) : n <= m
    BY <2>1, LeastExists
  <2>3. \A f \in F : n <= LimitOf[f][l]
    BY <2>2
  <2>4. Least(l) \in Values(l) /\ \A f \in F : Least(l) <= LimitOf[f][l]
    BY <2>3
  <2> QED
    BY <2>1, <2>4
<1>2. Minimum(F) = [l \in Lane |-> Least(l)]
  BY DEF Minimum
<1> HIDE DEF Least
<1> QED
  BY <1>1, <1>2
-----------------------------------------------------------------------------
(* Steps of one task: the facades and their limits stay as they are. *)

LEMMA SameFacades ==
    ASSUME LimitsStrict, UNCHANGED <<phase, limits>>
    PROVE  Live' = Live /\ LimitsStrict'
  BY DEF Live, LimitsStrict

LEMMA BeginsCall ==
    ASSUME NEW f \in Facade, NEW L \in SUBSET Lane, NEW H \in SUBSET Task, Begin(f, L, H)
    PROVE  call' \in Call
  BY DEF Begin, Call

\* f claims t and takes it into a lane, if it is not in one.
LEMMA ClaimKeeps ==
    ASSUME IInv, NEW f \in Live, NEW t \in Task, Claim(f, t),
           UNCHANGED <<phase, limits>>, call' # None => call' \in Call,
           active' \in SUBSET Task, queued' \in SUBSET Task, active' \cap queued' = {},
           active' \cup queued' = active \cup queued \cup {t},
           stripped' \in {stripped, stripped \ {t}}
    PROVE  IInv'
<1>1. Live' = Live /\ LimitsStrict' /\ f \in Facade /\ f # None
  BY SameFacades, LiveIsFacade, TaskSchedulerAssumption DEF IInv
<1>2. TypeOK'
  BY <1>1 DEF IInv, TypeOK, Claim
<1>3. ASSUME NEW u \in Task PROVE TaskInHand(u)'
  <2>1. TaskInHand(u)
    BY DEF IInv, InHand
  <2>2. CASE u = t
    BY <1>1, <2>1, <2>2 DEF TaskInHand, Claim, IInv, TypeOK
  <2>3. CASE u # t
    BY <1>1, <2>1, <2>3 DEF TaskInHand, Claim, IInv, TypeOK
  <2> QED
    BY <2>2, <2>3
<1> QED
  BY <1>1, <1>2, <1>3 DEF IInv, InHand

\* The entries of T are forgotten; its tasks leave their lanes, or stay in the
\* queue without an entry.
LEMMA ForgetKeeps ==
    ASSUME IInv, NEW T \in SUBSET Task, Forget(T), TypeOK', LimitsStrict', 
           \A u \in Task \ T : claims[u] \subseteq Live => claims[u] \subseteq Live',
           active' = active \ T, queued' \in {queued, queued \ T},
           \A u \in Task \ T : u \in stripped => u \in stripped',
           queued' \cap T \subseteq stripped'
    PROVE  IInv'
<1>1. ASSUME NEW u \in Task PROVE TaskInHand(u)'
  <2>1. TaskInHand(u)
    BY DEF IInv, InHand
  <2>2. CASE u \in T
    BY <2>1, <2>2 DEF TaskInHand, Forget
  <2>3. CASE u \notin T
    BY <2>1, <2>3 DEF TaskInHand, Forget
  <2> QED
    BY <2>2, <2>3
<1>2. active' \cap queued' = {}
  BY DEF IInv, InHand
<1> QED
  BY <1>1, <1>2 DEF IInv, InHand

LEMMA ForgetTyped ==
    ASSUME TypeOK, NEW T \in SUBSET Task, Forget(T)
    PROVE  /\ owner' \in [Task -> Facade \cup {None}]
           /\ claims' \in [Task -> SUBSET Facade]
           /\ scheduled' \in SUBSET Task
  BY DEF TypeOK, Forget

LEMMA TaskStep ==
    ASSUME IInv, NEW f \in Facade, Tasks(f) PROVE IInv'
<1> PICK t \in Task : \/ Enqueue(f, t) \/ RestoreActive(f, t)
                      \/ RemoveQueued(f, t) \/ Withdraw(f, t) \/ Release(f, t)
  BY DEF Tasks
<1>0. /\ LaneOf[t] \in Lane /\ {LaneOf[t]} \in SUBSET Lane /\ {} \in SUBSET Task
      /\ active \in SUBSET Task /\ queued \in SUBSET Task /\ active \cap queued = {}
      /\ call # None => call \in Call
  BY TaskSchedulerAssumption DEF IInv, TypeOK, InHand
<1>1. CASE Enqueue(f, t)
  <2>1. CASE t \in active \cup queued
    BY <1>0, <1>1, <2>1, ClaimKeeps DEF Enqueue, history
  <2>2. CASE t \notin active \cup queued
    <3>1. queued' = queued \cup {t} /\ call' \in Call
      BY <1>0, <1>1, <2>2, BeginsCall DEF Enqueue
    <3> QED
      BY <1>0, <1>1, <2>2, <3>1, ClaimKeeps DEF Enqueue, history
  <2> QED
    BY <2>1, <2>2
<1>2. CASE RestoreActive(f, t)
  BY <1>0, <1>2, ClaimKeeps DEF RestoreActive
<1>3. CASE RemoveQueued(f, t)
  <2>1. /\ queued' = queued \ {t} /\ Forget({t}) /\ Vacate({t}) /\ t \in queued
        /\ UNCHANGED <<phase, limits, active, call>>
    BY <1>3 DEF RemoveQueued
  <2>2. Live' = Live /\ LimitsStrict'
    BY <2>1, SameFacades DEF IInv
  <2>3. TypeOK'
    BY <2>1, ForgetTyped DEF IInv, TypeOK, Vacate
  <2> QED
    BY <1>0, <2>1, <2>2, <2>3, ForgetKeeps DEF Vacate
<1>4. CASE Withdraw(f, t)
  <2>1. /\ queued' = queued \ {t} /\ active' = active \ {t} /\ Forget({t}) /\ Vacate({t})
        /\ UNCHANGED <<phase, limits>>
    BY <1>4 DEF Withdraw
  <2>2. Live' = Live /\ LimitsStrict'
    BY <2>1, SameFacades DEF IInv
  <2>3. call' # None => call' \in Call
    BY <1>0, <1>4, BeginsCall DEF Withdraw
  <2>4. TypeOK'
    BY <2>1, <2>3, ForgetTyped DEF IInv, TypeOK, Vacate
  <2> QED
    BY <1>0, <2>1, <2>2, <2>4, ForgetKeeps DEF Vacate
<1>5. CASE Release(f, t)
  <2>1. /\ queued' = queued /\ active' = active \ {t} /\ Forget({t})
        /\ stripped' = IF t \in queued THEN stripped \cup {t} ELSE stripped \ {t}
        /\ UNCHANGED <<phase, limits>>
    BY <1>5 DEF Release
  <2>2. Live' = Live /\ LimitsStrict'
    BY <2>1, SameFacades DEF IInv
  <2>3. call' # None => call' \in Call
    BY <1>0, <1>5, BeginsCall DEF Release
  <2>4. TypeOK'
    BY <2>1, <2>3, ForgetTyped DEF IInv, TypeOK
  <2> QED
    BY <1>0, <2>1, <2>2, <2>4, ForgetKeeps
<1> QED
  BY <1>1, <1>2, <1>3, <1>4, <1>5
-----------------------------------------------------------------------------
(* Steps of a facade's life. *)

\* The facades that stay take over the entries of f, or lose nothing.
LEMMA HandOverKeeps ==
    ASSUME IInv, NEW f \in Facade, NEW L \in SUBSET Lane, HandOver(f, L),
           phase' \in [Facade -> Phase], limits' \in [Lane -> Nat],
           Live \ {f} \subseteq Live', LimitsStrict'
    PROVE  IInv'
<1>1. PICK h \in Heirs(f) :
        /\ owner' = [t \in Task |-> IF owner[t] = f THEN h[t] ELSE owner[t]]
        /\ claims' = [t \in Task |-> IF claims[t] = {f} THEN {h[t]} ELSE claims[t] \ {f}]
        /\ Begin(f, L, {t \in active : f \in claims[t]})
        /\ UNCHANGED <<active, queued, scheduled, stripped>>
  BY DEF HandOver
<1>2. /\ h \in [Task -> Live \ {f}]
      /\ \A t \in Task : claims[t] \ {f} # {} => h[t] \in claims[t]
  BY DEF Heirs
<1>3. call' \in Call
  <2>1. {t \in active : f \in claims[t]} \in SUBSET Task
    BY DEF IInv, TypeOK
  <2> QED
    BY <1>1, <2>1, BeginsCall
<1>4. TypeOK'
  <2>1. owner' \in [Task -> Facade \cup {None}]
    BY <1>1, <1>2, LiveIsFacade DEF IInv, TypeOK
  <2>2. claims' \in [Task -> SUBSET Facade]
    BY <1>1, <1>2, LiveIsFacade DEF IInv, TypeOK
  <2> QED
    BY <1>1, <1>3, <2>1, <2>2 DEF IInv, TypeOK
<1>5. ASSUME NEW t \in Task PROVE TaskInHand(t)'
  <2>1. TaskInHand(t) /\ h[t] \in Live \ {f} /\ f # None /\ h[t] # None
    BY <1>2, LiveIsFacade, TaskSchedulerAssumption DEF IInv, InHand
  <2>2. /\ owner'[t] = IF owner[t] = f THEN h[t] ELSE owner[t]
        /\ claims'[t] = IF claims[t] = {f} THEN {h[t]} ELSE claims[t] \ {f}
    BY <1>1
  <2>3. CASE owner[t] = None
    BY <1>1, <2>1, <2>2, <2>3 DEF TaskInHand
  <2>4. CASE owner[t] # None
    <3>1. owner[t] \in claims[t] /\ claims[t] \subseteq Live /\ t \in active \cup queued
      BY <2>1, <2>4 DEF TaskInHand
    <3>2. claims'[t] \subseteq Live \ {f}
      BY <2>1, <2>2, <3>1
    <3>3. owner'[t] \in claims'[t]
      <4>1. CASE claims[t] = {f}
        BY <2>2, <3>1, <4>1
      <4>2. CASE claims[t] # {f}
        BY <1>2, <2>1, <2>2, <3>1, <4>2
      <4> QED
        BY <4>1, <4>2
    <3>4. owner'[t] # None
      BY <2>1, <2>2, <2>4
    <3> QED
      BY <1>1, <3>1, <3>2, <3>3, <3>4 DEF TaskInHand
  <2> QED
    BY <2>3, <2>4
<1> QED
  BY <1>1, <1>4, <1>5 DEF IInv, InHand

\* The last facade: every entry is its own, so every task leaves.
LEMMA WithdrawAllKeeps ==
    ASSUME IInv, NEW f \in Facade, WithdrawAll(f), Live = {f},
           phase' \in [Facade -> Phase], UNCHANGED limits, LimitsStrict'
    PROVE  IInv'
<1> DEFINE mine == {t \in Task : f \in claims[t]}
<1>1. /\ mine \in SUBSET Task /\ active' = active \ mine /\ queued' = queued \ mine /\ Forget(mine)
      /\ stripped' = stripped \ mine /\ Begin(f, {LaneOf[t] : t \in mine}, {})
  BY DEF WithdrawAll
<1>2. ASSUME NEW t \in Task \ mine PROVE claims[t] \subseteq Live'
  <2>1. TaskInHand(t) /\ f \notin claims[t]
    BY DEF IInv, InHand
  <2>2. claims[t] = {}
    BY <2>1 DEF TaskInHand
  <2> QED
    BY <2>2
<1>3. call' \in Call
  <2>1. {LaneOf[t] : t \in mine} \in SUBSET Lane
    BY TaskSchedulerAssumption
  <2> QED
    BY <1>1, <2>1, BeginsCall
<1> HIDE DEF mine
<1>4. TypeOK'
  BY <1>1, <1>3, ForgetTyped DEF IInv, TypeOK
<1> QED
  BY <1>1, <1>2, <1>4, ForgetKeeps

LEMMA ReleaseEntriesKeeps ==
    ASSUME IInv, NEW f \in Facade, ReleaseEntries(f), f \in Live, Live' = Live,
           phase' \in [Facade -> Phase], UNCHANGED limits
    PROVE  IInv'
<1>1. LimitsStrict' /\ limits' \in [Lane -> Nat] /\ {} \in SUBSET Lane
  BY DEF IInv, LimitsStrict, TypeOK
<1>2. CASE Live = {f}
  BY <1>1, <1>2, WithdrawAllKeeps DEF ReleaseEntries
<1>3. CASE Live # {f}
  BY <1>1, <1>3, HandOverKeeps DEF ReleaseEntries
<1> QED
  BY <1>2, <1>3

\* Only the phase of f changes, and perhaps the limits.
LEMMA FacadeStep ==
    ASSUME IInv, phase' \in [Facade -> Phase], limits' \in [Lane -> Nat], LimitsStrict',
           Live \subseteq Live',
           UNCHANGED <<active, queued, entries, call, stripped>>
    PROVE  IInv'
<1>1. TypeOK'
  BY DEF IInv, TypeOK, entries
<1>2. ASSUME NEW t \in Task PROVE TaskInHand(t)'
  BY DEF IInv, InHand, TaskInHand, entries
<1> QED
  BY <1>1, <1>2 DEF IInv, InHand

LEMMA LifeStep ==
    ASSUME IInv, NEW f \in Facade, Life(f) PROVE IInv'
<1>0. /\ phase \in [Facade -> Phase] /\ limits \in [Lane -> Nat] /\ Live \subseteq Facade
      /\ {} \in SUBSET Lane /\ Lane \in SUBSET Lane
  BY LiveIsFacade DEF IInv, TypeOK
<1>1. CASE Join(f)
  <2>1. /\ phase' = [phase EXCEPT ![f] = "serving"] /\ limits' = Minimum(Live \cup {f})
        /\ UNCHANGED <<active, queued, entries, call, stripped>>
    BY <1>1 DEF Join, history
  <2>2. phase' \in [Facade -> Phase] /\ Live' = Live \cup {f}
    BY <1>0, <2>1 DEF Phase, Live
  <2>3. limits' \in [Lane -> Nat] /\ \A g \in Live', l \in Lane : limits'[l] <= LimitOf[g][l]
    BY <1>0, <2>1, <2>2, MinimumIsStrict
  <2> QED
    BY <2>1, <2>2, <2>3, FacadeStep DEF LimitsStrict
<1>2. CASE Flush(f)
  <2>1. phase' \in [Facade -> Phase] /\ Live' = Live /\ UNCHANGED limits /\ HandOver(f, {})
    BY <1>0, <1>2 DEF Flush, Phase, Live
  <2>2. LimitsStrict'
    BY <2>1 DEF IInv, LimitsStrict
  <2> QED
    BY <1>0, <2>1, <2>2, HandOverKeeps
<1>3. CASE FlushLast(f)
  <2>1. phase' \in [Facade -> Phase] /\ Live' = Live
    BY <1>0, <1>3 DEF FlushLast, Phase, Live
  <2>2. LimitsStrict'
    BY <1>3, <2>1 DEF FlushLast, IInv, LimitsStrict
  <2> QED
    BY <1>0, <1>3, <2>1, <2>2, FacadeStep DEF FlushLast
<1>4. CASE FinishFlush(f)
  <2>1. phase' \in [Facade -> Phase] /\ Live' = Live /\ f \in Live
    BY <1>0, <1>4 DEF FinishFlush, Phase, Live
  <2> QED
    BY <1>4, <2>1, ReleaseEntriesKeeps DEF FinishFlush
<1>5. CASE Resume(f)
  <2>1. phase' \in [Facade -> Phase] /\ Live' = Live /\ f \in Live
    BY <1>0, <1>5 DEF Resume, Phase, Live
  <2> QED
    BY <1>5, <2>1, ReleaseEntriesKeeps DEF Resume
<1>6. CASE Dispose(f)
  <2>1. /\ phase' \in [Facade -> Phase] /\ Live' = Live \ {f} /\ Live \ {f} # {}
        /\ limits' = Minimum(Live \ {f}) /\ HandOver(f, Lane)
    BY <1>0, <1>6 DEF Dispose, Phase, Live
  <2>2. limits' \in [Lane -> Nat] /\ \A g \in Live', l \in Lane : limits'[l] <= LimitOf[g][l]
    BY <1>0, <2>1, MinimumIsStrict
  <2> QED
    BY <1>0, <2>1, <2>2, HandOverKeeps DEF LimitsStrict
<1>7. CASE DisposeLast(f)
  <2>1. /\ phase' \in [Facade -> Phase] /\ Live' = {} /\ limits' = [l \in Lane |-> 0]
        /\ active' = {} /\ queued' = {} /\ Forget(Task) /\ stripped' = stripped \ Task
        /\ UNCHANGED call
    BY <1>0, <1>7 DEF DisposeLast, Phase, Live, Vacate
  <2>2. LimitsStrict' /\ limits' \in [Lane -> Nat]
    BY <2>1 DEF LimitsStrict
  <2>3. TypeOK'
    BY <2>1, <2>2, ForgetTyped DEF IInv, TypeOK
  <2>4. active' = active \ Task /\ queued' = queued \ Task
    BY <2>1 DEF IInv, TypeOK
  <2> QED
    BY <2>1, <2>2, <2>3, <2>4, ForgetKeeps
<1> QED
  BY <1>1, <1>2, <1>3, <1>4, <1>5, <1>6, <1>7 DEF Life
-----------------------------------------------------------------------------
(* The turns of a call, and the microtasks. *)

\* Only what is scheduled changes, or a task moves from the queue to its slot.
LEMMA CallStep ==
    ASSUME IInv, UNCHANGED <<phase, limits, owner, claims, stripped>>,
           call' # None => call' \in Call,
           active' \in SUBSET Task, queued' \in SUBSET Task, active' \cap queued' = {},
           active' \cup queued' = active \cup queued,
           scheduled' \in SUBSET Task,
           \A t \in scheduled' : t \in scheduled \/ owner[t] # None
    PROVE  IInv'
<1>1. Live' = Live /\ LimitsStrict'
  BY SameFacades DEF IInv
<1>2. TypeOK'
  BY DEF IInv, TypeOK
<1>3. ASSUME NEW t \in Task PROVE TaskInHand(t)'
  BY <1>1 DEF IInv, InHand, TaskInHand
<1> QED
  BY <1>1, <1>2, <1>3 DEF IInv, InHand

LEMMA FinishStep == ASSUME IInv, Finish PROVE IInv'
<1>0. /\ active \in SUBSET Task /\ queued \in SUBSET Task /\ active \cap queued = {}
      /\ scheduled \in SUBSET Task
      /\ call # None => call \in Call
  BY DEF IInv, TypeOK, InHand
<1>1. ASSUME NEW t \in Task, Admit(t) PROVE IInv'
  <2>1. call' \in Call
    BY <1>0, <1>1 DEF Admit, Call
  <2>2. /\ t \in queued /\ queued' = queued \ {t} /\ active' = active \cup {t}
        /\ UNCHANGED <<phase, limits, owner, claims, scheduled, stripped>>
    BY <1>1 DEF Admit, entries, history
  <2> QED
    BY <1>0, <2>1, <2>2, CallStep
<1>2. ASSUME NEW l \in Lane, Drained(l) PROVE IInv'
  <2>1. call' \in Call
    BY <1>0, <1>2 DEF Drained, Call
  <2> QED
    BY <1>0, <1>2, <2>1, CallStep DEF Drained, entries, history
<1>3. CASE Return
  <2> DEFINE local == {t \in call.admitted : owner[t] \in {None, call.by}}
             remote == {t \in (call.admitted \ local) \cup call.handed :
                          owner[t] # None /\ t \notin scheduled}
  <2>1. /\ call # None /\ call' = None /\ scheduled' = scheduled \cup remote
        /\ UNCHANGED <<phase, limits, active, queued, owner, claims, stripped>>
    BY <1>3 DEF Return
  <2>2. remote \in SUBSET Task /\ \A t \in remote : owner[t] # None
    BY <1>0, <2>1 DEF Call
  <2> HIDE DEF remote
  <2> QED
    BY <1>0, <2>1, <2>2, CallStep
<1> QED
  BY <1>1, <1>2, <1>3 DEF Finish

LEMMA MicrotaskStep == ASSUME IInv, Microtask PROVE IInv'
<1>1. /\ UNCHANGED <<phase, limits, active, queued, owner, claims, call, stripped>>
      /\ scheduled' \subseteq scheduled
  BY DEF Microtask
<1> QED
  BY <1>1, CallStep DEF IInv, TypeOK, InHand

LEMMA InitIInv == Init => IInv
<1> SUFFICES ASSUME Init PROVE IInv
  OBVIOUS
<1>1. TypeOK
  BY DEF Init, TypeOK, Phase
<1>2. Live = {}
  BY DEF Init, Live
<1> QED
  BY <1>1, <1>2 DEF Init, IInv, InHand, TaskInHand, LimitsStrict

LEMMA NextStep == IInv /\ [Next]_vars => IInv'
<1> SUFFICES ASSUME IInv, [Next]_vars PROVE IInv'
  OBVIOUS
<1>1. ASSUME NEW f \in Facade, Tasks(f) PROVE IInv'
  BY <1>1, TaskStep
<1>2. ASSUME NEW f \in Facade, Life(f) PROVE IInv'
  BY <1>2, LifeStep
<1>3. CASE Finish
  BY <1>3, FinishStep
<1>4. CASE Microtask
  BY <1>4, MicrotaskStep
<1>5. CASE UNCHANGED vars
  BY <1>5, CallStep DEF vars, IInv, TypeOK, InHand
<1> QED
  BY <1>1, <1>2, <1>3, <1>4, <1>5 DEF Next

-----------------------------------------------------------------------------
(* How a lane grows. *)

LEMMA ShrinkingLane ==
    ASSUME IInv, NEW l \in Lane, active' \subseteq active
    PROVE  ~(Cardinality(ActiveIn(l)') > Cardinality(ActiveIn(l)))
<1>1. IsFiniteSet(ActiveIn(l)) /\ ActiveIn(l)' \subseteq ActiveIn(l)
  <2>1. ActiveIn(l) \subseteq Task
    BY DEF IInv, TypeOK, ActiveIn
  <2>2. IsFiniteSet(ActiveIn(l))
    BY <2>1, FS_Subset, TaskSchedulerAssumption
  <2> QED
    BY <2>2 DEF ActiveIn
<1>2. Cardinality(ActiveIn(l)') <= Cardinality(ActiveIn(l)) /\ IsFiniteSet(ActiveIn(l)')
  BY <1>1, FS_Subset
<1>3. Cardinality(ActiveIn(l)') \in Nat /\ Cardinality(ActiveIn(l)) \in Nat
  BY <1>1, <1>2, FS_CardinalityType
<1> QED
  BY <1>2, <1>3

\* A task admitted had room under the limits, which are the strictest.
LEMMA AdmittedWithinLimits ==
    ASSUME IInv, NEW l \in Lane, NEW t \in Task, Admit(t),
           Cardinality(ActiveIn(l)') > Cardinality(ActiveIn(l))
    PROVE  \A f \in Live' : Cardinality(ActiveIn(l)') <= LimitOf[f][l]
<1>1. /\ HasRoom(LaneOf[t]) /\ active' = active \cup {t}
      /\ UNCHANGED <<phase, limits>>
  BY DEF Admit
<1>2. IsFiniteSet(ActiveIn(l))
  <2>1. ActiveIn(l) \subseteq Task
    BY DEF IInv, TypeOK, ActiveIn
  <2> QED
    BY <2>1, FS_Subset, TaskSchedulerAssumption
<1>3. Cardinality(ActiveIn(l)) \in Nat
  BY <1>2, FS_CardinalityType
<1>4. CASE LaneOf[t] # l
  <2>1. ActiveIn(l)' = ActiveIn(l)
    BY <1>1, <1>4 DEF ActiveIn
  <2> QED
    BY <1>3, <2>1
<1>5. CASE LaneOf[t] = l
  <2>1. ActiveIn(l)' = ActiveIn(l) \cup {t}
    BY <1>1, <1>5 DEF ActiveIn
  <2>2. Cardinality(ActiveIn(l)') <= Cardinality(ActiveIn(l)) + 1
    <3>1. Cardinality(ActiveIn(l) \cup {t})
            = IF t \in ActiveIn(l) THEN Cardinality(ActiveIn(l)) ELSE Cardinality(ActiveIn(l)) + 1
      BY <1>2, FS_AddElement
    <3> QED
      BY <1>3, <2>1, <3>1
  <2>3. Cardinality(ActiveIn(l)) < limits[l]
    BY <1>1, <1>5 DEF HasRoom
  <2>4. IsFiniteSet(ActiveIn(l)') /\ Cardinality(ActiveIn(l)') \in Nat
    BY <1>2, <2>1, FS_AddElement, FS_CardinalityType
  <2>5. limits[l] \in Nat /\ Live' = Live
    BY <1>1, SameFacades DEF IInv, TypeOK
  <2>6. ASSUME NEW f \in Live PROVE limits[l] <= LimitOf[f][l] /\ LimitOf[f][l] \in Nat
    BY TaskSchedulerAssumption, LiveIsFacade DEF IInv, LimitsStrict
  <2> QED
    BY <1>3, <2>2, <2>3, <2>4, <2>5, <2>6
<1> QED
  BY <1>4, <1>5

\* Nothing else puts a task into a lane's active set.
LEMMA OnlyTheseGrow ==
    ASSUME [Next]_vars
    PROVE  \/ active' \subseteq active
           \/ \E t \in Task : Admit(t)
           \/ \E f \in Facade, t \in Task : RestoreActive(f, t)
<1>1. ASSUME NEW f \in Facade, NEW L, HandOver(f, L) PROVE UNCHANGED active
  BY <1>1 DEF HandOver
<1>2. ASSUME NEW f \in Facade, ReleaseEntries(f) PROVE active' \subseteq active
  BY <1>1, <1>2 DEF ReleaseEntries, WithdrawAll
<1>3. ASSUME NEW f \in Facade, Life(f) PROVE active' \subseteq active
  <2>1. CASE Join(f) \/ FlushLast(f) \/ DisposeLast(f)
    BY <2>1 DEF Join, FlushLast, DisposeLast
  <2>2. CASE Flush(f) \/ Dispose(f)
    BY <1>1, <2>2 DEF Flush, Dispose
  <2>3. CASE FinishFlush(f) \/ Resume(f)
    BY <1>2, <2>3 DEF FinishFlush, Resume
  <2> QED
    BY <1>3, <2>1, <2>2, <2>3 DEF Life
<1>4. ASSUME NEW f \in Facade, NEW t \in Task,
             Enqueue(f, t) \/ RemoveQueued(f, t) \/ Withdraw(f, t) \/ Release(f, t)
      PROVE  active' \subseteq active
  BY <1>4 DEF Enqueue, RemoveQueued, Withdraw, Release
<1>5. CASE \/ \E l \in Lane : Drained(l)
           \/ Return \/ Microtask \/ UNCHANGED vars
  BY <1>5 DEF Drained, Return, Microtask, vars
<1> QED
  BY <1>3, <1>4, <1>5 DEF Next, Tasks, Finish
-----------------------------------------------------------------------------
(* Nobody waits in front of a free slot: inside a call that holds of the lanes *)
(* the call has finished with.                                                 *)

LimitsExact == Live # {} => limits = Minimum(Live)

EmptyWithoutFacade == Live = {} => queued = {}

Conserving ==
    \A l \in Lane : QueuedIn(l) # {} /\ HasRoom(l) => call # None /\ l \in call.lanes

CInv == IInv /\ LimitsExact /\ EmptyWithoutFacade /\ Conserving

\* A joining facade never makes the limits looser.
LEMMA MinimumFalls ==
    ASSUME NEW F \in SUBSET Facade, F # {}, NEW G \in SUBSET Facade, F \subseteq G, NEW l \in Lane
    PROVE  Minimum(G)[l] <= Minimum(F)[l]
<1>1. PICK f \in F : Minimum(F)[l] = LimitOf[f][l]
  BY MinimumIsStrict
<1>2. G # {} /\ f \in G
  OBVIOUS
<1> QED
  BY <1>1, <1>2, MinimumIsStrict

LEMMA NoNewRoom ==
    ASSUME IInv, NEW l \in Lane, ActiveIn(l) \subseteq ActiveIn(l)', active' \in SUBSET Task,
           limits' \in [Lane -> Nat], limits'[l] <= limits[l], HasRoom(l)'
    PROVE  HasRoom(l)
<1>1. IsFiniteSet(ActiveIn(l)')
  <2>1. ActiveIn(l)' \subseteq Task
    BY DEF ActiveIn
  <2> QED
    BY <2>1, FS_Subset, TaskSchedulerAssumption
<1>2. Cardinality(ActiveIn(l)) <= Cardinality(ActiveIn(l)') /\ IsFiniteSet(ActiveIn(l))
  BY <1>1, FS_Subset
<1>3. Cardinality(ActiveIn(l)) \in Nat /\ Cardinality(ActiveIn(l)') \in Nat
  BY <1>1, <1>2, FS_CardinalityType
<1>4. Cardinality(ActiveIn(l)') < limits'[l]
  BY DEF HasRoom
<1>5. limits[l] \in Nat /\ limits'[l] \in Nat
  BY DEF IInv, TypeOK
<1> QED
  BY <1>2, <1>3, <1>4, <1>5 DEF HasRoom

\* Lanes that lose no active task, gain no queued one and no limit keep what
\* holds of them; the others are among those the call drains.
LEMMA LanesKept ==
    ASSUME CInv, IInv', NEW L \in SUBSET Lane,
           \A t \in active \ active' : LaneOf[t] \in L,
           \A t \in queued' \ queued : LaneOf[t] \in L,
           \A l \in Lane \ L : limits'[l] <= limits[l],
           L # {} => call' # None /\ L \subseteq call'.lanes,
           call = None \/ (call' # None /\ call.lanes \subseteq call'.lanes)
    PROVE  Conserving'
<1> SUFFICES ASSUME NEW l \in Lane, QueuedIn(l)' # {}, HasRoom(l)'
             PROVE  call' # None /\ l \in call'.lanes
  BY DEF Conserving
<1>1. CASE l \in L
  BY <1>1
<1>2. CASE l \notin L
  <2>1. active' \in SUBSET Task /\ limits' \in [Lane -> Nat]
    BY DEF IInv, TypeOK
  <2>2. ActiveIn(l) \subseteq ActiveIn(l)' /\ QueuedIn(l)' \subseteq QueuedIn(l)
    BY <1>2 DEF ActiveIn, QueuedIn
  <2>3. HasRoom(l) /\ QueuedIn(l) # {}
    BY <1>2, <2>1, <2>2, NoNewRoom DEF CInv
  <2>4. call # None /\ l \in call.lanes
    BY <2>3 DEF CInv, Conserving
  <2> QED
    BY <2>4
<1> QED
  BY <1>1, <1>2

\* The same when no lane is drained.
LEMMA NoLaneTouched ==
    ASSUME CInv, IInv',
           active \subseteq active', queued' \subseteq queued,
           \A l \in Lane : limits'[l] <= limits[l],
           call = None \/ (call' # None /\ call.lanes \subseteq call'.lanes)
    PROVE  Conserving'
<1>1. /\ {} \in SUBSET Lane /\ Lane \ {} = Lane
      /\ active \ active' = {} /\ queued' \ queued = {}
  OBVIOUS
<1> QED
  BY <1>1, LanesKept

LEMMA SameLimits ==
    ASSUME IInv, UNCHANGED limits, NEW l \in Lane
    PROVE  limits'[l] <= limits[l]
  BY DEF IInv, TypeOK

LEMMA TaskConserves ==
    ASSUME CInv, NEW f \in Facade, Tasks(f) PROVE CInv'
<1> PICK t \in Task : \/ Enqueue(f, t) \/ RestoreActive(f, t)
                      \/ RemoveQueued(f, t) \/ Withdraw(f, t) \/ Release(f, t)
  BY DEF Tasks
<1>0. /\ IInv /\ IInv' /\ LaneOf[t] \in Lane
      /\ f \in Live /\ call = None /\ UNCHANGED <<phase, limits>> /\ Live' = Live
  BY TaskStep, TaskSchedulerAssumption
     DEF CInv, Enqueue, RestoreActive, RemoveQueued, Withdraw, Release, Ready, Idle, Live
<1>1. LimitsExact' /\ EmptyWithoutFacade'
  BY <1>0 DEF CInv, LimitsExact, EmptyWithoutFacade
<1>2. \A l \in Lane : limits'[l] <= limits[l]
  BY <1>0, SameLimits
<1>3. CASE active \subseteq active' /\ queued' \subseteq queued
  <2>1. call = None \/ (call' # None /\ call.lanes \subseteq call'.lanes)
    BY <1>0
  <2>2. Conserving'
    BY <1>0, <1>2, <1>3, <2>1, NoLaneTouched
  <2> QED
    BY <1>0, <1>1, <2>2 DEF CInv
<1>4. CASE Begin(f, {LaneOf[t]}, {}) /\ active \ {t} \subseteq active'
           /\ queued' \subseteq queued \cup {t}
  <2>1. call' # None /\ call'.lanes = {LaneOf[t]} /\ {LaneOf[t]} \in SUBSET Lane
    BY <1>0, <1>4, BeginsCall, NoneAssumption DEF Begin
  <2>2. Conserving'
    BY <1>0, <1>2, <1>4, <2>1, LanesKept
  <2> QED
    BY <1>0, <1>1, <2>2 DEF CInv
<1>5. CASE RestoreActive(f, t)
  BY <1>3, <1>5 DEF RestoreActive
<1>6. CASE Withdraw(f, t) \/ Release(f, t)
  BY <1>3, <1>4, <1>6 DEF Withdraw, Release
<1>7. CASE Enqueue(f, t)
  BY <1>3, <1>4, <1>7 DEF Enqueue
<1>8. CASE RemoveQueued(f, t)
  BY <1>3, <1>8 DEF RemoveQueued
<1> QED
  BY <1>5, <1>6, <1>7, <1>8

\* A facade leaves the lanes alone, or drains those it takes tasks out of.
LEMMA ReleaseConserves ==
    ASSUME CInv, IInv', NEW f \in Facade, ReleaseEntries(f), call = None, UNCHANGED limits
    PROVE  Conserving' /\ queued' \subseteq queued
<1>1. \A l \in Lane : limits'[l] <= limits[l]
  BY SameLimits DEF CInv
<1>2. CASE HandOver(f, {})
  <2>1. UNCHANGED <<active, queued>>
    BY <1>2 DEF HandOver
  <2> QED
    BY <1>1, <2>1, NoLaneTouched
<1>3. CASE WithdrawAll(f)
  <2> DEFINE mine == {t \in Task : f \in claims[t]}
             L == {LaneOf[t] : t \in mine}
  <2>1. active' = active \ mine /\ queued' = queued \ mine /\ Begin(f, L, {})
    BY <1>3 DEF WithdrawAll
  <2>2. L \in SUBSET Lane /\ {} \in SUBSET Task
    BY TaskSchedulerAssumption
  <2>3. call' # None /\ call'.lanes = L
    BY <2>1, <2>2, BeginsCall, NoneAssumption DEF Begin
  <2>4. \A t \in active \ active' : LaneOf[t] \in L
    BY <2>1
  <2>5. queued' \ queued = {}
    BY <2>1
  <2> HIDE DEF mine, L
  <2>6. Conserving'
    BY <1>1, <2>2, <2>3, <2>4, <2>5, LanesKept
  <2> QED
    BY <2>5, <2>6
<1> QED
  BY <1>2, <1>3 DEF ReleaseEntries

LEMMA LifeConserves ==
    ASSUME CInv, NEW f \in Facade, Life(f) PROVE CInv'
<1>0. /\ IInv /\ IInv' /\ Live \subseteq Facade /\ phase \in [Facade -> Phase]
      /\ call = None
  BY LifeStep, LiveIsFacade
     DEF CInv, IInv, TypeOK, Life, Join, Flush, FlushLast, FinishFlush, Resume, Dispose,
         DisposeLast, Ready, Idle
<1>1. CASE Join(f)
  <2>1. /\ phase' = [phase EXCEPT ![f] = "serving"] /\ limits' = Minimum(Live \cup {f})
        /\ UNCHANGED <<active, queued, call>>
    BY <1>1 DEF Join
  <2>2. Live' = Live \cup {f}
    BY <1>0, <2>1 DEF Phase, Live
  <2>3. CASE Live = {}
    <3>1. queued' = {}
      BY <2>1, <2>3 DEF CInv, EmptyWithoutFacade
    <3>2. Conserving'
      BY <3>1 DEF Conserving, QueuedIn
    <3> QED
      BY <1>0, <2>1, <2>2, <3>2 DEF CInv, LimitsExact, EmptyWithoutFacade
  <2>4. CASE Live # {}
    <3>1. ASSUME NEW l \in Lane PROVE limits'[l] <= limits[l]
      BY <1>0, <2>1, <2>4, MinimumFalls DEF CInv, LimitsExact
    <3>2. Conserving'
      BY <1>0, <2>1, <3>1, NoLaneTouched
    <3> QED
      BY <1>0, <2>1, <2>2, <3>2 DEF CInv, LimitsExact, EmptyWithoutFacade
  <2> QED
    BY <2>3, <2>4
<1>2. CASE Flush(f) \/ FlushLast(f)
  <2>1. Live' = Live /\ Live # {} /\ UNCHANGED <<limits, active, queued>>
    BY <1>0, <1>2 DEF Flush, FlushLast, HandOver, Phase, Live
  <2>2. \A l \in Lane : limits'[l] <= limits[l]
    BY <1>0, <2>1, SameLimits
  <2>3. Conserving'
    BY <1>0, <2>1, <2>2, NoLaneTouched
  <2> QED
    BY <1>0, <2>1, <2>3 DEF CInv, LimitsExact, EmptyWithoutFacade
<1>3. CASE FinishFlush(f) \/ Resume(f)
  <2>1. Live' = Live /\ Live # {} /\ UNCHANGED limits /\ ReleaseEntries(f)
    BY <1>0, <1>3 DEF FinishFlush, Resume, Phase, Live
  <2>2. Conserving'
    BY <1>0, <2>1, ReleaseConserves
  <2> QED
    BY <1>0, <2>1, <2>2 DEF CInv, LimitsExact, EmptyWithoutFacade
<1>4. CASE Dispose(f)
  <2>1. /\ Live' = Live \ {f} /\ Live \ {f} # {} /\ limits' = Minimum(Live \ {f})
        /\ HandOver(f, Lane)
    BY <1>0, <1>4 DEF Dispose, Phase, Live
  <2>2. call' # None /\ call'.lanes = Lane
    <3>1. {t \in active : f \in claims[t]} \in SUBSET Task /\ Lane \in SUBSET Lane
      BY <1>0 DEF IInv, TypeOK
    <3>2. Begin(f, Lane, {t \in active : f \in claims[t]})
      BY <2>1 DEF HandOver
    <3> QED
      BY <3>1, <3>2, BeginsCall, NoneAssumption DEF Begin
  <2>3. Conserving'
    BY <2>2 DEF Conserving
  <2> QED
    BY <1>0, <2>1, <2>3 DEF CInv, LimitsExact, EmptyWithoutFacade
<1>5. CASE DisposeLast(f)
  <2>1. Live' = {} /\ queued' = {}
    BY <1>0, <1>5 DEF DisposeLast, Phase, Live
  <2>2. Conserving'
    BY <2>1 DEF Conserving, QueuedIn
  <2> QED
    BY <1>0, <2>1, <2>2 DEF CInv, LimitsExact, EmptyWithoutFacade
<1> QED
  BY <1>1, <1>2, <1>3, <1>4, <1>5 DEF Life

LEMMA FinishConserves == ASSUME CInv, Finish PROVE CInv'
<1>0. /\ IInv /\ IInv' /\ call # None /\ call \in Call
      /\ UNCHANGED <<phase, limits>> /\ Live' = Live /\ queued' \subseteq queued
  BY FinishStep DEF CInv, IInv, TypeOK, Finish, Admit, Drained, Return, Live
<1>1. LimitsExact' /\ EmptyWithoutFacade'
  BY <1>0 DEF CInv, LimitsExact, EmptyWithoutFacade
<1>2. \A l \in Lane : limits'[l] <= limits[l]
  BY <1>0, SameLimits
<1>3. ASSUME NEW t \in Task, Admit(t) PROVE Conserving'
  <2>1. /\ active \subseteq active'
        /\ call' = [call EXCEPT !.admitted = @ \cup {t}]
    BY <1>3 DEF Admit
  <2>2. call'.lanes = call.lanes /\ call' \in Call
    BY <1>0, <2>1 DEF Call
  <2>3. call' # None
    BY <2>2, NoneAssumption
  <2> QED
    BY <1>0, <1>2, <2>1, <2>2, <2>3, NoLaneTouched
<1>4. ASSUME NEW k \in Lane, Drained(k) PROVE Conserving'
  <2>1. /\ UNCHANGED <<limits, active, queued>> /\ (~HasRoom(k) \/ QueuedIn(k) = {})
        /\ call' = [call EXCEPT !.lanes = @ \ {k}]
    BY <1>4 DEF Drained
  <2>2. call'.lanes = call.lanes \ {k} /\ call' \in Call
    BY <1>0, <2>1 DEF Call
  <2>3. call' # None
    BY <2>2, NoneAssumption
  <2>4. ASSUME NEW l \in Lane, QueuedIn(l)' # {}, HasRoom(l)' PROVE l \in call'.lanes
    <3>1. QueuedIn(l) # {} /\ HasRoom(l)
      BY <2>1, <2>4 DEF QueuedIn, HasRoom, ActiveIn
    <3>2. l \in call.lanes /\ l # k
      BY <2>1, <3>1 DEF CInv, Conserving
    <3> QED
      BY <2>2, <3>2
  <2> QED
    BY <2>3, <2>4 DEF Conserving
<1>5. ASSUME Return PROVE Conserving'
  <2>1. call.lanes = {} /\ UNCHANGED <<limits, active, queued>>
    BY <1>5 DEF Return
  <2>2. ASSUME NEW l \in Lane, QueuedIn(l)' # {}, HasRoom(l)' PROVE FALSE
    <3>1. QueuedIn(l) # {} /\ HasRoom(l)
      BY <2>1, <2>2 DEF QueuedIn, HasRoom, ActiveIn
    <3> QED
      BY <2>1, <3>1 DEF CInv, Conserving
  <2> QED
    BY <2>2 DEF Conserving
<1> QED
  BY <1>0, <1>1, <1>3, <1>4, <1>5 DEF CInv, Finish

LEMMA ConservingStep == CInv /\ [Next]_vars => CInv'
<1> SUFFICES ASSUME CInv, [Next]_vars PROVE CInv'
  OBVIOUS
<1>1. ASSUME NEW f \in Facade, Tasks(f) PROVE CInv'
  BY <1>1, TaskConserves
<1>2. ASSUME NEW f \in Facade, Life(f) PROVE CInv'
  BY <1>2, LifeConserves
<1>3. CASE Finish
  BY <1>3, FinishConserves
<1>4. CASE Microtask \/ UNCHANGED vars
  <2>1. IInv /\ IInv' /\ UNCHANGED <<phase, limits, active, queued, call>>
    BY <1>4, NextStep DEF CInv, Microtask, vars
  <2> QED
    BY <2>1 DEF CInv, LimitsExact, EmptyWithoutFacade, Conserving, QueuedIn, HasRoom, ActiveIn, Live
<1> QED
  BY <1>1, <1>2, <1>3, <1>4 DEF Next
-----------------------------------------------------------------------------
(* No dispatch is lost. *)

Carried(t) == \E i \in 1 .. Len(microtasks) : t \in microtasks[i]

\* A claimant serves the task, or will: through a microtask, the call under way
\* or its own departure.
Reached(t) ==
    \/ t \in stripped
    \/ served[t] \cap claims[t] # {}
    \/ Carried(t)
    \/ \E f \in claims[t] : phase[f] \in {"stopping", "paused"}
    \/ call # None /\ t \in call.admitted \cup call.handed

\* An entry counts as scheduled only while a microtask carries its task.
ScheduledCarried == \A t \in scheduled : Carried(t)

DInv ==
    /\ IInv
    /\ microtasks \in Seq(SUBSET Task) /\ served \in [Task -> SUBSET Facade]
    /\ ScheduledCarried
    /\ \A t \in active : Reached(t)

LEMMA AppendCarries ==
    ASSUME microtasks \in Seq(SUBSET Task), NEW r \in SUBSET Task,
           microtasks' = Append(microtasks, r)
    PROVE  /\ microtasks' \in Seq(SUBSET Task)
           /\ \A t \in Task : Carried(t)' <=> Carried(t) \/ t \in r
<1>1. /\ microtasks' \in Seq(SUBSET Task) /\ Len(microtasks') = Len(microtasks) + 1
      /\ Len(microtasks) \in Nat
      /\ \A i \in 1 .. Len(microtasks) : microtasks'[i] = microtasks[i]
      /\ microtasks'[Len(microtasks) + 1] = r
  OBVIOUS
<1>2. ASSUME NEW t \in Task PROVE Carried(t)' <=> Carried(t) \/ t \in r
  BY <1>1 DEF Carried
<1> QED
  BY <1>1, <1>2

LEMMA TailCarries ==
    ASSUME microtasks \in Seq(SUBSET Task), microtasks # <<>>, microtasks' = Tail(microtasks)
    PROVE  /\ microtasks' \in Seq(SUBSET Task) /\ Head(microtasks) \in SUBSET Task
           /\ \A t \in Task : Carried(t) => t \in Head(microtasks) \/ Carried(t)'
<1>1. /\ microtasks' \in Seq(SUBSET Task) /\ Head(microtasks) = microtasks[1]
      /\ Head(microtasks) \in SUBSET Task
      /\ Len(microtasks) \in Nat /\ Len(microtasks') = Len(microtasks) - 1
      /\ \A i \in 1 .. Len(microtasks') : microtasks'[i] = microtasks[i + 1]
  OBVIOUS
<1>2. ASSUME NEW t \in Task, Carried(t), t \notin Head(microtasks) PROVE Carried(t)'
  <2>1. PICK i \in 1 .. Len(microtasks) : t \in microtasks[i]
    BY <1>2 DEF Carried
  <2>2. i # 1 /\ i - 1 \in 1 .. Len(microtasks')
    BY <1>1, <1>2, <2>1
  <2>3. microtasks'[i - 1] = microtasks[i]
    BY <1>1, <2>2
  <2> QED
    BY <2>1, <2>2, <2>3 DEF Carried
<1> QED
  BY <1>1, <1>2

\* A step outside a call that leaves the microtasks alone.
LEMMA ReachedStep ==
    ASSUME DInv, IInv', call = None, UNCHANGED microtasks, served' \in [Task -> SUBSET Facade],
           scheduled' \subseteq scheduled,
           \A t \in active' :
             \/ /\ t \in active
                /\ t \in stripped => t \in stripped'
                /\ served[t] \cap claims[t] # {} => served'[t] \cap claims'[t] # {}
                /\ (\E f \in claims[t] : phase[f] \in {"stopping", "paused"})
                     => \E f \in claims'[t] : phase'[f] \in {"stopping", "paused"}
             \/ t \in stripped'
             \/ served'[t] \cap claims'[t] # {}
             \/ \E f \in claims'[t] : phase'[f] \in {"stopping", "paused"}
             \/ call' # None /\ t \in call'.handed
    PROVE  DInv'
<1>1. ASSUME NEW t PROVE Carried(t) <=> Carried(t)'
  BY DEF Carried
<1>2. ScheduledCarried'
  BY <1>1 DEF DInv, ScheduledCarried
<1>3. ASSUME NEW t \in active' PROVE Reached(t)'
  BY <1>1, <1>3 DEF DInv, Reached
<1> QED
  BY <1>2, <1>3 DEF DInv

LEMMA TaskReaches ==
    ASSUME DInv, NEW f \in Facade, Tasks(f) PROVE DInv'
<1> PICK t \in Task : \/ Enqueue(f, t) \/ RestoreActive(f, t)
                      \/ RemoveQueued(f, t) \/ Withdraw(f, t) \/ Release(f, t)
  BY DEF Tasks
<1>0. /\ IInv' /\ f \in Live /\ call = None /\ UNCHANGED <<phase, microtasks>>
      /\ active \cap queued = {}
      /\ claims \in [Task -> SUBSET Facade] /\ served \in [Task -> SUBSET Facade]
      /\ active \in SUBSET Task /\ stripped \in SUBSET Task
  BY TaskStep
     DEF DInv, IInv, TypeOK, InHand, Enqueue, RestoreActive, RemoveQueued, Withdraw, Release,
         Ready, Idle
<1>1. CASE Enqueue(f, t)
  <2>1. /\ claims' = [claims EXCEPT ![t] = @ \cup {f}]
        /\ UNCHANGED <<scheduled, active, served, stripped>>
    BY <1>1 DEF Enqueue, Claim, history
  <2>2. \A u \in Task : claims[u] \subseteq claims'[u]
    BY <1>0, <2>1
  <2> QED
    BY <1>0, <2>1, <2>2, ReachedStep
<1>2. CASE RestoreActive(f, t)
  <2>1. /\ claims' = [claims EXCEPT ![t] = @ \cup {f}] /\ UNCHANGED scheduled
        /\ active' = active \cup {t} /\ stripped' = stripped \ {t}
        /\ served' = [served EXCEPT ![t] = IF phase[f] = "serving" THEN @ \cup {f} ELSE @]
    BY <1>2 DEF RestoreActive, Claim
  <2>2. /\ \A u \in Task : claims[u] \subseteq claims'[u] /\ served[u] \subseteq served'[u]
        /\ served' \in [Task -> SUBSET Facade] /\ f \in claims'[t]
    BY <1>0, <2>1
  <2>3. \/ served'[t] \cap claims'[t] # {}
        \/ \E g \in claims'[t] : phase'[g] \in {"stopping", "paused"}
    <3>1. CASE phase[f] = "serving"
      BY <1>0, <2>1, <2>2, <3>1
    <3>2. CASE phase[f] # "serving"
      BY <1>0, <2>2, <3>2 DEF Live
    <3> QED
      BY <3>1, <3>2
  <2>4. \A u \in active' \ {t} : u \in active /\ (u \in stripped => u \in stripped')
    BY <2>1
  <2>5. active' \subseteq Task
    BY <1>0, <2>1
  <2> QED
    BY <1>0, <2>1, <2>2, <2>3, <2>4, <2>5, ReachedStep
<1>3. CASE RemoveQueued(f, t) \/ Withdraw(f, t) \/ Release(f, t)
  <2>1. /\ Forget({t}) /\ active' = active \ {t}
        /\ \A u \in Task : u # t => served'[u] = served[u] /\ (u \in stripped => u \in stripped')
        /\ served' \in [Task -> SUBSET Facade]
    BY <1>0, <1>3 DEF RemoveQueued, Withdraw, Release, Vacate
  <2>2. /\ scheduled' \subseteq scheduled
        /\ \A u \in Task : u # t => claims'[u] = claims[u]
    BY <2>1 DEF Forget
  <2>3. active' \subseteq Task \ {t} /\ active' \subseteq active
    BY <1>0, <2>1
  <2> QED
    BY <1>0, <2>1, <2>2, <2>3, ReachedStep
<1> QED
  BY <1>1, <1>2, <1>3

\* What a facade that leaves has claimed is handed over; the rest is not touched.
LEMMA HandOverReaches ==
    ASSUME DInv, IInv', NEW f \in Facade, NEW L \in SUBSET Lane, HandOver(f, L),
           call = None, UNCHANGED microtasks,
           \A g \in Facade \ {f} : phase'[g] = phase[g]
    PROVE  DInv'
<1> DEFINE handed == {t \in active : f \in claims[t]}
<1>0. /\ claims \in [Task -> SUBSET Facade] /\ served \in [Task -> SUBSET Facade]
      /\ active \in SUBSET Task
  BY DEF DInv, IInv, TypeOK
<1>1. PICK h \in Heirs(f) :
        /\ claims' = [t \in Task |-> IF claims[t] = {f} THEN {h[t]} ELSE claims[t] \ {f}]
        /\ Begin(f, L, handed)
        /\ served' = [t \in Task |-> served[t] \ {f}]
        /\ UNCHANGED <<active, scheduled, stripped>>
  BY DEF HandOver, StopServing
<1>2. call' # None /\ call'.handed = handed
  <2>1. handed \in SUBSET Task
    BY <1>0
  <2> QED
    BY <1>1, <2>1, BeginsCall, NoneAssumption DEF Begin
<1>3. served' \in [Task -> SUBSET Facade]
  BY <1>0, <1>1
<1>4. ASSUME NEW t \in active, t \notin handed
      PROVE  /\ claims'[t] = claims[t] /\ f \notin claims[t]
             /\ served'[t] \cap claims'[t] = served[t] \cap claims[t]
             /\ \A g \in claims[t] : phase'[g] = phase[g]
  BY <1>0, <1>1, <1>4
<1> HIDE DEF handed
<1> QED
  BY <1>1, <1>2, <1>3, <1>4, ReachedStep

LEMMA ReleaseReaches ==
    ASSUME DInv, IInv', NEW f \in Facade, ReleaseEntries(f), call = None, UNCHANGED microtasks,
           \A g \in Facade \ {f} : phase'[g] = phase[g]
    PROVE  DInv'
<1>1. CASE Live # {f}
  BY <1>1, HandOverReaches DEF ReleaseEntries
<1>2. CASE Live = {f}
  <2> DEFINE mine == {t \in Task : f \in claims[t]}
  <2>1. /\ active' = active \ mine /\ Forget(mine) /\ stripped' = stripped \ mine
        /\ served' = [t \in Task |-> IF t \in mine THEN {} ELSE served[t] \ {f}]
    BY <1>2 DEF ReleaseEntries, WithdrawAll
  <2>2. scheduled' \subseteq scheduled /\ served' \in [Task -> SUBSET Facade]
    BY <2>1 DEF Forget, DInv
  <2>3. ASSUME NEW t \in active' PROVE t \in stripped'
    <3>1. t \in Task /\ t \in active /\ t \notin mine
      BY <2>1, <2>3 DEF DInv, IInv, TypeOK
    <3>2. TaskInHand(t) /\ f \notin claims[t]
      BY <3>1 DEF DInv, IInv, InHand
    <3>3. t \in stripped
      BY <1>2, <3>1, <3>2 DEF TaskInHand
    <3> QED
      BY <2>1, <3>1, <3>3
  <2> HIDE DEF mine
  <2> QED
    BY <2>2, <2>3, ReachedStep
<1> QED
  BY <1>1, <1>2

LEMMA LifeReaches ==
    ASSUME DInv, NEW f \in Facade, Life(f) PROVE DInv'
<1>0. /\ IInv' /\ call = None /\ phase \in [Facade -> Phase]
      /\ served \in [Task -> SUBSET Facade] /\ claims \in [Task -> SUBSET Facade]
      /\ active \in SUBSET Task /\ {} \in SUBSET Lane /\ Lane \in SUBSET Lane
  BY LifeStep
     DEF DInv, IInv, TypeOK, Life, Join, Flush, FlushLast, FinishFlush, Resume, Dispose,
         DisposeLast, Ready, Idle
<1>1. CASE Join(f)
  <2>1. /\ phase[f] = "new" /\ phase' = [phase EXCEPT ![f] = "serving"]
        /\ UNCHANGED <<active, claims, scheduled, microtasks, call, served, stripped>>
    BY <1>1 DEF Join, entries, history
  <2>2. \A g \in Facade : phase[g] \in {"stopping", "paused"} => phase'[g] = phase[g]
    BY <1>0, <2>1
  <2> QED
    BY <1>0, <2>1, <2>2, ReachedStep
<1>2. CASE FlushLast(f)
  <2>1. /\ Live = {f} /\ phase' = [phase EXCEPT ![f] = "stopping"]
        /\ served' = [t \in Task |-> served[t] \ {f}]
        /\ UNCHANGED <<active, owner, claims, scheduled, microtasks, call, stripped>>
    BY <1>2 DEF FlushLast, StopServing, entries
  <2>2. phase'[f] = "stopping"
    BY <1>0, <2>1
  <2>3. ASSUME NEW t \in active', t \notin stripped'
        PROVE  \E g \in claims'[t] : phase'[g] \in {"stopping", "paused"}
    <3>1. TaskInHand(t)
      BY <1>0, <2>1 DEF DInv, IInv, InHand
    <3>2. f \in claims[t]
      BY <2>1, <2>3, <3>1 DEF TaskInHand
    <3> QED
      BY <2>1, <2>2, <3>2
  <2>4. served' \in [Task -> SUBSET Facade]
    BY <1>0, <2>1
  <2> QED
    BY <1>0, <2>1, <2>3, <2>4, ReachedStep
<1>3. CASE Flush(f) \/ Dispose(f)
  <2>1. /\ HandOver(f, {}) \/ HandOver(f, Lane)
        /\ UNCHANGED microtasks /\ \A g \in Facade \ {f} : phase'[g] = phase[g]
    BY <1>0, <1>3 DEF Flush, Dispose
  <2> QED
    BY <1>0, <2>1, HandOverReaches
<1>4. CASE FinishFlush(f) \/ Resume(f)
  <2>1. /\ ReleaseEntries(f) /\ UNCHANGED microtasks
        /\ \A g \in Facade \ {f} : phase'[g] = phase[g]
    BY <1>0, <1>4 DEF FinishFlush, Resume
  <2> QED
    BY <1>0, <2>1, ReleaseReaches
<1>5. CASE DisposeLast(f)
  <2>1. active' = {} /\ scheduled' = {} /\ microtasks' = <<>> /\ served' = [t \in Task |-> {}]
    BY <1>0, <1>5 DEF DisposeLast, Forget, Vacate, DInv, IInv, TypeOK
  <2> QED
    BY <1>0, <2>1 DEF DInv, ScheduledCarried
<1> QED
  BY <1>1, <1>2, <1>3, <1>4, <1>5 DEF Life

LEMMA FinishReaches == ASSUME DInv, Finish PROVE DInv'
<1>0. /\ IInv' /\ call # None /\ call \in Call /\ UNCHANGED <<phase, owner, claims, stripped>>
      /\ active \in SUBSET Task /\ served \in [Task -> SUBSET Facade]
      /\ microtasks \in Seq(SUBSET Task)
  BY FinishStep DEF DInv, IInv, TypeOK, Finish, Admit, Drained, Return, entries, history
<1>1. ASSUME NEW t \in Task, Admit(t) PROVE DInv'
  <2>1. /\ active' = active \cup {t} /\ call' = [call EXCEPT !.admitted = @ \cup {t}]
        /\ UNCHANGED <<scheduled, microtasks, served>>
    BY <1>1 DEF Admit, entries, history
  <2>2. call' \in Call /\ call'.admitted = call.admitted \cup {t} /\ call'.handed = call.handed
    BY <1>0, <2>1 DEF Call
  <2>3. call' # None
    BY <2>2, NoneAssumption
  <2>4. ASSUME NEW u PROVE Carried(u) <=> Carried(u)'
    BY <2>1 DEF Carried
  <2>5. ASSUME NEW u \in active' PROVE Reached(u)'
    BY <1>0, <2>1, <2>2, <2>3, <2>4, <2>5 DEF DInv, Reached
  <2>6. ScheduledCarried'
    BY <2>1, <2>4 DEF DInv, ScheduledCarried
  <2> QED
    BY <1>0, <2>1, <2>5, <2>6 DEF DInv
<1>2. ASSUME NEW l \in Lane, Drained(l) PROVE DInv'
  <2>1. /\ call' = [call EXCEPT !.lanes = @ \ {l}]
        /\ UNCHANGED <<active, scheduled, microtasks, served>>
    BY <1>2 DEF Drained, entries, history
  <2>2. call' \in Call /\ call'.admitted = call.admitted /\ call'.handed = call.handed
    BY <1>0, <2>1 DEF Call
  <2>3. call' # None
    BY <2>2, NoneAssumption
  <2>4. ASSUME NEW u PROVE Carried(u) <=> Carried(u)'
    BY <2>1 DEF Carried
  <2>5. ASSUME NEW u \in active' PROVE Reached(u)'
    BY <1>0, <2>1, <2>2, <2>3, <2>4, <2>5 DEF DInv, Reached
  <2>6. ScheduledCarried'
    BY <2>1, <2>4 DEF DInv, ScheduledCarried
  <2> QED
    BY <1>0, <2>1, <2>5, <2>6 DEF DInv
<1>3. CASE Return
  <2> DEFINE local == {t \in call.admitted : owner[t] \in {None, call.by}}
             remote == {t \in (call.admitted \ local) \cup call.handed :
                          owner[t] # None /\ t \notin scheduled}
  <2>1. /\ scheduled' = scheduled \cup remote /\ UNCHANGED active
        /\ served' = [t \in Task |-> IF t \in local /\ phase[call.by] = "serving"
                                     THEN served[t] \cup {call.by} ELSE served[t]]
        /\ microtasks' = IF remote = {} THEN microtasks ELSE Append(microtasks, remote)
    BY <1>3 DEF Return
  <2>2. remote \in SUBSET Task /\ call.by \in Facade
    BY <1>0 DEF Call
  <2>3. /\ microtasks' \in Seq(SUBSET Task)
        /\ \A t \in Task : Carried(t)' <=> Carried(t) \/ t \in remote
    <3>1. CASE remote = {}
      BY <1>0, <2>1, <3>1 DEF Carried
    <3>2. CASE remote # {}
      BY <1>0, <2>1, <2>2, <3>2, AppendCarries
    <3> QED
      BY <3>1, <3>2
  <2>4. served' \in [Task -> SUBSET Facade] /\ \A t \in Task : served[t] \subseteq served'[t]
    BY <1>0, <2>1, <2>2
  <2>5. ScheduledCarried'
    <3>1. scheduled \subseteq Task
      BY DEF DInv, IInv, TypeOK
    <3> HIDE DEF remote, local
    <3> QED
      BY <2>1, <2>2, <2>3, <3>1 DEF DInv, ScheduledCarried
  <2>6. ASSUME NEW t \in active' PROVE Reached(t)'
    <3>0. t \in Task /\ t \in active /\ TaskInHand(t) /\ Reached(t)
      BY <1>0, <2>1, <2>6 DEF DInv, IInv, InHand
    <3>1. CASE t \notin call.admitted \cup call.handed
      BY <1>0, <2>3, <2>4, <3>0, <3>1 DEF Reached
    <3>2. CASE owner[t] = None
      <4>1. t \in stripped
        BY <3>0, <3>2 DEF TaskInHand
      <4> QED
        BY <1>0, <4>1 DEF Reached
    <3>3. CASE t \in local /\ owner[t] # None
      <4>1. call.by \in claims[t] /\ call.by \in Live
        BY <3>0, <3>3 DEF TaskInHand
      <4>2. CASE phase[call.by] = "serving"
        <5>1. call.by \in served'[t]
          BY <2>1, <3>0, <3>3, <4>2
        <5> QED
          BY <1>0, <4>1, <5>1 DEF Reached
      <4>3. CASE phase[call.by] # "serving"
        <5>1. phase[call.by] \in {"stopping", "paused"}
          BY <4>1, <4>3 DEF Live
        <5> QED
          BY <1>0, <4>1, <5>1 DEF Reached
      <4> QED
        BY <4>2, <4>3
    <3>4. CASE t \in call.admitted \cup call.handed /\ t \notin local /\ owner[t] # None
      <4>1. t \in scheduled \/ t \in remote
        BY <3>4
      <4>2. Carried(t)'
        BY <2>3, <3>0, <4>1 DEF DInv, ScheduledCarried
      <4> QED
        BY <4>2 DEF Reached
    <3>5. CASE t \in local
      BY <3>2, <3>3, <3>5
    <3> HIDE DEF local, remote
    <3> QED
      BY <3>1, <3>2, <3>4, <3>5
  <2> HIDE DEF local, remote
  <2> QED
    BY <1>0, <2>3, <2>4, <2>5, <2>6 DEF DInv
<1> QED
  BY <1>1, <1>2, <1>3 DEF Finish

\* A task the microtask does not dispatch has no entry, or an owner on its way out.
LEMMA MicrotaskReaches == ASSUME DInv, Microtask PROVE DInv'
<1> DEFINE batch == {t \in Head(microtasks) : owner[t] # None}
<1>1. /\ microtasks # <<>> /\ microtasks' = Tail(microtasks) /\ scheduled' = scheduled \ batch
      /\ served' = [t \in Task |-> IF t \in batch \cap active /\ phase[owner[t]] = "serving"
                                   THEN served[t] \cup {owner[t]} ELSE served[t]]
      /\ UNCHANGED <<phase, active, owner, claims, call, stripped>>
      /\ call = None
  BY DEF Microtask, Idle
<1>2. IInv' /\ microtasks \in Seq(SUBSET Task) /\ active \in SUBSET Task
      /\ owner \in [Task -> Facade \cup {None}] /\ scheduled \in SUBSET Task
      /\ served \in [Task -> SUBSET Facade]
  BY MicrotaskStep DEF DInv, IInv, TypeOK
<1>3. /\ microtasks' \in Seq(SUBSET Task) /\ batch \in SUBSET Task
      /\ \A t \in Task : Carried(t) => t \in Head(microtasks) \/ Carried(t)'
  BY <1>1, <1>2, TailCarries
<1>4. served' \in [Task -> SUBSET Facade] /\ \A t \in Task : served[t] \subseteq served'[t]
  <2>1. \A t \in batch : owner[t] \in Facade
    BY <1>2, <1>3
  <2> HIDE DEF batch
  <2> QED
    BY <1>1, <1>2, <2>1
<1>5. ASSUME NEW t \in scheduled' PROVE Carried(t)'
  <2>1. t \in Task /\ t \in scheduled /\ t \notin batch /\ owner[t] # None
    BY <1>1, <1>2, <1>5 DEF DInv, IInv, InHand, TaskInHand
  <2>2. Carried(t) /\ t \notin Head(microtasks)
    BY <2>1 DEF DInv, ScheduledCarried
  <2> QED
    BY <1>3, <2>1, <2>2
<1>6. ASSUME NEW t \in active' PROVE Reached(t)'
  <2>0. t \in Task /\ t \in active /\ TaskInHand(t) /\ Reached(t)
    BY <1>1, <1>2, <1>6 DEF DInv, IInv, InHand
  <2>1. CASE ~Carried(t) \/ Carried(t)'
    BY <1>1, <1>4, <2>0, <2>1 DEF Reached
  <2>2. CASE t \in Head(microtasks) /\ owner[t] = None
    <3>1. t \in stripped
      BY <2>0, <2>2 DEF TaskInHand
    <3> QED
      BY <1>1, <3>1 DEF Reached
  <2>3. CASE t \in batch
    <3>1. owner[t] \in claims[t] /\ owner[t] \in Live
      BY <2>0, <2>3 DEF TaskInHand
    <3>2. CASE phase[owner[t]] = "serving"
      <4>1. owner[t] \in served'[t]
        BY <1>1, <2>0, <2>3, <3>2
      <4> QED
        BY <1>1, <3>1, <4>1 DEF Reached
    <3>3. CASE phase[owner[t]] # "serving"
      <4>1. phase[owner[t]] \in {"stopping", "paused"}
        BY <3>1, <3>3 DEF Live
      <4> QED
        BY <1>1, <3>1, <4>1 DEF Reached
    <3> QED
      BY <3>2, <3>3
  <2> QED
    BY <1>3, <2>0, <2>1, <2>2, <2>3
<1> QED
  BY <1>2, <1>3, <1>4, <1>5, <1>6 DEF DInv, ScheduledCarried

LEMMA ReachingStep == DInv /\ [Next]_vars => DInv'
<1> SUFFICES ASSUME DInv, [Next]_vars PROVE DInv'
  OBVIOUS
<1>1. ASSUME NEW f \in Facade, Tasks(f) PROVE DInv'
  BY <1>1, TaskReaches
<1>2. ASSUME NEW f \in Facade, Life(f) PROVE DInv'
  BY <1>2, LifeReaches
<1>3. CASE Finish
  BY <1>3, FinishReaches
<1>4. CASE Microtask
  BY <1>4, MicrotaskReaches
<1>5. CASE UNCHANGED vars
  <2>1. IInv'
    BY <1>5, NextStep DEF DInv
  <2>2. ASSUME NEW t PROVE Carried(t) <=> Carried(t)'
    BY <1>5 DEF vars, Carried
  <2> QED
    BY <1>5, <2>1, <2>2 DEF vars, DInv, ScheduledCarried, Reached
<1> QED
  BY <1>1, <1>2, <1>3, <1>4, <1>5 DEF Next
-----------------------------------------------------------------------------
(* The theorems. *)

\* The parts of the inductive invariant hold in every reachable state.
THEOREM Invariance == Spec => []IInv
<1> QED
  BY InitIInv, NextStep, PTL DEF Spec

\* Whatever facades are flushed, resumed and disposed of, the entry of a task is
\* owned by a live facade that claims it, for any number of each
\* (#releaseEntries and #scheduleDispatch).
THEOREM InGoodHands == Spec => []EntriesInHand
<1>1. IInv => EntriesInHand
  BY InHandIsEntriesInHand DEF IInv
<1> QED
  BY Invariance, <1>1, PTL

\* But for recovery, a lane grows only up to the strictest limit among the live
\* facades (minimumLimits and #drain).
THEOREM GrowsWithinLimits == Spec => StrictestLimit
<1> DEFINE Within ==
      \A l \in Lane :
          Cardinality(ActiveIn(l)') > Cardinality(ActiveIn(l)) =>
             \/ \A f \in Live' : Cardinality(ActiveIn(l)') <= LimitOf[f][l]
             \/ \E f \in Facade, t \in Task : RestoreActive(f, t)
<1>1. IInv /\ [Next]_vars => Within
  <2> SUFFICES ASSUME IInv, [Next]_vars,
                      NEW l \in Lane, Cardinality(ActiveIn(l)') > Cardinality(ActiveIn(l)),
                      ~\E f \in Facade, t \in Task : RestoreActive(f, t)
               PROVE  \A f \in Live' : Cardinality(ActiveIn(l)') <= LimitOf[f][l]
    OBVIOUS
  <2>1. ~(active' \subseteq active)
    BY ShrinkingLane
  <2>2. PICK t \in Task : Admit(t)
    BY <2>1, OnlyTheseGrow
  <2> QED
    BY <2>2, AdmittedWithinLimits
<1>2. IInv /\ [Next]_vars => [Within]_vars
  BY <1>1
<1> HIDE DEF Within
<1>3. Spec => [][Within]_vars
  BY Invariance, <1>2, PTL DEF Spec
<1> QED
  BY <1>3 DEF StrictestLimit, Within

\* Between calls nobody waits in front of a free slot, whatever freed it: an end,
\* a withdrawal or the disposal of the strictest facade (#drain).
THEOREM NobodyWaitsForNothing == Spec => []WorkConserving
<1>1. Init => CInv
  <2> SUFFICES ASSUME Init PROVE CInv
    OBVIOUS
  <2>1. IInv /\ queued = {} /\ Live = {}
    BY InitIInv DEF Init, Live
  <2> QED
    BY <2>1 DEF CInv, LimitsExact, EmptyWithoutFacade, Conserving, QueuedIn
<1>2. CInv => WorkConserving
  BY DEF CInv, Conserving, WorkConserving, Idle
<1> QED
  BY <1>1, <1>2, ConservingStep, PTL DEF Spec

\* Between calls an active task has a runtime that was told to run it, a microtask
\* on the way, or a claimant that will hand it over (#route, #scheduleDispatch and
\* #releaseEntries).
THEOREM NoDispatchIsLost == Spec => []NoLostDispatch
<1>1. Init => DInv
  <2> SUFFICES ASSUME Init PROVE DInv
    OBVIOUS
  <2>1. IInv /\ microtasks = <<>> /\ served = [t \in Task |-> {}] /\ active = {} /\ scheduled = {}
    BY InitIInv DEF Init
  <2> QED
    BY <2>1 DEF DInv, ScheduledCarried
<1>2. DInv => NoLostDispatch
  <2> SUFFICES ASSUME DInv, call = None, NEW t \in active
               PROVE  \/ t \in stripped
                      \/ served[t] # {}
                      \/ \E i \in DOMAIN microtasks : t \in microtasks[i]
                      \/ \E f \in claims[t] : phase[f] \in {"stopping", "paused"}
    BY DEF NoLostDispatch, Idle
  <2>1. Reached(t) /\ microtasks \in Seq(SUBSET Task)
    BY DEF DInv
  <2>2. Carried(t) => \E i \in DOMAIN microtasks : t \in microtasks[i]
    BY <2>1 DEF Carried
  <2> QED
    BY <2>1, <2>2 DEF Reached
<1> QED
  BY <1>1, <1>2, ReachingStep, PTL DEF Spec
=============================================================================
