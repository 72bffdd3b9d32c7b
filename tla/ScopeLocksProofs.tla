-------------------------- MODULE ScopeLocksProofs --------------------------
(***************************************************************************)
(* Theorems about ScopeLocks, for every set of owners and every tree of    *)
(* paths.                                                                  *)
(***************************************************************************)
EXTENDS ScopeLocks, SequenceTheorems, TLAPS

(***************************************************************************)
(* Sequences and scopes.                                                   *)
(***************************************************************************)

\* Removing the i-th waiter shifts those behind it and leaves the others.
LEMMA RemoveAtElements ==
    ASSUME NEW X, NEW s \in Seq(X), NEW i \in 1..Len(s)
    PROVE  /\ RemoveAt(s, i) \in Seq(X)
           /\ Len(RemoveAt(s, i)) = Len(s) - 1
           /\ \A j \in 1..Len(s) - 1 :
                RemoveAt(s, i)[j] = IF j < i THEN s[j] ELSE s[j + 1]
<1> DEFINE front == SubSeq(s, 1, i - 1)
           back == SubSeq(s, i + 1, Len(s))
<1>1. /\ front \in Seq(X)
      /\ Len(front) = i - 1
      /\ \A j \in 1..i - 1 : front[j] = s[j]
  OBVIOUS
<1>2. /\ back \in Seq(X)
      /\ Len(back) = Len(s) - i
      /\ \A j \in 1..Len(s) - i : back[j] = s[i + j]
  OBVIOUS
<1>3. RemoveAt(s, i) = front \o back
  BY DEF RemoveAt
<1> HIDE DEF front, back
<1>4. /\ front \o back \in Seq(X)
      /\ Len(front \o back) = Len(front) + Len(back)
      /\ \A j \in 1..Len(front) + Len(back) :
           (front \o back)[j] = IF j <= Len(front) THEN front[j]
                                ELSE back[j - Len(front)]
  BY <1>1, <1>2, ConcatProperties
<1> QED
  BY <1>1, <1>2, <1>3, <1>4

\* A merge is an effect again, and merging into nothing keeps the newcomer.
LEMMA MergeEffect ==
    ASSUME NEW S \in Effect, NEW T \in Effect
    PROVE  /\ Merge(S, T) \in Effect
           /\ Merge({}, T) = T
           /\ Merge(S, {}) = S
           /\ Merge(S, T) = {} => S = {} /\ T = {}
<1>1. Merge(S, T) \in Effect
  <2>1. CASE Star \in S \cup T
    BY <2>1 DEF Merge, Effect
  <2>2. CASE Star \notin S \cup T
    <3>1. S \in SUBSET Path /\ T \in SUBSET Path
      BY <2>2 DEF Effect
    <3> QED
      BY <2>2, <3>1 DEF Merge, Effect
  <2> QED
    BY <2>1, <2>2
<1>2. \A U \in Effect : Star \in U => U = {Star}
  BY ScopeLocksAssumption DEF Effect
<1>3. Merge({}, T) = T /\ Merge(S, {}) = S
  BY <1>2 DEF Merge
<1>4. Merge(S, T) = {} => S = {} /\ T = {}
  BY DEF Merge
<1> QED
  BY <1>1, <1>3, <1>4

\* Overlap is symmetric and grows with either side; a merge overlaps nothing
\* that neither part overlaps.
LEMMA OverlapMerge ==
    ASSUME NEW S \in Effect, NEW T \in Effect, NEW U \in Effect
    PROVE  /\ Overlap(S, T) <=> Overlap(T, S)
           /\ Overlap(U, S) => Overlap(U, Merge(S, T))
           /\ Overlap(Merge(S, T), U) => Overlap(S, U) \/ Overlap(T, U)
<1>1. Overlap(S, T) <=> Overlap(T, S)
  BY DEF Overlap
<1>2. Overlap(U, S) => Overlap(U, Merge(S, T))
  BY DEF Overlap, Merge
<1>3. Overlap(Merge(S, T), U) => Overlap(S, U) \/ Overlap(T, U)
  BY DEF Overlap, Merge
<1> QED
  BY <1>1, <1>2, <1>3

\* Authority that is merged with more still covers what it covered.
LEMMA CoversMerge ==
    ASSUME NEW S \in Effect, NEW T \in Effect, NEW U \in Effect,
           Covers(S, U)
    PROVE  Covers(Merge(S, T), U)
BY DEF Covers, Merge

\* Holdings that grow by a merge cover what they were.
LEMMA MergeCovers ==
    ASSUME NEW S \in Effect, NEW T \in Effect
    PROVE  Covers(Merge(S, T), S)
BY ScopeLocksAssumption DEF Covers, Merge, Effect

(***************************************************************************)
(* Ancestors.                                                              *)
(***************************************************************************)

\* The ancestors of p are the least set that holds p and is closed upwards.
LEMMA AncestorsLeast ==
    ASSUME NEW f \in [Owner -> OwnerOrNone], NEW p \in Owner
    PROVE  /\ AncestorsIn(f, p) \subseteq Owner
           /\ p \in AncestorsIn(f, p)
           /\ ClosedUpwards(f, AncestorsIn(f, p))
           /\ \A S \in SUBSET Owner :
                p \in S /\ ClosedUpwards(f, S) => AncestorsIn(f, p) \subseteq S
<1>1. p # None
  BY ScopeLocksAssumption
<1>2. AncestorsIn(f, p) =
        {a \in Owner :
           \A S \in SUBSET Owner : p \in S /\ ClosedUpwards(f, S) => a \in S}
  BY <1>1 DEF AncestorsIn
<1>3. ClosedUpwards(f, AncestorsIn(f, p))
  <2> SUFFICES ASSUME NEW x \in AncestorsIn(f, p), f[x] # None
               PROVE  f[x] \in AncestorsIn(f, p)
    BY DEF ClosedUpwards
  <2>1. x \in Owner /\ f[x] \in Owner
    BY <1>2 DEF OwnerOrNone
  <2>2. ASSUME NEW S \in SUBSET Owner, p \in S, ClosedUpwards(f, S)
        PROVE  f[x] \in S
    BY <1>2, <2>2 DEF ClosedUpwards
  <2> QED
    BY <1>2, <2>1, <2>2
<1> QED
  BY <1>2, <1>3

\* Nobody reaches an owner that is nobody's parent.
LEMMA ChildlessUnreached ==
    ASSUME NEW f \in [Owner -> OwnerOrNone], NEW o \in Owner,
           \A x \in Owner : f[x] # o,
           NEW p \in OwnerOrNone, p # o
    PROVE  o \notin AncestorsIn(f, p)
<1>1. CASE p = None
  BY <1>1 DEF AncestorsIn
<1>2. CASE p \in Owner
  <2>1. p \in Owner \ {o} /\ ClosedUpwards(f, Owner \ {o})
    BY <1>2 DEF ClosedUpwards, OwnerOrNone
  <2> QED
    BY <1>2, <2>1, AncestorsLeast
<1> QED
  BY <1>1, <1>2 DEF OwnerOrNone

\* Re-homing an owner that p does not reach leaves the ancestors of p alone.
LEMMA AncestorsFrame ==
    ASSUME NEW f \in [Owner -> OwnerOrNone], NEW o \in Owner,
           NEW q \in OwnerOrNone, NEW p \in OwnerOrNone,
           o \notin AncestorsIn(f, p)
    PROVE  AncestorsIn([f EXCEPT ![o] = q], p) = AncestorsIn(f, p)
<1> DEFINE g == [f EXCEPT ![o] = q]
<1> g \in [Owner -> OwnerOrNone]
  OBVIOUS
<1>0. \A x \in Owner \ {o} : g[x] = f[x]
  OBVIOUS
<1>1. CASE p = None
  BY <1>1 DEF AncestorsIn
<1>2. CASE p \in Owner
  <2>1. AncestorsIn(g, p) \subseteq AncestorsIn(f, p)
    <3>1. ClosedUpwards(g, AncestorsIn(f, p))
      <4> SUFFICES ASSUME NEW x \in AncestorsIn(f, p), g[x] # None
                   PROVE  g[x] \in AncestorsIn(f, p)
        BY DEF ClosedUpwards
      <4>1. x \in Owner \ {o}
        BY <1>2, AncestorsLeast
      <4> QED
        BY <1>0, <1>2, <4>1, AncestorsLeast DEF ClosedUpwards
    <3> QED
      BY <1>2, <3>1, AncestorsLeast
  <2>2. AncestorsIn(f, p) \subseteq AncestorsIn(g, p)
    <3> DEFINE T == AncestorsIn(g, p) \cap AncestorsIn(f, p)
    <3>1. p \in T /\ T \in SUBSET Owner
      BY <1>2, AncestorsLeast
    <3>2. ClosedUpwards(f, T)
      <4> HIDE DEF g
      <4> SUFFICES ASSUME NEW x \in T, f[x] # None
                   PROVE  f[x] \in T
        BY DEF ClosedUpwards
      <4>1. x \in Owner \ {o} /\ g[x] = f[x]
        BY <1>0, <1>2, AncestorsLeast
      <4>2. f[x] \in AncestorsIn(f, p)
        BY <1>2, AncestorsLeast DEF ClosedUpwards
      <4>3. g[x] \in AncestorsIn(g, p)
        <5>1. ClosedUpwards(g, AncestorsIn(g, p))
          BY <1>2, AncestorsLeast
        <5> QED
          BY <4>1, <5>1 DEF ClosedUpwards
      <4> QED
        BY <4>1, <4>2, <4>3
    <3>3. AncestorsIn(f, p) \subseteq T
      <4> HIDE DEF T
      <4> QED
        BY <1>2, <3>1, <3>2, AncestorsLeast
    <3> QED
      BY <3>3
  <2> QED
    BY <2>1, <2>2
<1> QED
  BY <1>1, <1>2 DEF OwnerOrNone

(***************************************************************************)
(* Type correctness.                                                       *)
(***************************************************************************)

\* What a request that #parent admits may assume of the parent it is bound to.
LEMMA AdmissibleParent ==
    ASSUME TypeOK, NEW o \in Owner, NEW S \in Effect, NEW p \in OwnerOrNone,
           NEW r \in BOOLEAN, Admissible(o, S, p, r)
    PROVE  /\ Bound(o, p) \in OwnerOrNone
           /\ Admissible(o, S, Bound(o, p), r)
           /\ p # None => p \in nodes /\ p # o
           /\ Bound(o, p) # None => Bound(o, p) \in nodes /\ Bound(o, p) # o
           /\ o \in nodes /\ p # None => parentOf[o] = p
<1>1. Bound(o, p) \in OwnerOrNone
  BY DEF Bound, TypeOK
<1>2. Bound(o, Bound(o, p)) = Bound(o, p)
  BY DEF Bound
<1>3. o \in nodes /\ p # None => parentOf[o] = p
  BY DEF Admissible
<1>4. o \in nodes /\ Bound(o, p) # None => parentOf[o] = Bound(o, p)
  BY <1>3 DEF Bound
<1>5. Admissible(o, S, Bound(o, p), r)
  BY <1>2, <1>4 DEF Admissible
<1>6. p # None => Bound(o, p) = p
  BY DEF Bound
<1> QED
  BY <1>1, <1>3, <1>5, <1>6 DEF Admissible

\* #own keeps the types.
LEMMA OwnType ==
    ASSUME TypeOK, NEW o \in Owner, NEW S \in Effect, NEW q \in OwnerOrNone,
           q # None => q \in nodes,
           Own(o, S, q)
    PROVE  /\ nodes' \subseteq Owner
           /\ scopesOf' \in [Owner -> Effect]
           /\ owned' \subseteq nodes'
           /\ parentOf' \in [Owner -> OwnerOrNone]
           /\ childrenOf' \in [Owner -> SUBSET Owner]
           /\ \A n \in Owner \ nodes' :
                scopesOf'[n] = {} /\ parentOf'[n] = None /\ childrenOf'[n] = {}
<1>1. scopesOf[o] \in Effect
  BY DEF TypeOK
<1>2. Merge(scopesOf[o], S) \in Effect
  BY <1>1, MergeEffect
<1>3. scopesOf' \in [Owner -> Effect]
  BY <1>2 DEF TypeOK, Own
<1>4. parentOf' \in [Owner -> OwnerOrNone]
  BY DEF TypeOK, Own
<1>5. childrenOf' \in [Owner -> SUBSET Owner]
  BY DEF TypeOK, Own
<1>6. ASSUME NEW n \in Owner \ nodes'
      PROVE  scopesOf'[n] = {} /\ parentOf'[n] = None /\ childrenOf'[n] = {}
  <2>1. n # o /\ n \notin nodes /\ n # q
    BY <1>6, ScopeLocksAssumption DEF Own, TypeOK
  <2> QED
    BY <2>1 DEF TypeOK, Own
<1> QED
  BY <1>3, <1>4, <1>5, <1>6 DEF TypeOK, Own

\* A waiter picked from the queue is a waiter.
LEMMA WaiterType ==
    ASSUME TypeOK, NEW i \in DOMAIN waiters
    PROVE  /\ i \in 1..Len(waiters)
           /\ waiters[i] \in Waiter
           /\ waiters[i].owner \in Owner
           /\ waiters[i].scopes \in Effect
           /\ waiters[i].parent \in OwnerOrNone
<1>1. waiters \in Seq(Waiter) /\ i \in 1..Len(waiters)
  BY DEF TypeOK
<1>2. waiters[i] \in Waiter
  BY <1>1
<1> QED
  BY <1>1, <1>2 DEF Waiter

\* The configured effects are effects.
LEMMA EffectsAreEffects == Effects \subseteq Effect
BY ScopeLocksAssumption DEF Effect

\* Every step keeps the types.
LEMMA TypeStep == TypeOK /\ [Next]_vars => TypeOK'
<1> SUFFICES ASSUME TypeOK, [Next]_vars
             PROVE  TypeOK'
  OBVIOUS
<1> USE EffectsAreEffects
<1>1. ASSUME NEW o \in Owner, NEW S \in Effects, NEW p \in OwnerOrNone,
             AcquireNow(o, S, p)
      PROVE  TypeOK'
  <2>1. /\ Admissible(o, S, p, FALSE)
        /\ Own(o, S, Bound(o, p))
        /\ UNCHANGED <<waiters, dropping, draining, forced>>
    BY <1>1 DEF AcquireNow, control
  <2>2. Bound(o, p) \in OwnerOrNone /\ (Bound(o, p) # None => Bound(o, p) \in nodes)
    BY <2>1, AdmissibleParent
  <2>3. forced' \subseteq nodes'
    BY <2>1 DEF TypeOK, Own
  <2> QED
    BY <2>1, <2>2, <2>3, OwnType DEF TypeOK
<1>2. ASSUME NEW o \in Owner, NEW S \in Effects, NEW p \in OwnerOrNone,
             AcquireLater(o, S, p)
      PROVE  TypeOK'
  <2>1. Bound(o, p) \in OwnerOrNone
    BY DEF Bound, TypeOK
  <2>2. [owner |-> o, scopes |-> S, parent |-> Bound(o, p)] \in Waiter
    BY <2>1 DEF Waiter
  <2>3. waiters' \in Seq(Waiter)
    BY <1>2, <2>2 DEF AcquireLater, TypeOK
  <2> QED
    BY <1>2, <2>3 DEF AcquireLater, TypeOK, locks, control
<1>3. ASSUME NEW o \in Owner, NEW S \in Effects, NEW p \in OwnerOrNone,
             NEW a \in BOOLEAN, Restore(o, S, p, a)
      PROVE  TypeOK'
  <2>1. /\ Admissible(o, S, p, TRUE)
        /\ Own(o, S, Bound(o, p))
        /\ UNCHANGED <<waiters, dropping, draining>>
        /\ forced' = forced \/ forced' = forced \cup {o}
    BY <1>3 DEF Restore, control
  <2>2. Bound(o, p) \in OwnerOrNone /\ (Bound(o, p) # None => Bound(o, p) \in nodes)
    BY <2>1, AdmissibleParent
  <2>3. forced' \subseteq nodes'
    BY <2>1 DEF TypeOK, Own
  <2> QED
    BY <2>1, <2>2, <2>3, OwnType DEF TypeOK
<1>4. ASSUME NEW i \in 1..MaxWaiters, AbortWaiter(i)
      PROVE  TypeOK'
  <2>1. i \in 1..Len(waiters)
    BY <1>4, WaiterType DEF AbortWaiter
  <2>2. waiters' \in Seq(Waiter)
    BY <1>4, <2>1, RemoveAtElements DEF AbortWaiter, TypeOK
  <2> QED
    BY <1>4, <2>2 DEF AbortWaiter, TypeOK, locks, control
<1>5. ASSUME NEW o \in Owner, Release(o)
      PROVE  TypeOK'
  BY <1>5 DEF Release, TypeOK, Idle, OwnerOrNone
<1>6. ASSUME NEW o \in Owner, DropNode(o)
      PROVE  TypeOK'
  <2>1. /\ scopesOf' \in [Owner -> Effect]
        /\ parentOf' \in [Owner -> OwnerOrNone]
        /\ childrenOf' \in [Owner -> SUBSET Owner]
    <3>1. {} \in Effect /\ None \in OwnerOrNone
      BY DEF Effect, OwnerOrNone
    <3> QED
      BY <1>6, <3>1 DEF DropNode, TypeOK
  <2>2. \A n \in Owner \ nodes' :
           scopesOf'[n] = {} /\ parentOf'[n] = None /\ childrenOf'[n] = {}
    BY <1>6 DEF DropNode, TypeOK
  <2>3. dropping' \in OwnerOrNone /\ draining' \in Nat
        /\ (dropping' # None => draining' = 0)
    BY <1>6 DEF DropNode, TypeOK
  <2> QED
    BY <1>6, <2>1, <2>2, <2>3 DEF DropNode, TypeOK
<1>7. ASSUME NEW o \in Owner, DropStop(o)
      PROVE  TypeOK'
  BY <1>7 DEF DropStop, TypeOK, locks, OwnerOrNone
<1>8. CASE DrainReject
  <2>1. draining \in 1..Len(waiters)
    BY <1>8, WaiterType DEF DrainReject
  <2>2. waiters' \in Seq(Waiter)
    BY <1>8, <2>1, RemoveAtElements DEF DrainReject, TypeOK
  <2> QED
    BY <1>8, <2>2 DEF DrainReject, TypeOK, locks, control
<1>9. CASE DrainSkip
  <2>1. dropping = None
    BY <1>9, WaiterType DEF DrainSkip, TypeOK
  <2> QED
    BY <1>9, <2>1 DEF DrainSkip, TypeOK, locks
<1>10. CASE DrainGrant
  <2>1. /\ draining \in 1..Len(waiters)
        /\ Current.owner \in Owner
        /\ Current.scopes \in Effect
        /\ Current.parent \in OwnerOrNone
    BY <1>10, WaiterType DEF DrainGrant, Current
  <2>2. waiters' \in Seq(Waiter)
    BY <1>10, <2>1, RemoveAtElements DEF DrainGrant, TypeOK
  <2>3. Current.parent # None => Current.parent \in nodes
    BY <1>10, <2>1, AdmissibleParent DEF DrainGrant
  <2>4. Own(Current.owner, Current.scopes, Current.parent)
    BY <1>10 DEF DrainGrant
  <2>5. UNCHANGED <<dropping, draining, forced>> /\ forced' \subseteq nodes'
    BY <1>10, <2>4 DEF DrainGrant, control, Own, TypeOK
  <2> QED
    BY <2>1, <2>2, <2>3, <2>4, <2>5, OwnType DEF TypeOK
<1>11. CASE DrainEnd
  BY <1>11 DEF DrainEnd, TypeOK, locks
<1>12. CASE Clear
  <2>1. scopesOf' \in [Owner -> Effect]
    <3>1. {} \in Effect
      BY DEF Effect
    <3> QED
      BY <1>12, <3>1 DEF Clear, TypeOK
  <2>2. waiters' \in Seq(Waiter)
    BY <1>12 DEF Clear
  <2> QED
    BY <1>12, <2>1, <2>2 DEF Clear, TypeOK, control
<1>13. CASE UNCHANGED vars
  BY <1>13 DEF vars, TypeOK
<1> QED
  BY <1>1, <1>2, <1>3, <1>4, <1>5, <1>6, <1>7, <1>8, <1>9, <1>10, <1>11,
     <1>12, <1>13
  DEF Next, Acquire, Recover, Abort, Settle, Drain

\* The variables keep their types: in particular a deleted lock leaves no
\* scope, parent or child behind for the next holder of its identity.
THEOREM TypeCorrect == Spec => []TypeOK
<1>1. Init => TypeOK
  BY ScopeLocksAssumption
  DEF Init, TypeOK, Effect, OwnerOrNone
<1> QED
  BY <1>1, TypeStep, PTL DEF Spec

(***************************************************************************)
(* What a step does to the table of locks.                                 *)
(***************************************************************************)

SameTable == UNCHANGED <<nodes, scopesOf, parentOf, childrenOf, forced>>

\* A lock is granted or restored to o, for scopes S, below q.
Granted(o, S, q) ==
    /\ \E r \in BOOLEAN : Admissible(o, S, q, r)
    /\ Own(o, S, q)
    /\ \/ Conflicts(o, S, q) = {} /\ forced' = forced
       \/ forced' = forced \cup {o}

\* A step leaves the table alone, grants one lock, deletes one, or clears.
LEMMA StepKinds ==
    ASSUME TypeOK, [Next]_vars
    PROVE  \/ SameTable
           \/ \E o \in Owner, S \in Effect, q \in OwnerOrNone : Granted(o, S, q)
           \/ \E o \in Owner : DropNode(o)
           \/ Clear
<1> USE EffectsAreEffects
<1>1. ASSUME NEW o \in Owner, NEW S \in Effects, NEW p \in OwnerOrNone,
             AcquireNow(o, S, p)
      PROVE  Granted(o, S, Bound(o, p)) /\ Bound(o, p) \in OwnerOrNone
  BY <1>1, AdmissibleParent DEF AcquireNow, Granted
<1>2. ASSUME NEW o \in Owner, NEW S \in Effects, NEW p \in OwnerOrNone,
             NEW a \in BOOLEAN, Restore(o, S, p, a)
      PROVE  Granted(o, S, Bound(o, p)) /\ Bound(o, p) \in OwnerOrNone
  <2>1. Admissible(o, S, Bound(o, p), TRUE) /\ Bound(o, p) \in OwnerOrNone
    BY <1>2, AdmissibleParent DEF Restore
  <2>2. \/ Conflicts(o, S, Bound(o, p)) = {} /\ forced' = forced
        \/ forced' = forced \cup {o}
    BY <1>2 DEF Restore
  <2> QED
    BY <1>2, <2>1, <2>2 DEF Restore, Granted
<1>3. ASSUME DrainGrant
      PROVE  /\ Current.owner \in Owner
             /\ Current.scopes \in Effect
             /\ Current.parent \in OwnerOrNone
             /\ Granted(Current.owner, Current.scopes, Current.parent)
  BY <1>3, WaiterType DEF DrainGrant, Current, Granted
<1>4. ASSUME NEW o \in Owner, NEW S \in Effects, NEW p \in OwnerOrNone,
             AcquireLater(o, S, p)
      PROVE  SameTable
  BY <1>4 DEF AcquireLater, locks, SameTable
<1>5. ASSUME NEW i \in 1..MaxWaiters, AbortWaiter(i)
      PROVE  SameTable
  BY <1>5 DEF AbortWaiter, locks, SameTable
<1>6. ASSUME NEW o \in Owner, Release(o) \/ DropStop(o)
      PROVE  SameTable
  BY <1>6 DEF Release, DropStop, locks, SameTable
<1>7. CASE DrainReject \/ DrainSkip \/ DrainEnd
  BY <1>7 DEF DrainReject, DrainSkip, DrainEnd, locks, SameTable
<1>8. CASE UNCHANGED vars
  BY <1>8 DEF vars, SameTable
<1> QED
  BY <1>1, <1>2, <1>3, <1>4, <1>5, <1>6, <1>7, <1>8
  DEF Next, Acquire, Recover, Abort, Settle, Drain

(***************************************************************************)
(* The forest.                                                             *)
(***************************************************************************)

\* In a forest a lock without children is nobody's parent.
LEMMA ChildlessIsNoParent ==
    ASSUME TypeOK, Forest, NEW o \in Owner, childrenOf[o] = {}
    PROVE  \A x \in Owner : parentOf[x] # o
BY ScopeLocksAssumption DEF TypeOK, Forest

\* A grant changes the ancestors of nobody that was there before.
LEMMA GrantedAncestors ==
    ASSUME TypeOK, Forest,
           NEW o \in Owner, NEW S \in Effect, NEW q \in OwnerOrNone,
           Granted(o, S, q)
    PROVE  /\ q # None => q \in nodes /\ q # o
           /\ o \in nodes => parentOf' = parentOf /\ (q # None => parentOf[o] = q)
           /\ o \notin nodes => /\ parentOf' = [parentOf EXCEPT ![o] = q]
                                /\ o \notin Ancestors(q)
           /\ \A p \in OwnerOrNone : (o \in nodes \/ p # o) =>
                AncestorsIn(parentOf', p) = Ancestors(p)
<1>1. (q # None => q \in nodes /\ q # o) /\ (o \in nodes /\ q # None => parentOf[o] = q)
  BY AdmissibleParent DEF Granted
<1>2. o \in nodes => parentOf' = parentOf
  BY DEF Granted, Own, TypeOK
<1>3. CASE o \notin nodes
  <2>1. parentOf' = [parentOf EXCEPT ![o] = q]
    BY <1>3 DEF Granted, Own
  <2>2. parentOf \in [Owner -> OwnerOrNone] /\ childrenOf[o] = {}
    BY <1>3 DEF TypeOK
  <2>3. \A p \in OwnerOrNone : p # o => o \notin AncestorsIn(parentOf, p)
    BY <2>2, ChildlessIsNoParent, ChildlessUnreached
  <2>4. \A p \in OwnerOrNone : p # o =>
           AncestorsIn(parentOf', p) = AncestorsIn(parentOf, p)
    BY <2>1, <2>2, <2>3, AncestorsFrame
  <2> QED
    BY <1>1, <1>3, <2>1, <2>3, <2>4, ScopeLocksAssumption DEF Ancestors
<1> QED
  BY <1>1, <1>2, <1>3 DEF Ancestors

\* Deleting a lock without children changes nobody else's ancestors.
LEMMA DropAncestors ==
    ASSUME TypeOK, Forest, NEW o \in Owner, DropNode(o)
    PROVE  /\ parentOf' = [parentOf EXCEPT ![o] = None]
           /\ \A x \in Owner : parentOf[x] # o
           /\ \A n \in nodes' : /\ parentOf'[n] = parentOf[n]
                                /\ AncestorsIn(parentOf', parentOf[n]) =
                                     Ancestors(parentOf[n])
<1>1. parentOf \in [Owner -> OwnerOrNone] /\ childrenOf[o] = {}
      /\ parentOf' = [parentOf EXCEPT ![o] = None]
  BY DEF DropNode, TypeOK
<1>2. \A x \in Owner : parentOf[x] # o
  BY <1>1, ChildlessIsNoParent
<1>3. ASSUME NEW n \in nodes'
      PROVE  /\ parentOf'[n] = parentOf[n]
             /\ AncestorsIn(parentOf', parentOf[n]) = Ancestors(parentOf[n])
  <2>1. n \in Owner /\ n # o
    BY <1>3 DEF DropNode, TypeOK
  <2>2. parentOf[n] \in OwnerOrNone /\ parentOf[n] # o
    BY <1>1, <1>2, <2>1
  <2>3. o \notin AncestorsIn(parentOf, parentOf[n])
    BY <1>1, <1>2, <2>2, ChildlessUnreached
  <2>4. AncestorsIn(parentOf', parentOf[n]) = AncestorsIn(parentOf, parentOf[n])
    <3>1. None \in OwnerOrNone
      BY DEF OwnerOrNone
    <3> QED
      BY <1>1, <2>2, <2>3, <3>1, AncestorsFrame
  <2> QED
    BY <1>1, <2>1, <2>4 DEF Ancestors
<1> QED
  BY <1>1, <1>2, <1>3

\* Every step keeps the forest.
LEMMA ForestStep ==
    ASSUME TypeOK, TypeOK', Forest, [Next]_vars
    PROVE  Forest'
<1>1. CASE SameTable
  BY <1>1 DEF SameTable, Forest, Ancestors
<1>2. ASSUME NEW o \in Owner, NEW S \in Effect, NEW q \in OwnerOrNone,
             Granted(o, S, q)
      PROVE  Forest'
  <2>1. /\ q # None => q \in nodes /\ q # o
        /\ o \in nodes => parentOf' = parentOf /\ (q # None => parentOf[o] = q)
        /\ o \notin nodes => /\ parentOf' = [parentOf EXCEPT ![o] = q]
                             /\ o \notin Ancestors(q)
        /\ \A p \in OwnerOrNone : (o \in nodes \/ p # o) =>
             AncestorsIn(parentOf', p) = Ancestors(p)
    BY <1>2, GrantedAncestors
  <2>2. /\ nodes' = nodes \cup {o}
        /\ childrenOf' = [c \in Owner |-> IF c = q THEN childrenOf[c] \cup {o}
                                          ELSE childrenOf[c]]
    BY <1>2 DEF Granted, Own
  <2>3. ASSUME NEW n \in nodes', parentOf'[n] # None
        PROVE  n \in childrenOf'[parentOf'[n]]
    BY <2>1, <2>2, <2>3 DEF Forest, TypeOK, OwnerOrNone
  <2>4. ASSUME NEW n \in Owner, NEW c \in childrenOf'[n]
        PROVE  parentOf'[c] = n
    <3>1. CASE c \in childrenOf[n]
      <4>1. parentOf[c] = n /\ c \in Owner
        BY <3>1 DEF Forest, TypeOK
      <4>2. c \in nodes
        BY <4>1, ScopeLocksAssumption DEF TypeOK
      <4> QED
        BY <2>1, <4>1, <4>2 DEF TypeOK
    <3>2. CASE c \notin childrenOf[n]
      <4>1. c = o /\ n = q
        BY <2>2, <2>4, <3>2
      <4>2. n # None
        BY ScopeLocksAssumption
      <4> QED
        BY <2>1, <4>1, <4>2 DEF TypeOK
    <3> QED
      BY <3>1, <3>2
  <2>5. ASSUME NEW n \in nodes'
        PROVE  n \notin AncestorsIn(parentOf', parentOf'[n])
    <3>1. CASE n \in nodes
      <4>1. parentOf'[n] = parentOf[n] /\ parentOf[n] \in OwnerOrNone
        BY <2>1, <3>1 DEF TypeOK
      <4>2. o \in nodes \/ parentOf[n] # o
        <5>1. CASE o \notin nodes
          <6>1. childrenOf[o] = {}
            BY <5>1 DEF TypeOK
          <6> QED
            BY <3>1, <6>1, ChildlessIsNoParent DEF TypeOK
        <5> QED
          BY <5>1
      <4>3. n \notin Ancestors(parentOf[n])
        BY <3>1 DEF Forest
      <4> QED
        BY <2>1, <4>1, <4>2, <4>3
    <3>2. CASE n \notin nodes
      <4>1. n = o /\ parentOf'[n] = q
        BY <2>1, <2>2, <3>2 DEF TypeOK
      <4>2. q # o
        BY <2>1, ScopeLocksAssumption
      <4> QED
        BY <2>1, <3>2, <4>1, <4>2
    <3> QED
      BY <3>1, <3>2
  <2> QED
    BY <2>3, <2>4, <2>5 DEF Forest, Ancestors
<1>3. ASSUME NEW o \in Owner, DropNode(o)
      PROVE  Forest'
  <2>1. /\ parentOf' = [parentOf EXCEPT ![o] = None]
        /\ \A n \in nodes' : /\ parentOf'[n] = parentOf[n]
                             /\ AncestorsIn(parentOf', parentOf[n]) =
                                  Ancestors(parentOf[n])
    BY <1>3, DropAncestors
  <2>2. /\ nodes' = nodes \ {o}
        /\ childrenOf' = [c \in Owner |-> IF c = parentOf[o]
                                          THEN childrenOf[c] \ {o}
                                          ELSE childrenOf[c]]
    BY <1>3 DEF DropNode
  <2>3. ASSUME NEW n \in nodes', parentOf'[n] # None
        PROVE  n \in childrenOf'[parentOf'[n]]
    BY <2>1, <2>2, <2>3 DEF Forest, TypeOK, OwnerOrNone
  <2>4. ASSUME NEW n \in Owner, NEW c \in childrenOf'[n]
        PROVE  parentOf'[c] = n
    BY <2>1, <2>2, <2>4 DEF Forest, TypeOK
  <2>5. ASSUME NEW n \in nodes'
        PROVE  n \notin AncestorsIn(parentOf', parentOf'[n])
    <3>1. /\ parentOf'[n] = parentOf[n]
          /\ AncestorsIn(parentOf', parentOf[n]) = Ancestors(parentOf[n])
      BY <2>1, <2>5
    <3>2. n \notin Ancestors(parentOf[n])
      BY <2>2, <2>5 DEF Forest
    <3> QED
      BY <3>1, <3>2
  <2> QED
    BY <2>3, <2>4, <2>5 DEF Forest, Ancestors
<1>4. CASE Clear
  BY <1>4 DEF Clear, Forest, Ancestors
<1> QED
  BY <1>1, <1>2, <1>3, <1>4, StepKinds

(***************************************************************************)
(* Delegated authority.                                                    *)
(***************************************************************************)

\* Every step keeps a child's scopes inside its parent's.
LEMMA AuthorityStep ==
    ASSUME TypeOK, Forest, DelegatedAuthority, [Next]_vars
    PROVE  DelegatedAuthority'
<1>1. CASE SameTable
  BY <1>1 DEF SameTable, DelegatedAuthority
<1>2. ASSUME NEW o \in Owner, NEW S \in Effect, NEW q \in OwnerOrNone,
             Granted(o, S, q)
      PROVE  DelegatedAuthority'
  <2>1. /\ nodes' = nodes \cup {o}
        /\ scopesOf' = [scopesOf EXCEPT ![o] = Merge(scopesOf[o], S)]
        /\ parentOf' = [parentOf EXCEPT ![o] = IF o \in nodes THEN parentOf[o] ELSE q]
    BY <1>2 DEF Granted, Own
  <2>2. o \in nodes /\ q # None => parentOf[o] = q
    BY <1>2, GrantedAncestors
  <2>3. parentOf'[o] # None =>
          /\ parentOf'[o] # o
          /\ parentOf'[o] \in Owner
          /\ Covers(scopesOf[parentOf'[o]], Merge(scopesOf[o], S))
    <3>1. parentOf'[o] = Bound(o, q)
      BY <2>1, <2>2 DEF Bound, TypeOK
    <3> QED
      BY <1>2, <3>1 DEF Granted, Admissible, TypeOK
  <2>4. ASSUME NEW n \in nodes', parentOf'[n] # None
        PROVE  Covers(scopesOf'[parentOf'[n]], scopesOf'[n])
    <3>1. CASE n = o
      BY <2>1, <2>3, <2>4, <3>1 DEF TypeOK
    <3>2. CASE n # o
      <4>1. /\ n \in nodes
            /\ n \in Owner
            /\ parentOf'[n] = parentOf[n]
            /\ scopesOf'[n] = scopesOf[n]
            /\ parentOf[n] \in Owner
        BY <2>1, <2>4, <3>2 DEF TypeOK, OwnerOrNone
      <4>2. Covers(scopesOf[parentOf[n]], scopesOf[n])
        BY <2>4, <4>1 DEF DelegatedAuthority
      <4>3. CASE parentOf[n] = o
        <5>1. scopesOf[o] \in Effect /\ scopesOf[n] \in Effect
          BY <4>1 DEF TypeOK
        <5>2. Covers(Merge(scopesOf[o], S), scopesOf[n])
          BY <4>2, <4>3, <5>1, CoversMerge
        <5> QED
          BY <2>1, <4>1, <4>3, <5>2 DEF TypeOK
      <4>4. CASE parentOf[n] # o
        BY <2>1, <4>1, <4>2, <4>4 DEF TypeOK
      <4> QED
        BY <4>3, <4>4
    <3> QED
      BY <3>1, <3>2
  <2> QED
    BY <2>4 DEF DelegatedAuthority
<1>3. ASSUME NEW o \in Owner, DropNode(o)
      PROVE  DelegatedAuthority'
  <2>1. /\ \A x \in Owner : parentOf[x] # o
        /\ \A n \in nodes' : parentOf'[n] = parentOf[n]
    BY <1>3, DropAncestors
  <2>2. nodes' = nodes \ {o} /\ scopesOf' = [scopesOf EXCEPT ![o] = {}]
    BY <1>3 DEF DropNode
  <2> QED
    BY <2>1, <2>2 DEF DelegatedAuthority, TypeOK, OwnerOrNone
<1>4. CASE Clear
  <2> DEFINE gone == {r \in {x \in nodes : parentOf[x] = None} :
                        childrenOf[r] = {}}
  <2>1. /\ nodes' = nodes \ gone
        /\ parentOf' = parentOf
        /\ scopesOf' = [n \in Owner |-> IF n \in gone THEN {} ELSE scopesOf[n]]
    BY <1>4 DEF Clear
  <2>2. \A n \in nodes : parentOf[n] # None => parentOf[n] \notin gone
    BY ScopeLocksAssumption DEF Forest, TypeOK, OwnerOrNone
  <2> QED
    BY <2>1, <2>2 DEF DelegatedAuthority, TypeOK, OwnerOrNone
<1> QED
  BY <1>1, <1>2, <1>3, <1>4, StepKinds

(***************************************************************************)
(* Write exclusion.                                                        *)
(***************************************************************************)

\* What WriteExclusion says of one pair.
Apart(a, b) ==
    \/ Related(a, b)
    \/ RootRead(scopesOf[a], parentOf[a])
    \/ RootRead(scopesOf[b], parentOf[b])
    \/ ~Overlap(scopesOf[a], scopesOf[b])

\* A lock granted without a conflict is apart from every other lock.
LEMMA GrantedApart ==
    ASSUME TypeOK, TypeOK', Forest,
           NEW o \in Owner, NEW S \in Effect, NEW q \in OwnerOrNone,
           Granted(o, S, q), Conflicts(o, S, q) = {},
           NEW b \in nodes, b # o,
           o \in nodes => Apart(o, b)
    PROVE  Apart(o, b)'
<1> DEFINE old == scopesOf[o]
<1>1. /\ nodes' = nodes \cup {o}
      /\ scopesOf' = [scopesOf EXCEPT ![o] = Merge(old, S)]
      /\ parentOf' = [parentOf EXCEPT ![o] = IF o \in nodes THEN parentOf[o] ELSE q]
  BY DEF Granted, Own
<1>2. /\ b \in Owner /\ old \in Effect /\ scopesOf[b] \in Effect
      /\ scopesOf'[b] = scopesOf[b] /\ parentOf'[b] = parentOf[b]
      /\ scopesOf'[o] = Merge(old, S)
      /\ parentOf[b] \in OwnerOrNone
  BY <1>1 DEF TypeOK
<1>3. /\ q # None => q \in nodes /\ q # o
      /\ o \in nodes => parentOf' = parentOf /\ (q # None => parentOf[o] = q)
      /\ \A p \in OwnerOrNone : (o \in nodes \/ p # o) =>
           AncestorsIn(parentOf', p) = Ancestors(p)
  BY GrantedAncestors
<1>4. o \in nodes \/ parentOf[b] # o
  <2>1. o \notin nodes => childrenOf[o] = {}
    BY DEF TypeOK
  <2> QED
    BY <1>2, <2>1, ChildlessIsNoParent
<1>5. AncestorsIn(parentOf', parentOf'[b]) = Ancestors(parentOf[b])
  BY <1>2, <1>3, <1>4
<1>6. ASSUME o \in nodes
      PROVE  Ancestors(parentOf[o])' = Ancestors(parentOf[o])
  BY <1>3, <1>6 DEF Ancestors
<1>7. o \notin nodes => old = {} /\ parentOf'[o] = q
  BY <1>1 DEF TypeOK
<1>8. CASE RootRead(S, q)
  <2>1. S = {} /\ q = None
    BY <1>8 DEF RootRead
  <2>2. Merge(old, S) = old
    BY <1>2, <2>1, MergeEffect
  <2>3. CASE o \in nodes
    <3>1. scopesOf'[o] = scopesOf[o] /\ parentOf'[o] = parentOf[o]
      BY <1>2, <1>3, <2>2, <2>3
    <3> QED
      BY <1>2, <1>5, <1>6, <2>3, <3>1 DEF Apart, Related, Ancestors
  <2>4. CASE o \notin nodes
    <3>1. scopesOf'[o] = {} /\ parentOf'[o] = None
      BY <1>2, <1>7, <2>1, <2>2, <2>4
    <3> QED
      BY <3>1 DEF Apart, RootRead
  <2> QED
    BY <2>3, <2>4
<1>9. CASE ~RootRead(S, q)
  <2>1. \/ b \in Ancestors(q)
        \/ o \in Ancestors(parentOf[b])
        \/ RootRead(scopesOf[b], parentOf[b])
        \/ ~Overlap(S, scopesOf[b])
    BY <1>9 DEF Conflicts
  <2>2. CASE b \in Ancestors(q)
    <3>1. q # None
      BY <2>2 DEF Ancestors, AncestorsIn
    <3>2. parentOf'[o] = q
      BY <1>3, <1>7, <3>1
    <3>3. AncestorsIn(parentOf', q) = Ancestors(q)
      BY <1>3, <3>1
    <3> QED
      BY <2>2, <3>2, <3>3 DEF Apart, Related, Ancestors
  <2>3. CASE o \in Ancestors(parentOf[b])
    BY <1>5, <2>3 DEF Apart, Related, Ancestors
  <2>4. CASE RootRead(scopesOf[b], parentOf[b])
    BY <1>2, <2>4 DEF Apart
  <2>5. CASE ~Overlap(S, scopesOf[b])
    <3>1. CASE o \notin nodes \/ RootRead(old, parentOf[o])
      <4>1. old = {}
        BY <1>7, <3>1 DEF RootRead
      <4>2. Merge(old, S) = S
        BY <4>1, MergeEffect
      <4> QED
        BY <1>2, <2>5, <4>2 DEF Apart
    <3>2. CASE o \in nodes /\ Related(o, b)
      BY <1>5, <1>6, <3>2 DEF Apart, Related, Ancestors
    <3>3. CASE RootRead(scopesOf[b], parentOf[b])
      BY <1>2, <3>3 DEF Apart
    <3>4. CASE ~Overlap(old, scopesOf[b])
      <4>1. ~Overlap(Merge(old, S), scopesOf[b])
        BY <1>2, <2>5, <3>4, OverlapMerge
      <4> QED
        BY <1>2, <4>1 DEF Apart
    <3> QED
      BY <3>1, <3>2, <3>3, <3>4 DEF Apart
  <2> QED
    BY <2>1, <2>2, <2>3, <2>4, <2>5
<1> QED
  BY <1>8, <1>9

\* Every step keeps unrelated locks apart.
LEMMA ExclusionStep ==
    ASSUME TypeOK, TypeOK', Forest, WriteExclusion, [Next]_vars
    PROVE  WriteExclusion'
<1>0. /\ \A a, b \in nodes \ forced : a # b => Apart(a, b)
      /\ (\A a, b \in nodes \ forced : a # b => Apart(a, b))' => WriteExclusion'
  BY DEF WriteExclusion, Apart
<1>1. CASE SameTable
  BY <1>1 DEF SameTable, WriteExclusion, Related, Ancestors
<1>2. ASSUME NEW o \in Owner, NEW S \in Effect, NEW q \in OwnerOrNone,
             Granted(o, S, q)
      PROVE  WriteExclusion'
  <2>1. /\ nodes' = nodes \cup {o}
        /\ scopesOf' = [scopesOf EXCEPT ![o] = Merge(scopesOf[o], S)]
        /\ parentOf' = [parentOf EXCEPT ![o] = IF o \in nodes THEN parentOf[o] ELSE q]
    BY <1>2 DEF Granted, Own
  <2>2. forced \subseteq forced' /\ (o \notin forced' => Conflicts(o, S, q) = {})
    BY <1>2 DEF Granted
  <2>3. ASSUME NEW b \in nodes' \ forced', b # o, o \notin forced'
        PROVE  Apart(o, b)'
    <3>1. b \in nodes \ forced
      BY <2>1, <2>2, <2>3
    <3>2. o \in nodes => Apart(o, b)
      BY <1>0, <2>2, <2>3, <3>1
    <3> QED
      BY <1>2, <2>2, <2>3, <3>1, <3>2, GrantedApart
  <2>4. ASSUME NEW a \in nodes' \ forced', NEW b \in nodes' \ forced',
               a # b, a # o, b # o
        PROVE  Apart(a, b)'
    <3>1. a \in nodes \ forced /\ b \in nodes \ forced /\ a \in Owner /\ b \in Owner
      BY <2>1, <2>2, <2>4 DEF TypeOK
    <3>2. Apart(a, b)
      BY <1>0, <2>4, <3>1
    <3>3. /\ scopesOf'[a] = scopesOf[a] /\ parentOf'[a] = parentOf[a]
          /\ scopesOf'[b] = scopesOf[b] /\ parentOf'[b] = parentOf[b]
      BY <2>1, <2>4, <3>1 DEF TypeOK
    <3>4. o \notin nodes => childrenOf[o] = {}
      BY DEF TypeOK
    <3>5. \A n \in {a, b} : /\ parentOf[n] \in OwnerOrNone
                            /\ o \in nodes \/ parentOf[n] # o
      BY <3>1, <3>4, ChildlessIsNoParent DEF TypeOK
    <3>6. \A n \in {a, b} :
             AncestorsIn(parentOf', parentOf'[n]) = Ancestors(parentOf[n])
      BY <1>2, <3>3, <3>5, GrantedAncestors
    <3> QED
      BY <3>2, <3>3, <3>6 DEF Apart, Related, Ancestors
  <2>5. ASSUME NEW a \in nodes' \ forced', NEW b \in nodes' \ forced', a # b
        PROVE  Apart(a, b)'
    <3>1. CASE a = o
      BY <2>3, <2>5, <3>1
    <3>2. CASE b = o
      <4>1. Apart(b, a)' /\ a \in Owner /\ b \in Owner
        BY <2>1, <2>3, <2>5, <3>2 DEF TypeOK
      <4>2. scopesOf'[a] \in Effect /\ scopesOf'[b] \in Effect
        BY <4>1 DEF TypeOK
      <4> QED
        BY <4>1, <4>2, OverlapMerge DEF Apart, Related
    <3>3. CASE a # o /\ b # o
      BY <2>4, <2>5, <3>3
    <3> QED
      BY <3>1, <3>2, <3>3
  <2> QED
    BY <1>0, <2>5
<1>3. ASSUME NEW o \in Owner, DropNode(o)
      PROVE  WriteExclusion'
  <2>1. \A n \in nodes' : /\ parentOf'[n] = parentOf[n]
                          /\ AncestorsIn(parentOf', parentOf[n]) =
                               Ancestors(parentOf[n])
    BY <1>3, DropAncestors
  <2>2. /\ nodes' = nodes \ {o} /\ forced' = forced \ {o}
        /\ scopesOf' = [scopesOf EXCEPT ![o] = {}]
    BY <1>3 DEF DropNode
  <2>3. ASSUME NEW a \in nodes' \ forced', NEW b \in nodes' \ forced', a # b
        PROVE  Apart(a, b)'
    <3>1. Apart(a, b)
      BY <1>0, <2>2, <2>3
    <3>2. scopesOf'[a] = scopesOf[a] /\ scopesOf'[b] = scopesOf[b]
      BY <2>2, <2>3 DEF TypeOK
    <3>3. \A n \in {a, b} : /\ parentOf'[n] = parentOf[n]
                            /\ AncestorsIn(parentOf', parentOf'[n]) =
                                 Ancestors(parentOf[n])
      BY <2>1, <2>3
    <3> QED
      BY <3>1, <3>2, <3>3 DEF Apart, Related, Ancestors
  <2> QED
    BY <1>0, <2>3
<1>4. CASE Clear
  <2> DEFINE gone == {r \in {x \in nodes : parentOf[x] = None} :
                        childrenOf[r] = {}}
  <2>1. /\ nodes' = nodes \ gone /\ forced' = forced \ gone
        /\ parentOf' = parentOf
        /\ scopesOf' = [n \in Owner |-> IF n \in gone THEN {} ELSE scopesOf[n]]
    BY <1>4 DEF Clear
  <2>2. ASSUME NEW a \in nodes' \ forced', NEW b \in nodes' \ forced', a # b
        PROVE  Apart(a, b)'
    <3>1. Apart(a, b)
      BY <1>0, <2>1, <2>2
    <3>2. scopesOf'[a] = scopesOf[a] /\ scopesOf'[b] = scopesOf[b]
      BY <2>1, <2>2 DEF TypeOK
    <3> QED
      BY <2>1, <3>1, <3>2 DEF Apart, Related, Ancestors
  <2> QED
    BY <1>0, <2>2
<1> QED
  BY <1>1, <1>2, <1>3, <1>4, StepKinds

(***************************************************************************)
(* Nobody waits in front of a free scope.                                  *)
(***************************************************************************)

\* What WaitersBlocked says of the request <<u, T, p>> of a waiter.
Blocked(u, T, p) == (p # None => p \in nodes) /\ Conflicts(u, T, p) # {}

\* A grant to another lock unblocks no request.
LEMMA GrantedBlocks ==
    ASSUME TypeOK, Forest,
           NEW o \in Owner, NEW S \in Effect, NEW q \in OwnerOrNone,
           Granted(o, S, q),
           NEW u \in Owner, NEW T \in Effect, NEW p \in OwnerOrNone,
           Blocked(u, T, p)
    PROVE  Blocked(u, T, p)'
<1>1. /\ nodes' = nodes \cup {o}
      /\ scopesOf' = [scopesOf EXCEPT ![o] = Merge(scopesOf[o], S)]
  BY DEF Granted, Own
<1>2. /\ o \in nodes => parentOf' = parentOf
      /\ o \notin nodes => parentOf' = [parentOf EXCEPT ![o] = q]
      /\ \A r \in OwnerOrNone : (o \in nodes \/ r # o) =>
           AncestorsIn(parentOf', r) = Ancestors(r)
  BY GrantedAncestors
<1>3. PICK c : c \in Conflicts(u, T, p)
  BY DEF Blocked
<1>4. /\ ~RootRead(T, p)
      /\ c \in nodes /\ c # u
      /\ c \notin Ancestors(p)
      /\ u \notin Ancestors(parentOf[c])
      /\ ~RootRead(scopesOf[c], parentOf[c])
      /\ Overlap(T, scopesOf[c])
  BY <1>3 DEF Conflicts
<1>5. c \in Owner /\ parentOf[c] \in OwnerOrNone /\ scopesOf[c] \in Effect
  BY <1>4 DEF TypeOK
<1>6. parentOf'[c] = parentOf[c]
  BY <1>2, <1>4, <1>5 DEF TypeOK
<1>7. AncestorsIn(parentOf', p) = Ancestors(p)
  <2>1. o \in nodes \/ p # o
    BY ScopeLocksAssumption DEF Blocked
  <2> QED
    BY <1>2, <2>1
<1>8. AncestorsIn(parentOf', parentOf[c]) = Ancestors(parentOf[c])
  <2>1. o \notin nodes => childrenOf[o] = {}
    BY DEF TypeOK
  <2>2. o \in nodes \/ parentOf[c] # o
    BY <1>5, <2>1, ChildlessIsNoParent
  <2> QED
    BY <1>2, <1>5, <2>2
<1>9. /\ Overlap(T, scopesOf'[c])
      /\ scopesOf'[c] = {} => scopesOf[c] = {}
  <2>1. CASE c = o
    <3>1. scopesOf'[c] = Merge(scopesOf[c], S)
      BY <1>1, <1>5, <2>1 DEF TypeOK
    <3>2. Overlap(T, Merge(scopesOf[c], S))
      BY <1>4, <1>5, OverlapMerge
    <3>3. Merge(scopesOf[c], S) = {} => scopesOf[c] = {}
      BY <1>5, MergeEffect
    <3> QED
      BY <3>1, <3>2, <3>3
  <2>2. CASE c # o
    BY <1>1, <1>4, <1>5, <2>2 DEF TypeOK
  <2> QED
    BY <2>1, <2>2
<1>10. ~RootRead(scopesOf'[c], parentOf'[c])
  BY <1>4, <1>6, <1>9 DEF RootRead
<1>11. c \in Conflicts(u, T, p)'
  BY <1>1, <1>4, <1>6, <1>7, <1>8, <1>9, <1>10 DEF Conflicts, Ancestors
<1> QED
  BY <1>1, <1>11 DEF Blocked

\* A step that leaves the table alone unblocks no request either.
LEMMA SameTableBlocks ==
    ASSUME SameTable, NEW u, NEW T, NEW p, Blocked(u, T, p)
    PROVE  Blocked(u, T, p)'
BY DEF SameTable, Blocked, Conflicts, Ancestors

\* Every step leaves the waiters #drain has passed, and between calls all of
\* them, blocked.
LEMMA WaitersStep ==
    ASSUME TypeOK, TypeOK', Forest, WaitersBlocked, [Next]_vars
    PROVE  WaitersBlocked'
<1> DEFINE B(w) == Blocked(w.owner, w.scopes, w.parent)
<1> USE EffectsAreEffects
<1> SUFFICES ASSUME NEW w \in Waiter,
                    NEW j \in DOMAIN waiters', waiters'[j] = w, Passed(j)'
             PROVE  B(w)'
  <2>1. \A i \in DOMAIN waiters' : waiters'[i] \in Waiter
    BY DEF TypeOK
  <2> QED
    BY <2>1 DEF WaitersBlocked, Blocked
<1>1. w.owner \in Owner /\ w.scopes \in Effect /\ w.parent \in OwnerOrNone
  BY DEF Waiter
<1>2. /\ waiters \in Seq(Waiter) /\ draining \in Nat
      /\ DOMAIN waiters = 1..Len(waiters) /\ Len(waiters) \in Nat
      /\ j \in 1..Len(waiters')
  BY DEF TypeOK
<1>3. ASSUME NEW i \in DOMAIN waiters, waiters[i] = w, Passed(i)
      PROVE  B(w)
  BY <1>3 DEF WaitersBlocked, Blocked
<1>4. ASSUME SameTable, B(w)
      PROVE  B(w)'
  BY <1>4, SameTableBlocks
<1>5. ASSUME NEW o \in Owner, NEW S \in Effect, NEW q \in OwnerOrNone,
             Granted(o, S, q), B(w)
      PROVE  B(w)'
  BY <1>1, <1>5, GrantedBlocks
<1> HIDE DEF B
<1>6. ASSUME UNCHANGED <<waiters, dropping, draining>>
      PROVE  B(w)
  BY <1>2, <1>3, <1>6 DEF Passed
<1>7. ASSUME NEW i \in 1..Len(waiters), waiters' = RemoveAt(waiters, i)
       PROVE  /\ j \in DOMAIN waiters /\ j + 1 \in DOMAIN waiters
              /\ w = IF j < i THEN waiters[j] ELSE waiters[j + 1]
  <2>1. /\ j \in 1..Len(waiters) - 1
        /\ waiters'[j] = IF j < i THEN waiters[j] ELSE waiters[j + 1]
    BY <1>2, <1>7, RemoveAtElements
  <2> QED
    BY <1>2, <2>1
<1>8. ASSUME NEW o \in Owner, NEW S \in Effects, NEW p \in OwnerOrNone,
             AcquireNow(o, S, p)
      PROVE  B(w)'
  <2>1. Granted(o, S, Bound(o, p)) /\ Bound(o, p) \in OwnerOrNone
    BY <1>8, AdmissibleParent DEF AcquireNow, Granted
  <2> QED
    BY <1>5, <1>6, <1>8, <2>1 DEF AcquireNow, control
<1>9. ASSUME NEW o \in Owner, NEW S \in Effects, NEW p \in OwnerOrNone,
             AcquireLater(o, S, p)
      PROVE  B(w)'
  <2> DEFINE v == [owner |-> o, scopes |-> S, parent |-> Bound(o, p)]
  <2>1. Bound(o, p) \in OwnerOrNone /\ (Bound(o, p) # None => Bound(o, p) \in nodes)
    BY <1>9, AdmissibleParent DEF AcquireLater
  <2>2. v \in Waiter
    BY <2>1 DEF Waiter
  <2>3. waiters' = Append(waiters, v) /\ SameTable /\ Idle
    BY <1>9 DEF AcquireLater, locks, SameTable
  <2>4. Blocked(v.owner, v.scopes, v.parent)
    BY <1>9, <2>1 DEF AcquireLater, Blocked
  <2> HIDE DEF v
  <2>5. CASE j = Len(waiters) + 1
    <3>1. w = v
      BY <1>2, <2>2, <2>3, <2>5
    <3> QED
      BY <1>4, <2>3, <2>4, <3>1 DEF B
  <2>6. CASE j # Len(waiters) + 1
    <3>1. j \in DOMAIN waiters /\ waiters[j] = w
      BY <1>2, <2>2, <2>3, <2>6
    <3>2. Passed(j)
      BY <2>3 DEF Idle, Passed
    <3> QED
      BY <1>3, <1>4, <2>3, <3>1, <3>2
  <2> QED
    BY <2>5, <2>6
<1>10. ASSUME NEW i \in 1..MaxWaiters, AbortWaiter(i)
      PROVE  B(w)'
  <2>1. i \in 1..Len(waiters) /\ waiters' = RemoveAt(waiters, i) /\ SameTable /\ Idle
    BY <1>2, <1>10 DEF AbortWaiter, locks, SameTable
  <2>2. \E k \in DOMAIN waiters : waiters[k] = w
    BY <1>7, <2>1
  <2>3. \A k \in DOMAIN waiters : Passed(k)
    BY <2>1 DEF Idle, Passed
  <2> QED
    BY <1>3, <1>4, <2>1, <2>2, <2>3
<1>11. ASSUME NEW o \in Owner, NEW S \in Effects, NEW p \in OwnerOrNone,
              NEW a \in BOOLEAN, Restore(o, S, p, a)
       PROVE  B(w)'
  <2>1. Admissible(o, S, Bound(o, p), TRUE) /\ Bound(o, p) \in OwnerOrNone
    BY <1>11, AdmissibleParent DEF Restore
  <2>2. Granted(o, S, Bound(o, p))
    BY <1>11, <2>1 DEF Restore, Granted
  <2> QED
    BY <1>5, <1>6, <1>11, <2>1, <2>2 DEF Restore, control
<1>12. ASSUME NEW o \in Owner, Release(o) \/ DropNode(o) \/ DropStop(o)
       PROVE  FALSE
  BY <1>2, <1>12, ScopeLocksAssumption
  DEF Release, DropNode, DropStop, Idle, Passed, TypeOK, locks
<1>13. CASE DrainReject
  <2>1. /\ draining \in 1..Len(waiters) /\ waiters' = RemoveAt(waiters, draining)
        /\ SameTable /\ draining' = draining
    BY <1>2, <1>13 DEF DrainReject, locks, control, SameTable
  <2>2. j < draining
    BY <2>1 DEF Passed
  <2>3. j \in DOMAIN waiters /\ waiters[j] = w
    BY <1>7, <2>1, <2>2
  <2>4. Passed(j)
    BY <2>2 DEF Passed
  <2> QED
    BY <1>3, <1>4, <2>1, <2>3, <2>4
<1>14. CASE DrainSkip
  <2>1. /\ draining \in DOMAIN waiters /\ waiters' = waiters
        /\ SameTable /\ draining' = draining + 1
    BY <1>14 DEF DrainSkip, locks, SameTable
  <2>2. j \in DOMAIN waiters /\ waiters[j] = w /\ (j = draining \/ j < draining)
    BY <1>2, <2>1 DEF Passed
  <2>3. CASE j = draining
    <3>1. /\ Admissible(w.owner, w.scopes, w.parent, FALSE)
          /\ Conflicts(w.owner, w.scopes, w.parent) # {}
      BY <1>14, <2>2, <2>3 DEF DrainSkip, Current
    <3>2. w.parent # None => w.parent \in nodes
      BY <1>1, <3>1, AdmissibleParent
    <3> QED
      BY <1>4, <2>1, <3>1, <3>2 DEF B, Blocked
  <2>4. CASE j < draining
    BY <1>3, <1>4, <2>1, <2>2, <2>4 DEF Passed
  <2> QED
    BY <2>2, <2>3, <2>4
<1>15. CASE DrainGrant
  <2>1. /\ draining \in 1..Len(waiters) /\ waiters' = RemoveAt(waiters, draining)
        /\ draining' = draining
    BY <1>2, <1>15 DEF DrainGrant, control
  <2>2. /\ Current.owner \in Owner
        /\ Current.scopes \in Effect
        /\ Current.parent \in OwnerOrNone
        /\ Granted(Current.owner, Current.scopes, Current.parent)
    BY <1>15, WaiterType DEF DrainGrant, Current, Granted
  <2>3. j < draining
    BY <2>1 DEF Passed
  <2>4. j \in DOMAIN waiters /\ waiters[j] = w
    BY <1>7, <2>1, <2>3
  <2>5. Passed(j)
    BY <2>3 DEF Passed
  <2> QED
    BY <1>3, <1>5, <2>2, <2>4, <2>5
<1>16. CASE DrainEnd
  <2>1. draining > Len(waiters) /\ waiters' = waiters /\ SameTable
    BY <1>16 DEF DrainEnd, locks, SameTable
  <2>2. j \in DOMAIN waiters /\ waiters[j] = w /\ Passed(j)
    BY <1>2, <2>1 DEF Passed
  <2> QED
    BY <1>3, <1>4, <2>1, <2>2
<1>17. CASE Clear
  <2>1. Len(waiters') = 0
    BY <1>17 DEF Clear
  <2> QED
    BY <1>2, <2>1
<1>18. CASE UNCHANGED vars
  BY <1>4, <1>6, <1>18 DEF vars, SameTable
<1> QED
  BY <1>8, <1>9, <1>10, <1>11, <1>12, <1>13, <1>14, <1>15, <1>16, <1>17, <1>18
  DEF Next, Acquire, Recover, Abort, Settle, Drain

(***************************************************************************)
(* The theorems.                                                           *)
(***************************************************************************)

\* The inductive invariant holds of every reachable state.
THEOREM Invariance == Spec => []IInv
<1>1. Init => IInv
  BY ScopeLocksAssumption
  DEF Init, IInv, TypeOK, Effect, OwnerOrNone, Forest, DelegatedAuthority,
      WriteExclusion, WaitersBlocked
<1>2. IInv /\ [Next]_vars => IInv'
  BY TypeStep, ForestStep, AuthorityStep, ExclusionStep, WaitersStep DEF IInv
<1> QED
  BY <1>1, <1>2, PTL DEF Spec

\* The parent links stay a forest, for any number of tasks.
THEOREM ForestHolds == Spec => []Forest
BY Invariance, PTL DEF IInv

\* No delegated task ever holds more than its delegator.
THEOREM AuthorityHolds == Spec => []DelegatedAuthority
BY Invariance, PTL DEF IInv

\* Unrelated tasks never write overlapping scopes.
THEOREM ExclusionHolds == Spec => []WriteExclusion
BY Invariance, PTL DEF IInv

\* No waiter is left standing when a release, a grant, a recovery or an abort
\* has run to its end.
THEOREM WakeupHolds == Spec => []NoLostWakeup
<1>1. IInv => NoLostWakeup
  BY DEF IInv, WaitersBlocked, NoLostWakeup, Idle, Passed
<1> QED
  BY <1>1, Invariance, PTL

\* A lock that stays is neither re-homed nor narrowed.
THEOREM StableHolds == Spec => LockIsStable
<1> DEFINE Stable == \A o \in nodes \cap nodes' :
             parentOf'[o] = parentOf[o] /\ Covers(scopesOf'[o], scopesOf[o])
<1>1. ASSUME IInv, [Next]_vars
      PROVE  Stable
  <2>0. TypeOK /\ Forest /\ \A n \in nodes : n \in Owner /\ scopesOf[n] \in Effect
    BY <1>1 DEF IInv, TypeOK
  <2>a. \A n \in nodes : Covers(scopesOf[n], scopesOf[n])
    BY <2>0, MergeCovers, MergeEffect, {} \in Effect DEF Effect
  <2>1. CASE SameTable
    BY <2>1, <2>a DEF SameTable
  <2>2. ASSUME NEW o \in Owner, NEW S \in Effect, NEW q \in OwnerOrNone,
               Granted(o, S, q)
        PROVE  Stable
    <3>1. scopesOf' = [scopesOf EXCEPT ![o] = Merge(scopesOf[o], S)]
      BY <2>2 DEF Granted, Own
    <3>2. \A n \in nodes : parentOf'[n] = parentOf[n]
      BY <2>0, <2>2, GrantedAncestors DEF TypeOK
    <3>3. \A n \in nodes : Covers(scopesOf'[n], scopesOf[n])
      BY <2>0, <2>a, <3>1, MergeCovers DEF TypeOK
    <3> QED
      BY <3>2, <3>3
  <2>3. ASSUME NEW o \in Owner, DropNode(o)
        PROVE  Stable
    BY <2>0, <2>3, <2>a DEF DropNode, TypeOK
  <2>4. CASE Clear
    BY <2>0, <2>4, <2>a DEF Clear
  <2> QED
    BY <1>1, <2>0, <2>1, <2>2, <2>3, <2>4, StepKinds
<1> QED
  BY <1>1, Invariance, PTL DEF Spec, LockIsStable

\* A queued request is granted only below ancestors that are still owned when
\* the sweep reaches it: #drain asks #parent again.
THEOREM LateDescendantNever == Spec => NoLateDescendant
<1> DEFINE Fresh == \A o \in nodes' \ nodes :
             Len(waiters') < Len(waiters) /\ parentOf'[o] # None =>
                Ancestors(parentOf'[o]) \subseteq owned
<1>1. ASSUME TypeOK, [Next]_vars
      PROVE  Fresh
  <2>1. CASE nodes' \subseteq nodes
    BY <2>1
  <2>2. CASE waiters' = waiters
    <3>1. Len(waiters) \in Nat
      BY <1>1 DEF TypeOK
    <3> QED
      BY <2>2, <3>1
  <2>3. CASE DrainGrant
    <3> SUFFICES ASSUME NEW o \in nodes' \ nodes, parentOf'[o] # None
                 PROVE  Ancestors(parentOf'[o]) \subseteq owned
      OBVIOUS
    <3>1. /\ Admissible(Current.owner, Current.scopes, Current.parent, FALSE)
          /\ Own(Current.owner, Current.scopes, Current.parent)
      BY <2>3 DEF DrainGrant
    <3>2. o = Current.owner /\ o \in Owner
      BY <2>3, <3>1, <1>1, WaiterType DEF Own, Current, DrainGrant
    <3>3. parentOf'[o] = Current.parent
      BY <1>1, <3>1, <3>2 DEF Own, TypeOK
    <3>4. Bound(o, Current.parent) = Current.parent
      BY <3>3 DEF Bound
    <3> QED
      BY <3>1, <3>2, <3>3, <3>4 DEF Admissible
  <2>4. ASSUME NEW o \in Owner, NEW S \in Effects, NEW p \in OwnerOrNone,
               AcquireNow(o, S, p)
        PROVE  waiters' = waiters
    BY <2>4 DEF AcquireNow
  <2>5. ASSUME NEW o \in Owner, NEW S \in Effects, NEW p \in OwnerOrNone,
               AcquireLater(o, S, p)
        PROVE  nodes' = nodes
    BY <2>5 DEF AcquireLater, locks
  <2>6. ASSUME NEW o \in Owner, NEW S \in Effects, NEW p \in OwnerOrNone,
               NEW a \in BOOLEAN, Restore(o, S, p, a)
        PROVE  waiters' = waiters
    BY <2>6 DEF Restore
  <2>7. ASSUME NEW i \in 1..MaxWaiters, AbortWaiter(i)
        PROVE  nodes' = nodes
    BY <2>7 DEF AbortWaiter, locks
  <2>8. ASSUME NEW o \in Owner, Release(o) \/ DropNode(o) \/ DropStop(o)
        PROVE  nodes' \subseteq nodes
    BY <2>8 DEF Release, DropNode, DropStop, locks
  <2>9. CASE DrainReject \/ DrainSkip \/ DrainEnd \/ UNCHANGED vars
    BY <2>9, <2>1 DEF DrainReject, DrainSkip, DrainEnd, locks, vars
  <2>10. CASE Clear
    BY <2>10, <2>1 DEF Clear
  <2> HIDE DEF Fresh
  <2> QED
    BY <1>1, <2>1, <2>2, <2>3, <2>4, <2>5, <2>6, <2>7, <2>8, <2>9, <2>10
    DEF Next, Acquire, Recover, Abort, Settle, Drain
<1> QED
  BY <1>1, TypeCorrect, PTL DEF Spec, NoLateDescendant
=============================================================================
