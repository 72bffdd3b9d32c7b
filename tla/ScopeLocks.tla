----------------------------- MODULE ScopeLocks -----------------------------
(***************************************************************************)
(* ScopeLockManager (src/src/runtime/scope-locks.mjs): the in-process      *)
(* boundary that keeps Agent tasks from writing the same paths at the same *)
(* time.  A lock is a node of a forest: a delegated task's lock hangs off  *)
(* its parent task's lock, may use only what the parent holds, ignores its *)
(* own ancestors and keeps every ancestor's node alive until it is gone.   *)
(*                                                                         *)
(* JavaScript runs one callback to its end, so a call is one block of      *)
(* steps nobody interleaves with.  The two loops of release (the upward    *)
(* walk of #dropUnowned and the sweep of #drain) are spelled out one       *)
(* iteration a step; every other action waits for Idle.                    *)
(***************************************************************************)
EXTENDS SequencesExt

CONSTANTS
    Owner,      \* lock identities: background-task:<id>, delegation:<uuid>
    Path,       \* normalised write scopes
    Effects,    \* what the frozen effects of the tasks write (#scopes)
    Within,     \* <<outer, inner>>: inner is outer or lies below it
    Star,       \* the scope "*" of an unknown-write
    None,       \* undefined, as a parentLockID
    MaxWaiters  \* bound on the queue of waiters

ASSUME ScopeLocksAssumption ==
    /\ Within \subseteq Path \X Path
    /\ \A x \in Path : <<x, x>> \in Within
    /\ \A x, y, z \in Path :
          <<x, y>> \in Within /\ <<y, z>> \in Within => <<x, z>> \in Within
    /\ Star \notin Path
    /\ Effects \subseteq (SUBSET Path) \cup {{Star}}
    /\ None \notin Owner
    /\ MaxWaiters \in Nat

VARIABLES
    nodes,      \* the keys of #locks
    scopesOf,   \* lock.scopes
    owned,      \* the nodes with lock.owned
    parentOf,   \* lock.parentLockID
    childrenOf, \* lock.children
    waiters,    \* #waiters
    dropping,   \* the argument of the running #dropUnowned, or None
    draining,   \* the index of the running #drain, or 0
    forced      \* history: nodes restored over a conflict (allowConflict)

locks == <<nodes, scopesOf, owned, parentOf, childrenOf, forced>>
control == <<dropping, draining>>
vars == <<nodes, scopesOf, owned, parentOf, childrenOf, waiters, dropping,
          draining, forced>>

\* What a lock can come to hold: {} is a read, {Star} an unknown-write.
Effect == (SUBSET Path) \cup {{Star}}

OwnerOrNone == Owner \cup {None}

Waiter == [owner : Owner, scopes : Effect, parent : OwnerOrNone]

Idle == dropping = None /\ draining = 0
-----------------------------------------------------------------------------
\* Definitions headed "Slip:" are mistakes the code could contain; no run uses
\* them except to show that it would notice.

\* #mergeScopes: "*" swallows everything else.
Merge(S, T) == IF Star \in S \cup T THEN {Star} ELSE S \cup T

\* The pairwise test at the end of #conflict.
Overlap(S, T) ==
    \/ Star \in S \cup T
    \/ \E l \in S, r \in T : <<l, r>> \in Within \/ <<r, l>> \in Within

\* The containment test of #parent: authority S allows every scope of T.
Covers(S, T) ==
    \/ Star \in S
    \/ \A t \in T : t # Star /\ \E s \in S : <<s, t>> \in Within

ClosedUpwards(f, S) == \A x \in S : f[x] # None => f[x] \in S

\* #ancestors(p): p and everything reached from it through parentLockID.
AncestorsIn(f, p) ==
    IF p = None THEN {}
    ELSE {a \in Owner :
            \A S \in SUBSET Owner : p \in S /\ ClosedUpwards(f, S) => a \in S}

Ancestors(p) == AncestorsIn(parentOf, p)

\* Slip: the parent of an existing lock is forgotten when none is named.
BoundAsAsked(o, p) == p

\* #parent: the parent a request is bound to; an existing lock keeps its own.
Bound(o, p) == IF p = None /\ o \in nodes THEN parentOf[o] ELSE p

\* #parent does not throw.
Admissible(o, S, p, restoring) ==
    LET q == Bound(o, p) IN
    /\ o \in nodes /\ p # None => parentOf[o] = p
    /\ q # None =>
         /\ q # o
         /\ q \in nodes
         /\ o \notin Ancestors(q)
         /\ restoring \/ Ancestors(q) \subseteq owned
         /\ Covers(scopesOf[q], Merge(scopesOf[o], S))

\* A root read holds no writable scope and never blocks or is blocked.
RootRead(S, p) == S = {} /\ p = None

\* Slip: locks delegated from one ancestor are taken for related.
ConflictsAmongStrangers(o, S, p) ==
    IF RootRead(S, p) THEN {}
    ELSE {c \in nodes \ {o} :
            /\ Ancestors(p) \cap ({c} \cup Ancestors(parentOf[c])) = {}
            /\ o \notin Ancestors(parentOf[c])
            /\ ~RootRead(scopesOf[c], parentOf[c])
            /\ Overlap(S, scopesOf[c])}

\* The locks #conflict would report.  Ancestors and descendants are exempt.
Conflicts(o, S, p) ==
    IF RootRead(S, p) THEN {}
    ELSE {c \in nodes \ {o} :
            /\ c \notin Ancestors(p)
            /\ o \notin Ancestors(parentOf[c])
            /\ ~RootRead(scopesOf[c], parentOf[c])
            /\ Overlap(S, scopesOf[c])}

\* Slip: the parent does not learn of its child.
OwnUnnoticed(o, S, p) ==
    /\ nodes' = nodes \cup {o}
    /\ scopesOf' = [scopesOf EXCEPT ![o] = Merge(@, S)]
    /\ owned' = owned \cup {o}
    /\ parentOf' = [parentOf EXCEPT ![o] = IF o \in nodes THEN @ ELSE p]
    /\ UNCHANGED childrenOf

\* #own
Own(o, S, p) ==
    /\ nodes' = nodes \cup {o}
    /\ scopesOf' = [scopesOf EXCEPT ![o] = Merge(@, S)]
    /\ owned' = owned \cup {o}
    /\ parentOf' = [parentOf EXCEPT ![o] = IF o \in nodes THEN @ ELSE p]
    /\ childrenOf' = [c \in Owner |-> IF c = p THEN childrenOf[c] \cup {o}
                                      ELSE childrenOf[c]]
-----------------------------------------------------------------------------
Init ==
    /\ nodes = {}
    /\ scopesOf = [o \in Owner |-> {}]
    /\ owned = {}
    /\ parentOf = [o \in Owner |-> None]
    /\ childrenOf = [o \in Owner |-> {}]
    /\ waiters = <<>>
    /\ dropping = None
    /\ draining = 0
    /\ forced = {}

\* acquire, when #conflict finds nothing: the caller owns the lock at once,
\* ahead of whoever is queued.  A call #parent refuses changes nothing.
AcquireNow(o, S, p) ==
    /\ Idle
    /\ Admissible(o, S, p, FALSE)
    /\ Conflicts(o, S, Bound(o, p)) = {}
    /\ Own(o, S, Bound(o, p))
    /\ UNCHANGED <<waiters, control, forced>>

\* acquire, when another lock is in the way.
AcquireLater(o, S, p) ==
    /\ Idle
    /\ Len(waiters) < MaxWaiters
    /\ Admissible(o, S, p, FALSE)
    /\ Conflicts(o, S, Bound(o, p)) # {}
    /\ waiters' = Append(waiters, [owner |-> o, scopes |-> S,
                                   parent |-> Bound(o, p)])
    /\ UNCHANGED <<locks, control>>

\* The abort listener of a waiting acquire.
AbortWaiter(i) ==
    /\ Idle
    /\ i \in DOMAIN waiters
    /\ waiters' = RemoveAt(waiters, i)
    /\ UNCHANGED <<locks, control>>

\* restore: recovery re-establishes a lock it has durable evidence for;
\* ancestors need not be owned, and allowConflict overrides #conflict.
Restore(o, S, p, allowConflict) ==
    LET conflict == Conflicts(o, S, Bound(o, p)) # {} IN
    /\ Idle
    /\ Admissible(o, S, p, TRUE)
    /\ conflict => allowConflict
    /\ Own(o, S, Bound(o, p))
    /\ forced' = IF conflict THEN forced \cup {o} ELSE forced
    /\ UNCHANGED <<waiters, control>>

\* release, up to its call of #dropUnowned (or of #drain, if o is unknown).
Release(o) ==
    /\ Idle
    /\ owned' = owned \ {o}
    /\ IF o \in nodes THEN dropping' = o /\ UNCHANGED draining
       ELSE draining' = 1 /\ UNCHANGED dropping
    /\ UNCHANGED <<nodes, scopesOf, parentOf, childrenOf, waiters, forced>>

\* Slip: the walk upwards deletes an ancestor that is still owned.
DropNodeOwned(o) ==
    /\ dropping = o
    /\ o \in nodes
    /\ childrenOf[o] = {}
    /\ nodes' = nodes \ {o}
    /\ scopesOf' = [scopesOf EXCEPT ![o] = {}]
    /\ parentOf' = [parentOf EXCEPT ![o] = None]
    /\ childrenOf' = [c \in Owner |-> childrenOf[c] \ {o}]
    /\ forced' = forced \ {o}
    /\ dropping' = parentOf[o]
    /\ draining' = IF parentOf[o] = None THEN 1 ELSE 0
    /\ UNCHANGED <<owned, waiters>>

\* #dropUnowned deletes a lock that is neither owned nor has children, and
\* goes on with its parent.
DropNode(o) ==
    /\ dropping = o
    /\ o \in nodes
    /\ o \notin owned
    /\ childrenOf[o] = {}
    /\ nodes' = nodes \ {o}
    /\ scopesOf' = [scopesOf EXCEPT ![o] = {}]
    /\ parentOf' = [parentOf EXCEPT ![o] = None]
    /\ childrenOf' = [c \in Owner |-> IF c = parentOf[o] THEN childrenOf[c] \ {o}
                                      ELSE childrenOf[c]]
    /\ forced' = forced \ {o}
    /\ dropping' = parentOf[o]
    /\ draining' = IF parentOf[o] = None THEN 1 ELSE 0
    /\ UNCHANGED <<owned, waiters>>

\* #dropUnowned stops at the first lock still owned or still an ancestor.
DropStop(o) ==
    /\ dropping = o
    /\ o \in nodes => o \in owned \/ childrenOf[o] # {}
    /\ dropping' = None
    /\ draining' = 1
    /\ UNCHANGED <<locks, waiters>>

Current == waiters[draining]

\* One turn of #drain's loop: the waiter's authority is gone, reject it ...
DrainReject ==
    /\ draining \in DOMAIN waiters
    /\ ~Admissible(Current.owner, Current.scopes, Current.parent, FALSE)
    /\ waiters' = RemoveAt(waiters, draining)
    /\ UNCHANGED <<locks, control>>

\* ... it is still in conflict, pass over it ...
DrainSkip ==
    /\ draining \in DOMAIN waiters
    /\ Admissible(Current.owner, Current.scopes, Current.parent, FALSE)
    /\ Conflicts(Current.owner, Current.scopes, Current.parent) # {}
    /\ draining' = draining + 1
    /\ UNCHANGED <<locks, waiters, dropping>>

\* Slip: the index moves on although the queue has closed up.
DrainGrantSkipping ==
    /\ draining \in DOMAIN waiters
    /\ Admissible(Current.owner, Current.scopes, Current.parent, FALSE)
    /\ Conflicts(Current.owner, Current.scopes, Current.parent) = {}
    /\ Own(Current.owner, Current.scopes, Current.parent)
    /\ waiters' = RemoveAt(waiters, draining)
    /\ draining' = draining + 1
    /\ UNCHANGED <<dropping, forced>>

\* ... or it gets its lock.
DrainGrant ==
    /\ draining \in DOMAIN waiters
    /\ Admissible(Current.owner, Current.scopes, Current.parent, FALSE)
    /\ Conflicts(Current.owner, Current.scopes, Current.parent) = {}
    /\ Own(Current.owner, Current.scopes, Current.parent)
    /\ waiters' = RemoveAt(waiters, draining)
    /\ UNCHANGED <<control, forced>>

DrainEnd ==
    /\ draining > Len(waiters)
    /\ draining' = 0
    /\ UNCHANGED <<locks, waiters, dropping>>

Drain == DrainReject \/ DrainSkip \/ DrainGrant \/ DrainEnd

\* clear: disposal gives up the roots, keeps what nested locks hang off, and
\* rejects every waiter.
Clear ==
    LET roots == {r \in nodes : parentOf[r] = None}
        gone == {r \in roots : childrenOf[r] = {}}
    IN
    /\ Idle
    /\ nodes' = nodes \ gone
    /\ scopesOf' = [o \in Owner |-> IF o \in gone THEN {} ELSE scopesOf[o]]
    /\ owned' = owned \ roots
    /\ forced' = forced \ gone
    /\ waiters' = <<>>
    /\ UNCHANGED <<parentOf, childrenOf, control>>

Acquire ==
    \E o \in Owner, S \in Effects, p \in OwnerOrNone :
        AcquireNow(o, S, p) \/ AcquireLater(o, S, p)

Recover ==
    \E o \in Owner, S \in Effects, p \in OwnerOrNone, a \in BOOLEAN :
        Restore(o, S, p, a)

Abort == \E i \in 1..MaxWaiters : AbortWaiter(i)

Settle == \E o \in Owner : Release(o) \/ DropNode(o) \/ DropStop(o)

Next == Acquire \/ Recover \/ Abort \/ Settle \/ Drain \/ Clear

Spec == Init /\ [][Next]_vars
-----------------------------------------------------------------------------
\* Every variable has its type; a key absent from #locks has blank fields.
TypeOK ==
    /\ nodes \subseteq Owner
    /\ scopesOf \in [Owner -> Effect]
    /\ owned \subseteq nodes
    /\ parentOf \in [Owner -> OwnerOrNone]
    /\ childrenOf \in [Owner -> SUBSET Owner]
    /\ waiters \in Seq(Waiter)
    /\ dropping \in OwnerOrNone
    /\ draining \in Nat
    /\ forced \subseteq nodes
    /\ dropping # None => draining = 0
    /\ \A o \in Owner \ nodes :
         scopesOf[o] = {} /\ parentOf[o] = None /\ childrenOf[o] = {}

\* The parent links and the children sets describe the same forest, and the
\* walks of #ancestors and #parent, which follow parentLockID with no other
\* stop, terminate: no lock is its own ancestor.  In particular a released
\* lock is still there, blocking, for as long as a descendant holds on.
Forest ==
    /\ \A o \in nodes : parentOf[o] # None => o \in childrenOf[parentOf[o]]
    /\ \A o \in Owner : \A c \in childrenOf[o] : parentOf[c] = o
    /\ \A o \in nodes : o \notin Ancestors(parentOf[o])

\* A delegated task never holds more than the task that delegated to it,
\* whatever merges, releases and recoveries came in between.
DelegatedAuthority ==
    \A o \in nodes :
        parentOf[o] # None => Covers(scopesOf[parentOf[o]], scopesOf[o])

Related(a, b) == a \in Ancestors(parentOf[b]) \/ b \in Ancestors(parentOf[a])

\* Two tasks neither of which descends from the other never hold scopes that
\* overlap, and no delegated reader runs beside a foreign unknown-write.  Only
\* recovery with allowConflict may break this, for the node it restores.
WriteExclusion ==
    \A a, b \in nodes \ forced :
        \/ a = b
        \/ Related(a, b)
        \/ RootRead(scopesOf[a], parentOf[a])
        \/ RootRead(scopesOf[b], parentOf[b])
        \/ ~Overlap(scopesOf[a], scopesOf[b])

\* Between calls no waiter is left standing in front of a free scope: whoever
\* is queued is in conflict with a lock that exists now.
NoLostWakeup ==
    Idle => \A i \in DOMAIN waiters :
        Conflicts(waiters[i].owner, waiters[i].scopes, waiters[i].parent) # {}

\* A lock that stays keeps its parent and never gives back part of its scopes:
\* neither a second acquire nor a recovery re-homes or narrows it.
LockIsStable ==
    [][\A o \in nodes \cap nodes' :
          parentOf'[o] = parentOf[o] /\ Covers(scopesOf'[o], scopesOf[o])]_vars

\* A queued request that finally gets its lock hangs off ancestors that are all
\* still owned, although they could be released while it waited.
NoLateDescendant ==
    [][\A o \in nodes' \ nodes :
          Len(waiters') < Len(waiters) /\ parentOf'[o] # None =>
             Ancestors(parentOf'[o]) \subseteq owned]_vars
-----------------------------------------------------------------------------
\* A waiter #drain has passed over, or every waiter between calls.
Passed(i) == (draining = 0 /\ dropping = None) \/ i < draining

\* NoLostWakeup, made inductive: it holds for the waiters the running sweep
\* has already passed, and their parents exist.
WaitersBlocked ==
    \A i \in DOMAIN waiters : Passed(i) =>
        /\ waiters[i].parent # None => waiters[i].parent \in nodes
        /\ Conflicts(waiters[i].owner, waiters[i].scopes,
                     waiters[i].parent) # {}

\* The inductive invariant.
IInv == TypeOK /\ Forest /\ DelegatedAuthority /\ WriteExclusion /\ WaitersBlocked
=============================================================================
