--------------------------- MODULE TaskScheduler ---------------------------
(***************************************************************************)
(* The shared Background Task scheduler                                    *)
(* (src/src/runtime/background-task-scheduler.mjs): one per project        *)
(* directory, used by every Agent and command runtime of the process       *)
(* through a facade of its own.  It admits queued tasks into the limited   *)
(* lane of their owner and kind, remembers which facades know a task, and  *)
(* sees to it that an admitted task reaches a runtime that can run it,     *)
(* also when facades come and go.                                          *)
(*                                                                         *)
(* A call is synchronous.  The loop of #drain is spelled out one iteration *)
(* a step in `call'; every other action waits for Idle.  What a call       *)
(* admits for other facades travels in microtasks, and other calls may     *)
(* come first.                                                             *)
(***************************************************************************)
EXTENDS Integers, FiniteSets, Sequences

CONSTANTS
    Facade,         \* scheduler facades, one per runtime instance
    Task,           \* task identities
    Lane,           \* owner Session and kind
    LaneOf,         \* the lane of a task
    Rank,           \* (sequence, taskID): the place of a task in taskOrder
    LimitOf,        \* the limits a facade is configured with
    None,           \* no entry, no running call
    MaxMicrotasks,  \* bound on the microtasks under way
    MaxResumes      \* bound on the failed disposals that are resumed

ASSUME TaskSchedulerAssumption ==
    /\ IsFiniteSet(Task)
    /\ LaneOf \in [Task -> Lane]
    /\ Rank \in [Task -> Nat]
    /\ \A t, u \in Task : Rank[t] = Rank[u] => t = u
    /\ LimitOf \in [Facade -> [Lane -> Nat \ {0}]]
    /\ None \notin Facade
    /\ MaxMicrotasks \in Nat
    /\ MaxResumes \in Nat

VARIABLES
    phase,          \* where a facade and its runtime are in their life
    limits,         \* #limits
    active,         \* the tasks in a lane.active
    queued,         \* the tasks in a lane.queued
    owner,          \* entry.owner, None without an entry
    claims,         \* entry.facades
    scheduled,      \* the entries with dispatchScheduled
    microtasks,     \* the dispatches queueMicrotask holds
    call,           \* the running call
    served,         \* history: the runtimes that were told to run a task
    stripped,       \* history: tasks that lost their entry while queued
    resumes         \* how often a runtime has been resumed

entries == <<owner, claims, scheduled>>
history == <<served, stripped>>
vars == <<phase, limits, active, queued, owner, claims, scheduled, microtasks,
          call, served, stripped, resumes>>

\* A runtime serves, or has begun to flush as the last facade, or is flushed.
Phase == {"new", "serving", "stopping", "paused", "closed"}

Live == {f \in Facade : phase[f] \in {"serving", "stopping", "paused"}}

Call == [by : Facade, lanes : SUBSET Lane, admitted : SUBSET Task,
         handed : SUBSET Task]

ASSUME NoneAssumption == None \notin Call

Idle == call = None

\* What every call waits for.
Ready == Idle /\ Len(microtasks) < MaxMicrotasks

ActiveIn(l) == {t \in active : LaneOf[t] = l}
QueuedIn(l) == {t \in queued : LaneOf[t] = l}

HasRoom(l) == Cardinality(ActiveIn(l)) < limits[l]
-----------------------------------------------------------------------------
\* Definitions headed "Slip:" are mistakes the code could contain; no run uses
\* them except to show that it would notice.

\* Slip: the loosest facade sets the limits.
MaximumOf(F) ==
    [l \in Lane |-> CHOOSE n \in {LimitOf[f][l] : f \in F} :
                        \A f \in F : n >= LimitOf[f][l]]

\* minimumLimits over the facades F.
Minimum(F) ==
    [l \in Lane |-> CHOOSE n \in {LimitOf[f][l] : f \in F} :
                        \A f \in F : n <= LimitOf[f][l]]

\* f starts a call that drains the lanes L and hands over the tasks H.
Begin(f, L, H) ==
    call' = [by |-> f, lanes |-> L, admitted |-> {}, handed |-> H]

\* entries.delete
Forget(T) ==
    /\ owner' = [t \in Task |-> IF t \in T THEN None ELSE owner[t]]
    /\ claims' = [t \in Task |-> IF t \in T THEN {} ELSE claims[t]]
    /\ scheduled' = scheduled \ T

\* #claim
Claim(f, t) ==
    /\ owner' = [owner EXCEPT ![t] = f]
    /\ claims' = [claims EXCEPT ![t] = @ \cup {f}]
    /\ UNCHANGED scheduled

\* Nobody runs the tasks of T any more.
Vacate(T) ==
    /\ served' = [t \in Task |-> IF t \in T THEN {} ELSE served[t]]
    /\ stripped' = stripped \ T

Init ==
    /\ phase = [f \in Facade |-> "new"]
    /\ limits = [l \in Lane |-> 0]
    /\ active = {}
    /\ queued = {}
    /\ owner = [t \in Task |-> None]
    /\ claims = [t \in Task |-> {}]
    /\ scheduled = {}
    /\ microtasks = <<>>
    /\ call = None
    /\ served = [t \in Task |-> {}]
    /\ stripped = {}
    /\ resumes = 0

\* createSharedBackgroundTaskScheduler: the strictest facade sets the limits.
Join(f) ==
    /\ Ready
    /\ phase[f] = "new"
    /\ phase' = [phase EXCEPT ![f] = "serving"]
    /\ limits' = Minimum(Live \cup {f})
    /\ UNCHANGED <<active, queued, entries, microtasks, call, history, resumes>>

Enqueue(f, t) ==
    /\ Ready
    /\ f \in Live
    /\ Claim(f, t)
    /\ IF t \in active \cup queued THEN UNCHANGED <<queued, call>>
       ELSE queued' = queued \cup {t} /\ Begin(f, {LaneOf[t]}, {})
    /\ UNCHANGED <<phase, limits, active, microtasks, history, resumes>>

\* restoreActive: a task that already runs, or must be held, takes its slot
\* whatever the limit.
RestoreActive(f, t) ==
    /\ Ready
    /\ f \in Live
    /\ Claim(f, t)
    /\ queued' = queued \ {t}
    /\ active' = active \cup {t}
    /\ served' = [served EXCEPT ![t] = IF phase[f] = "serving" THEN @ \cup {f} ELSE @]
    /\ stripped' = stripped \ {t}
    /\ UNCHANGED <<phase, limits, microtasks, call, resumes>>

RemoveQueued(f, t) ==
    /\ Ready
    /\ f \in Live
    /\ t \in queued
    /\ queued' = queued \ {t}
    /\ Forget({t})
    /\ Vacate({t})
    /\ UNCHANGED <<phase, limits, active, microtasks, call, resumes>>

Withdraw(f, t) ==
    /\ Ready
    /\ f \in Live
    /\ t \in active \cup queued
    /\ queued' = queued \ {t}
    /\ active' = active \ {t}
    /\ Forget({t})
    /\ Vacate({t})
    /\ IF t \in active THEN Begin(f, {LaneOf[t]}, {}) ELSE UNCHANGED call
    /\ UNCHANGED <<phase, limits, microtasks, resumes>>

\* release: the entry goes even when the task was not active; a queued task
\* then stays in its lane without one.
Release(f, t) ==
    /\ Ready
    /\ f \in Live
    /\ Forget({t})
    /\ active' = active \ {t}
    /\ served' = [served EXCEPT ![t] = {}]
    /\ stripped' = IF t \in queued THEN stripped \cup {t} ELSE stripped \ {t}
    /\ IF t \in active THEN Begin(f, {LaneOf[t]}, {}) ELSE UNCHANGED call
    /\ UNCHANGED <<phase, limits, queued, microtasks, resumes>>
-----------------------------------------------------------------------------
\* Slip: the successor may be the facade that leaves.
HeirsWithSelf(f) ==
    {h \in [Task -> Live] :
        \A t \in Task : claims[t] \ {f} # {} => h[t] \in claims[t]}

\* Who takes over the entries of f: another claimant, or any live facade.
Heirs(f) ==
    {h \in [Task -> Live \ {f}] :
        \A t \in Task : claims[t] \ {f} # {} => h[t] \in claims[t]}

\* The serving runtimes of the tasks without f.
StopServing(f) == served' = [t \in Task |-> served[t] \ {f}]

\* Slip: active tasks change hands without a dispatch.
HandOverSilently(f, L) ==
    \E h \in Heirs(f) :
        /\ owner' = [t \in Task |-> IF owner[t] = f THEN h[t] ELSE owner[t]]
        /\ claims' = [t \in Task |-> IF claims[t] = {f} THEN {h[t]}
                                     ELSE claims[t] \ {f}]
        /\ Begin(f, L, {})
        /\ StopServing(f)
        /\ UNCHANGED <<active, queued, scheduled, stripped>>

\* #releaseEntries when other facades are there: they take the entries, and
\* the active ones are dispatched again.
HandOver(f, L) ==
    \E h \in Heirs(f) :
        /\ owner' = [t \in Task |-> IF owner[t] = f THEN h[t] ELSE owner[t]]
        /\ claims' = [t \in Task |-> IF claims[t] = {f} THEN {h[t]}
                                     ELSE claims[t] \ {f}]
        /\ Begin(f, L, {t \in active : f \in claims[t]})
        /\ StopServing(f)
        /\ UNCHANGED <<active, queued, scheduled, stripped>>

\* #releaseEntries of the last facade: its tasks leave their lanes, which are
\* drained afterwards.
WithdrawAll(f) ==
    LET mine == {t \in Task : f \in claims[t]} IN
    /\ active' = active \ mine
    /\ queued' = queued \ mine
    /\ Forget(mine)
    /\ served' = [t \in Task |-> IF t \in mine THEN {} ELSE served[t] \ {f}]
    /\ stripped' = stripped \ mine
    /\ Begin(f, {LaneOf[t] : t \in mine}, {})

ReleaseEntries(f) == IF Live = {f} THEN WithdrawAll(f) ELSE HandOver(f, {})

\* flush while other facades are there: the runtime stops dispatching and
\* clears its facade at once.
Flush(f) ==
    /\ Ready
    /\ phase[f] = "serving"
    /\ Live # {f}
    /\ phase' = [phase EXCEPT ![f] = "paused"]
    /\ HandOver(f, {})
    /\ UNCHANGED <<limits, microtasks, resumes>>

\* flush of the last facade: it stops dispatching, cancels what runs ...
FlushLast(f) ==
    /\ Ready
    /\ phase[f] = "serving"
    /\ Live = {f}
    /\ phase' = [phase EXCEPT ![f] = "stopping"]
    /\ StopServing(f)
    /\ UNCHANGED <<limits, active, queued, entries, microtasks, call, stripped,
                   resumes>>

\* ... and clears the facade; others may have joined in between.
FinishFlush(f) ==
    /\ Ready
    /\ phase[f] = "stopping"
    /\ phase' = [phase EXCEPT ![f] = "paused"]
    /\ ReleaseEntries(f)
    /\ UNCHANGED <<limits, microtasks, resumes>>

\* resume after a disposal that failed.
Resume(f) ==
    /\ Ready
    /\ phase[f] = "paused"
    /\ resumes < MaxResumes
    /\ resumes' = resumes + 1
    /\ phase' = [phase EXCEPT ![f] = "serving"]
    /\ ReleaseEntries(f)
    /\ UNCHANGED <<limits, microtasks>>

\* Slip: the lanes are not drained when the limits rise.
DisposeUndrained(f) ==
    /\ Ready
    /\ f \in Live
    /\ Live # {f}
    /\ phase' = [phase EXCEPT ![f] = "closed"]
    /\ limits' = Minimum(Live \ {f})
    /\ HandOver(f, {})
    /\ UNCHANGED <<microtasks, resumes>>

\* dispose while other facades are there: the limits may rise, so every lane
\* is drained.
Dispose(f) ==
    /\ Ready
    /\ f \in Live
    /\ Live # {f}
    /\ phase' = [phase EXCEPT ![f] = "closed"]
    /\ limits' = Minimum(Live \ {f})
    /\ HandOver(f, Lane)
    /\ UNCHANGED <<microtasks, resumes>>

\* dispose of the last facade: the shared state is gone, and the microtasks
\* find no entry.
DisposeLast(f) ==
    /\ Ready
    /\ Live = {f}
    /\ phase' = [phase EXCEPT ![f] = "closed"]
    /\ limits' = [l \in Lane |-> 0]
    /\ active' = {}
    /\ queued' = {}
    /\ Forget(Task)
    /\ Vacate(Task)
    /\ microtasks' = <<>>
    /\ UNCHANGED <<call, resumes>>
-----------------------------------------------------------------------------
\* One turn of #drain's loop: the first task of the queue takes a slot.
Admit(t) ==
    /\ call # None
    /\ LaneOf[t] \in call.lanes
    /\ HasRoom(LaneOf[t])
    /\ t \in queued
    /\ \A u \in QueuedIn(LaneOf[t]) : Rank[t] <= Rank[u]
    /\ queued' = queued \ {t}
    /\ active' = active \cup {t}
    /\ call' = [call EXCEPT !.admitted = @ \cup {t}]
    /\ UNCHANGED <<phase, limits, entries, microtasks, history, resumes>>

Drained(l) ==
    /\ call # None
    /\ l \in call.lanes
    /\ ~HasRoom(l) \/ QueuedIn(l) = {}
    /\ call' = [call EXCEPT !.lanes = @ \ {l}]
    /\ UNCHANGED <<phase, limits, active, queued, entries, microtasks, history,
                   resumes>>

\* #route and #scheduleDispatch: the caller's runtime dispatches its own tasks
\* (unless it is flushing), a microtask carries the others.
Return ==
    LET local == {t \in call.admitted : owner[t] \in {None, call.by}}
        remote == {t \in (call.admitted \ local) \cup call.handed :
                      owner[t] # None /\ t \notin scheduled}
    IN
    /\ call # None
    /\ call.lanes = {}
    /\ call' = None
    /\ served' = [t \in Task |->
                     IF t \in local /\ phase[call.by] = "serving"
                     THEN served[t] \cup {call.by} ELSE served[t]]
    /\ scheduled' = scheduled \cup remote
    /\ microtasks' = IF remote = {} THEN microtasks ELSE Append(microtasks, remote)
    /\ UNCHANGED <<phase, limits, active, queued, owner, claims, stripped, resumes>>

\* A microtask dispatches its tasks through the facades that own them now; a
\* flushing runtime ignores it.
Microtask ==
    LET batch == {t \in Head(microtasks) : owner[t] # None} IN
    /\ Idle
    /\ microtasks # <<>>
    /\ microtasks' = Tail(microtasks)
    /\ scheduled' = scheduled \ batch
    /\ served' = [t \in Task |->
                     IF t \in batch \cap active /\ phase[owner[t]] = "serving"
                     THEN served[t] \cup {owner[t]} ELSE served[t]]
    /\ UNCHANGED <<phase, limits, active, queued, owner, claims, call, stripped,
                   resumes>>

Tasks(f) ==
    \E t \in Task : \/ Enqueue(f, t) \/ RestoreActive(f, t)
                    \/ RemoveQueued(f, t) \/ Withdraw(f, t) \/ Release(f, t)

Life(f) ==
    \/ Join(f) \/ Flush(f) \/ FlushLast(f) \/ FinishFlush(f) \/ Resume(f)
    \/ Dispose(f) \/ DisposeLast(f)

Finish == (\E t \in Task : Admit(t)) \/ (\E l \in Lane : Drained(l)) \/ Return

Next == (\E f \in Facade : Tasks(f) \/ Life(f)) \/ Finish \/ Microtask

\* A flushing runtime is cleared, and one that is paused is disposed of.
WindDown(f) ==
    \/ FinishFlush(f)
    \/ phase[f] = "paused" /\ (Dispose(f) \/ DisposeLast(f))

\* A call runs to its end, the event loop runs every microtask, and a runtime
\* that has begun to flush is cleared and, unless resumed, disposed of.
Fairness ==
    /\ WF_vars(Finish)
    /\ SF_vars(Microtask)
    /\ \A f \in Facade : SF_vars(WindDown(f))

Spec == Init /\ [][Next]_vars
FairSpec == Spec /\ Fairness
-----------------------------------------------------------------------------

\* A task waits or runs, never both, and its entry is in good hands: while
\* there is one, a live facade owns it, claims it, and every claimant is live,
\* however often facades were flushed, resumed and disposed of.  The fallback
\* in the microtask of #scheduleDispatch is therefore never taken.
EntriesInHand ==
    /\ active \cap queued = {}
    /\ \A t \in Task :
         IF owner[t] = None
         THEN claims[t] = {} /\ t \notin scheduled
              /\ (t \in active \cup queued => t \in stripped)
         ELSE /\ owner[t] \in claims[t]
              /\ claims[t] \subseteq Live
              /\ t \in active \cup queued

\* Between calls no task waits in front of a free slot: whatever freed it, an
\* end, a withdrawal or the disposal of the strictest facade.
WorkConserving ==
    Idle => \A l \in Lane : QueuedIn(l) # {} => ~HasRoom(l)

\* Between calls an active task has a runtime that was told to run it, or a
\* microtask will tell one, or a claimant is on its way out and will hand it
\* over.  (Not so a task that was released while it was queued.)
NoLostDispatch ==
    Idle => \A t \in active :
        \/ t \in stripped
        \/ served[t] # {}
        \/ \E i \in DOMAIN microtasks : t \in microtasks[i]
        \/ \E f \in claims[t] : phase[f] \in {"stopping", "paused"}

\* But for recovery, a lane grows only up to the strictest limit among the
\* live facades, also those that joined or left since a task was queued.
StrictestLimit ==
    [][\A l \in Lane :
          Cardinality(ActiveIn(l)') > Cardinality(ActiveIn(l)) =>
             \/ \A f \in Live' : Cardinality(ActiveIn(l)') <= LimitOf[f][l]
             \/ \E f \in Facade, t \in Task : RestoreActive(f, t)]_vars

\* An active task nobody runs is eventually dispatched to a serving runtime,
\* or given up.
EventuallyDispatched ==
    \A t \in Task :
        (t \in active /\ t \notin stripped /\ served[t] = {})
            ~> (t \notin active \/ served[t] # {})
=============================================================================
