------------------------------ MODULE Workflow ------------------------------
(***************************************************************************)
(* The checkpoints of a Workflow: one owner Session, the runs kept in its  *)
(* metadata, and the o4e_workflow calls of its main Agent                  *)
(* (core/workflow-process.mjs, runtime/workflow-runtime.mjs,               *)
(* adapters/opencode/workflow-evidence.mjs).                               *)
(*                                                                         *)
(* A call captures the epoch of the user's turn, asks the host, waits for  *)
(* the lock of the owner, reads the stored index and the transcript, and   *)
(* saves a whole new index.  Meanwhile the Agent's other tools leave their *)
(* records in the transcript, tasks settle and are resumed, and the user   *)
(* writes: the chat.message hook advances the epoch, marks the active run  *)
(* interrupted under the same lock, and only then does the host store the  *)
(* message.                                                                *)
(*                                                                         *)
(* A part stands before another in the transcript if its position is       *)
(* smaller: o4e_workflow calls have even positions, the other tool parts   *)
(* between two calls share the odd one.  An assistant message is older     *)
(* than the user messages that are not among the `seen` when it was begun. *)
(* Runs, users and submissions count from 1; an attempt is named by its    *)
(* step and its number.  The definition of the workflow is fixed by        *)
(* constants; a step's output, artifacts and schema are the one bit `fits` *)
(* of its report.                                                          *)
(***************************************************************************)
EXTENDS Integers, Sequences, FiniteSets

CONSTANTS
    Step,           \* the steps of the workflow
    DependsOn,      \* the steps each step depends on
    Gate,           \* the evidence each step requires: [kind, from]
    TaskMode,       \* the steps whose execution mode is "task"
    Repairs,        \* maxRepairRounds, of every step
    Task,           \* the Agent tasks the main Agent may create
    Slot,           \* calls in flight at once
    RunLimit,       \* PROCESS_OWNER_RUN_LIMIT
    MaxUsers,       \* bound: messages of the user
    MaxWorks,       \* bound: tool parts that can be evidence
    MaxCalls,       \* bound: o4e_workflow calls
    None

Kind == {"task-created", "task-result"}

\* assertDag: dependencies are steps, acyclic, and the task a requirement
\* takes over comes from a direct dependency that had to create it.
NormalWorkflow ==
    /\ DependsOn \in [Step -> SUBSET Step]
    /\ Gate \in [Step -> SUBSET [kind : Kind, from : Step \cup {None}]]
    /\ \E rank \in [Step -> 1..Cardinality(Step)] :
          \A s \in Step : \A d \in DependsOn[s] : rank[d] < rank[s]
    /\ \A s \in Step : \A q \in Gate[s] :
          q.from # None =>
             /\ q.kind = "task-result"
             /\ q.from \in DependsOn[s] \cap TaskMode
             /\ \E p \in Gate[q.from] : p.kind = "task-created"

ASSUME NormalWorkflow
ASSUME Repairs \in 0..10 /\ RunLimit \in Nat \ {0}
ASSUME NoneAssumption == None \notin Nat \cup Slot

VARIABLES
    index,          \* metadata.o4e.workflowProcess: [active, runs]
    users,          \* for each user message: is it stored yet?
    message,        \* the assistant message being written: [seen, parent]
    clock,          \* the position of the last call
    works,          \* completed tool parts of the task tools
    tasks,          \* each task's ledger: [revision, completed], or None
    epoch,          \* userTurnEpoch of the owner
    hook,           \* the user message in the chat.message hook, or None
    calls,          \* o4e_workflow calls in flight
    line,           \* who waits for the lock process:<owner>; the head holds it
    opened,         \* epoch of the call that last started or resumed each run
    heard           \* epoch of the last message resumeForSession dealt with

vars == <<index, users, message, clock, works, tasks, epoch, hook,
          calls, line, opened, heard>>
transcript == <<users, message, works, tasks>>

Run == 1..Len(index.runs)
Terminal(run) == run.status \in {"completed", "stopped"}
StatusOf(run, s) == IF run.steps[s] = None THEN "unstarted" ELSE run.steps[s].status
Passed(run, s) == StatusOf(run, s) = "passed"
ActiveSteps(run) == {s \in Step : StatusOf(run, s) = "active"}
\* The submissions that decided the current attempt of a step.
DecidedBy(run, s) ==
    {n \in 1..Len(run.submissions) :
        run.submissions[n].step = s /\ run.submissions[n].attempt = run.steps[s].attempt}
-----------------------------------------------------------------------------
(* Evidence and gates. *)

\* The tasks the report of a passed step says it created.
CreatedBy(run, s) ==
    IF Passed(run, s)
    THEN {e.task : e \in {w \in run.steps[s].evidence : w.kind = "task-created"}}
    ELSE {}

\* gateEvidenceDiagnostics: the requirement is met by these references.
Met(run, q, evidence) ==
    \E e \in evidence :
       /\ e.kind = q.kind
       /\ q.from # None => CreatedBy(run, q.from) = {e.task}

GateMet(run, s, evidence) ==
    /\ \A q \in Gate[s] : Met(run, q, evidence)
    /\ s \in TaskMode => \E e \in evidence : e.kind \in Kind

\* Slip: evidence that was there before the attempt began is accepted.
WithinUnlessOld(e, begun, at) == e.at < at

\* A part stands after the begin of its attempt and before the report.
Within(e, begun, at) == begun < e.at /\ e.at < at

\* verifyEvidence: the part stands between the begin and the report, and the
\* task's ledger still agrees with what the part showed.
Verified(e, begun, at) ==
    /\ e \in works
    /\ Within(e, begun, at)
    /\ e.kind = "task-result" =>
          tasks[e.task].completed /\ tasks[e.task].revision = e.revision

\* #provenance: the evidence of every passed step still verifies, at the
\* report that passed it.
Provenance(run) ==
    \A s \in Step : Passed(run, s) =>
       \A n \in DecidedBy(run, s), e \in run.steps[s].evidence :
          Verified(e, run.steps[s].begun, run.submissions[n].at)
-----------------------------------------------------------------------------
(* Checkpoints. *)

\* assertProcess.
Checkpoint(run) ==
    /\ run.revision >= 1
    /\ Cardinality(ActiveSteps(run)) <= 1
    /\ \A s \in Step : run.steps[s] # None =>
          /\ run.steps[s].attempt \in 1..(Repairs + 1)
          /\ \A d \in DependsOn[s] : Passed(run, d)
          /\ StatusOf(run, s) # "active" =>
                \E n \in 1..Len(run.submissions) :
                   /\ DecidedBy(run, s) = {n}
                   /\ run.submissions[n].accepted = Passed(run, s)
                   /\ run.submissions[n].evidence = run.steps[s].evidence
          /\ Passed(run, s) => GateMet(run, s, run.steps[s].evidence)
    /\ run.status = "completed" => \A s \in Step : Passed(run, s)

\* #index: what a stored index must look like to be used at all.
Accepted(x) ==
    /\ Len(x.runs) <= RunLimit
    /\ \A r \in 1..Len(x.runs) :
          /\ Checkpoint(x.runs[r])
          /\ x.runs[r].status \in {"running", "interrupted"} => x.active = r
    /\ x.active # 0 =>
          /\ x.active \in 1..Len(x.runs)
          /\ x.runs[x.active].status \in {"running", "interrupted"}

\* processView.ready.
Ready(run) ==
    IF run.status # "running" \/ ActiveSteps(run) # {} THEN {}
    ELSE {s \in Step :
            /\ ~Passed(run, s)
            /\ run.steps[s] = None \/ run.steps[s].attempt <= Repairs
            /\ \A d \in DependsOn[s] : Passed(run, d)}

\* newProcess: its id is drawn now, no call that is made already can name it.
NewProcess(boundary) ==
    [revision |-> 1, status |-> "running", boundary |-> boundary, named |-> clock,
     steps |-> [s \in Step |-> None], submissions |-> <<>>]

\* beginProcess: the next attempt of the step, with an id of its own; the rejected
\* one is forgotten.
BeginProcess(run, s, at) ==
    [run EXCEPT !.steps[s] =
        [status |-> "active", begun |-> at, named |-> clock, evidence |-> {},
         attempt |-> IF run.steps[s] = None THEN 1 ELSE run.steps[s].attempt + 1]]

\* acceptProcessReport: the step passes if nothing speaks against it, and the
\* run is completed with its last step.
AcceptProcessReport(run, q, at) ==
    LET accepted == /\ q.verified
                    /\ q.fits
                    /\ GateMet(run, q.step, q.evidence)
        decided == [run EXCEPT
            !.steps[q.step].status = IF accepted THEN "passed" ELSE "rejected",
            !.steps[q.step].evidence = q.evidence,
            !.submissions = Append(@,
                [step |-> q.step, attempt |-> q.attempt, evidence |-> q.evidence,
                 fits |-> q.fits, at |-> at, accepted |-> accepted])]
    IN IF \A s \in Step : Passed(decided, s)
       THEN [decided EXCEPT !.status = "completed"] ELSE decided
-----------------------------------------------------------------------------
Init ==
    /\ index = [active |-> 0, runs |-> <<>>]
    /\ users = <<TRUE>>
    /\ message = [seen |-> 1, parent |-> 1]
    /\ clock = 0
    /\ works = {}
    /\ tasks = [t \in Task |-> None]
    /\ epoch = 1
    /\ hook = None
    /\ calls = [c \in Slot |-> None]
    /\ line = <<>>
    /\ opened = <<>>
    /\ heard = 1

\* Where a tool part other than o4e_workflow's stands now.
Between == clock + 1
-----------------------------------------------------------------------------
(* The main Agent, its tasks and the user: what surrounds the runtime. *)

\* The task tool creates a task and its completed part names it.
CreateTask(t) ==
    /\ tasks[t] = None
    /\ Cardinality(works) < MaxWorks
    /\ tasks' = [tasks EXCEPT ![t] = [revision |-> 1, completed |-> FALSE]]
    /\ works' = works \cup {[kind |-> "task-created", task |-> t, at |-> Between,
                             revision |-> 1]}
    /\ UNCHANGED <<index, users, message, clock, epoch, hook, calls,
                   line, opened, heard>>

\* o4e_task action:output of a completed task.
ReadTask(t) ==
    /\ tasks[t] # None /\ tasks[t].completed
    /\ Cardinality(works) < MaxWorks
    /\ works' = works \cup {[kind |-> "task-result", task |-> t, at |-> Between,
                             revision |-> tasks[t].revision]}
    /\ UNCHANGED <<index, users, message, clock, tasks, epoch, hook,
                   calls, line, opened, heard>>

\* The task completes; later input may set it going again, once.
TaskMoves(t) ==
    /\ tasks[t] # None /\ tasks[t].revision <= 2
    /\ tasks' = [tasks EXCEPT ![t] = [revision |-> @.revision + 1,
                                      completed |-> ~@.completed]]
    /\ UNCHANGED <<index, users, message, clock, works, epoch, hook,
                   calls, line, opened, heard>>

\* The last user message the host has stored.
LastUser ==
    CHOOSE u \in 1..Len(users) :
       users[u] /\ \A v \in (u + 1)..Len(users) : ~users[v]

\* The host's loop begins the next assistant message, under the last stored
\* user message.  A message in the hook is older than the assistant message
\* begun meanwhile, and yet not its parent.
NextMessage ==
    /\ \A c \in Slot : calls[c] = None
    /\ message # [seen |-> Len(users), parent |-> LastUser]
    /\ message' = [seen |-> Len(users), parent |-> LastUser]
    /\ UNCHANGED <<index, users, clock, works, tasks, epoch, hook, calls, line,
                   opened, heard>>

\* chat.message: the message gets its time now and is stored when the hook has
\* returned.
UserWrites ==
    /\ hook = None
    /\ Len(users) < MaxUsers
    /\ users' = Append(users, FALSE)
    /\ epoch' = epoch + 1
    /\ hook' = Len(users) + 1
    /\ line' = Append(line, None)
    /\ UNCHANGED <<index, message, clock, works, tasks, calls, opened, heard>>

\* resumeForSession: the active run is interrupted, unless it is the message
\* the run is bound to.
ResumedForSession(x, u) ==
    IF x.active = 0 THEN x
    ELSE LET run == x.runs[x.active] IN
         IF run.boundary = u \/ run.status = "interrupted" THEN x
         ELSE [x EXCEPT !.runs[x.active] =
                  [run EXCEPT !.status = "interrupted", !.revision = @ + 1]]

\* The hook holds the lock and reconciles, or an error of the store ends it:
\* the hook catches that.
Reconcile ==
    /\ line # <<>> /\ Head(line) = None
    /\ line' = Tail(line)
    /\ \/ /\ Accepted(index)
          /\ index' = ResumedForSession(index, hook)
          /\ heard' = epoch
       \/ UNCHANGED <<index, heard>>
    /\ UNCHANGED <<users, message, clock, works, tasks, epoch, hook,
                   calls, opened>>

\* The hook has returned: the host stores the message.
UserStored ==
    /\ hook # None
    /\ \A i \in 1..Len(line) : line[i] # None
    /\ users' = [users EXCEPT ![hook] = TRUE]
    /\ hook' = None
    /\ UNCHANGED <<index, message, clock, works, tasks, epoch, calls,
                   line, opened, heard>>
-----------------------------------------------------------------------------
(* The calls. *)

\* #boundary: no user message in the transcript is newer than the assistant
\* message of the call.
BoundaryHolds(c) ==
    \A u \in 1..Len(users) : users[u] /\ u # c.parent => u <= c.seen

\* What a call may ask for, chosen when it is first looked at: the revision is
\* current or not, the submission new or the last one again.
Ask(action, r, v, s) ==
    [action |-> action, run |-> r, revision |-> v, step |-> s, attempt |-> 0,
     submission |-> 0, evidence |-> {}, fits |-> TRUE, verified |-> FALSE]

Report(r, v, s, n, m, evidence, fits) ==
    [action |-> "report", run |-> r, revision |-> v, step |-> s, attempt |-> n,
     submission |-> m, evidence |-> evidence, fits |-> fits, verified |-> FALSE]

Near(n) == {n, n + 1}

\* One reference that fits, or none and perhaps a failure.
Offer == {<<{w}, TRUE>> : w \in works} \cup {<<{}, f>> : f \in BOOLEAN}

AskOf(r) ==
    {Ask(a, r, v, None) :
        a \in {"resume", "pause", "stop"}, v \in Near(index.runs[r].revision - 1)}
    \cup {Ask("begin", r, v, s) : v \in Near(index.runs[r].revision - 1), s \in Step}
    \cup {Report(r, v, s, n, m, e[1], e[2]) :
             v \in Near(index.runs[r].revision - 1), s \in Step, n \in 1..(Repairs + 1),
             m \in Near(Len(index.runs[r].submissions)), e \in Offer}

Request == {Ask("start", 0, 0, None)} \cup UNION {AskOf(r) : r \in Run}

\* handle: the epoch is captured, the index must be readable.
Call(c) ==
    /\ calls[c] = None
    /\ Accepted(index)
    /\ clock < 2 * MaxCalls
    /\ clock' = clock + 2
    /\ calls' = [calls EXCEPT ![c] =
                    [parent |-> message.parent, seen |-> message.seen,
                     at |-> clock', epoch |-> epoch, ask |-> None, stage |-> "asking"]]
    /\ UNCHANGED <<index, transcript, epoch, hook, line, opened, heard>>

\* #authorize: the host allows it, and the call waits for the lock.
Granted(c) ==
    /\ calls[c] # None /\ calls[c].stage = "asking"
    /\ calls' = [calls EXCEPT ![c].stage = "waiting"]
    /\ line' = Append(line, c)
    /\ UNCHANGED <<index, transcript, clock, epoch, hook, opened, heard>>

Holds(c) == line # <<>> /\ Head(line) = c

\* A start: no run is bound, and there is room for one more.
MayStart(c) ==
    /\ BoundaryHolds(c)
    /\ index.active = 0
    /\ Len(index.runs) < RunLimit

\* What every other call needs: to know the id of the run, and more.  A submission
\* that is already decided is only read back.
MayMove(run, c, q) ==
    /\ run.named < c.at
    /\ Provenance(run)
    /\ ~(q.action = "report" /\ q.submission <= Len(run.submissions))
    /\ run.revision = q.revision
    /\ ~Terminal(run)
    /\ BoundaryHolds(c)

\* The call belongs to another turn than the run: the run must be resumed.
OtherTurn(run, c, q) == q.action # "resume" /\ c.parent # run.boundary

\* begin and report work on the active run; a step is begun when it is ready
\* and reported under the attempt that is active, by a call that knows its id.
\* A resumed run takes the place of no other.
Fitting(run, c, q) ==
    /\ q.action \in {"begin", "report"} =>
          run.status = "running" /\ index.active = q.run
    /\ q.action = "begin" => q.step \in Ready(run)
    /\ q.action = "report" => /\ StatusOf(run, q.step) = "active"
                             /\ run.steps[q.step].attempt = q.attempt
                             /\ run.steps[q.step].named < c.at
    /\ q.action = "resume" => index.active \in {0, q.run}

\* The call gets as far as the save.
Passes(c, q) ==
    IF q.action = "start" THEN MayStart(c)
    ELSE LET run == index.runs[q.run] IN
         /\ MayMove(run, c, q)
         /\ IF OtherTurn(run, c, q) THEN run.status = "running" ELSE Fitting(run, c, q)

\* readWorkflowEvidence, for a report that is in its own turn.
Evidenced(c, q) ==
    \A e \in q.evidence :
       /\ StatusOf(index.runs[q.run], q.step) = "active"
       /\ Verified(e, index.runs[q.run].steps[q.step].begun, c.at)

\* The lock is held: the call gets ready to save; or it throws or only reads.
Check(c) ==
    /\ Holds(c) /\ calls[c] # None /\ calls[c].stage = "waiting"
    /\ \/ /\ Accepted(index)
          /\ \E q \in Request :
                /\ Passes(calls[c], q)
                /\ calls' = [calls EXCEPT ![c].stage = "saving",
                      ![c].ask = [q EXCEPT !.verified = Evidenced(calls[c], q)]]
          /\ UNCHANGED line
       \/ /\ calls' = [calls EXCEPT ![c] = None]
          /\ line' = Tail(line)
    /\ UNCHANGED <<index, transcript, clock, epoch, hook, opened, heard>>

\* The new state of the run, with its next revision.
Moved(run, c, q) ==
    LET next ==
        IF OtherTurn(run, c, q) THEN [run EXCEPT !.status = "interrupted"]
        ELSE CASE q.action = "begin"  -> BeginProcess(run, q.step, c.at)
               [] q.action = "report" -> AcceptProcessReport(run, q, c.at)
               [] q.action = "resume" -> [run EXCEPT !.status = "running",
                                                     !.boundary = c.parent]
               [] q.action = "pause"  -> [run EXCEPT !.status = "paused"]
               [] q.action = "stop"   -> [run EXCEPT !.status = "stopped"]
    IN [next EXCEPT !.revision = @ + 1]

\* The binding after the call: pause, stop and completion clear it.
Binding(run, c, q) ==
    IF OtherTurn(run, c, q) THEN index.active
    ELSE IF q.action = "resume" THEN q.run
    ELSE IF q.action \in {"pause", "stop"} THEN 0
    ELSE IF Moved(run, c, q).status = "completed" THEN 0 ELSE index.active

Saved(c, q) ==
    IF q.action = "start"
    THEN [active |-> Len(index.runs) + 1, runs |-> Append(index.runs, NewProcess(c.parent))]
    ELSE [active |-> Binding(index.runs[q.run], c, q),
          runs |-> [index.runs EXCEPT ![q.run] = Moved(@, c, q)]]

\* Slip: #save does not look at the epoch.
EpochIgnored(c) == TRUE

\* #save: the user has not written since the call came in.
EpochHolds(c) == epoch = c.epoch

\* A report looks at the boundary and the provenance again.
ReportHolds(c, q) ==
    q.action = "report" /\ ~OtherTurn(index.runs[q.run], c, q) =>
       LET run == Saved(c, q).runs[q.run] IN
       BoundaryHolds(c) /\ Checkpoint(run) /\ Provenance(run)

\* The save, in one step of the store; or nothing is saved: the host refused,
\* the call was aborted or failed, or the process ended.  That a caller may
\* not learn of a save that succeeded changes no state: it repeats the call.
Save(c) ==
    LET k == calls[c]
        q == k.ask
    IN
    /\ Holds(c) /\ k # None /\ k.stage = "saving"
    /\ calls' = [calls EXCEPT ![c] = None]
    /\ line' = Tail(line)
    /\ \/ /\ ReportHolds(k, q) /\ EpochHolds(k)
          /\ index' = Saved(k, q)
          /\ opened' = CASE q.action = "start"  -> Append(opened, k.epoch)
                         [] q.action = "resume" -> [opened EXCEPT ![q.run] = k.epoch]
                         [] OTHER               -> opened
       \/ UNCHANGED <<index, opened>>
    /\ UNCHANGED <<transcript, clock, epoch, hook, heard>>
-----------------------------------------------------------------------------
Agent ==
    \/ \E t \in Task : CreateTask(t) \/ ReadTask(t) \/ TaskMoves(t)
    \/ NextMessage

User == UserWrites \/ Reconcile \/ UserStored

Next ==
    \/ Agent
    \/ User
    \/ \E c \in Slot : Call(c) \/ Granted(c) \/ Check(c) \/ Save(c)

Spec == Init /\ [][Next]_vars
-----------------------------------------------------------------------------
\* A step passes in its order, whatever happened to the run in between and however
\* many calls are in flight: in the transcript its evidence stands between the call
\* that began the attempt and the one that reported it; it meets the gate and bears
\* on the very task the dependency created; and the report follows those of the
\* steps it depends on.  A completed run went through all of its steps.
PassedInOrder ==
    \A r \in Run : LET run == index.runs[r] IN
    /\ \A s \in Step : Passed(run, s) =>
       \A n \in DecidedBy(run, s) :
          /\ \A e \in run.steps[s].evidence :
                run.steps[s].begun < e.at /\ e.at < run.submissions[n].at
          /\ \A q \in Gate[s] : \E e \in run.steps[s].evidence :
                /\ e.kind = q.kind
                /\ q.from # None => \E d \in run.steps[q.from].evidence :
                                       d.kind = "task-created" /\ d.task = e.task
          /\ \A d \in DependsOn[s] :
                /\ Passed(run, d)
                /\ \A m \in DecidedBy(run, d) : run.submissions[m].at < run.submissions[n].at
    /\ run.status = "completed" => \A s \in Step : Passed(run, s)

\* Evidence is a tool part the owner has completed after the attempt began and
\* before the report (src/SPEC.md:366).  An attempt begins when beginProcess is
\* stored: whatever stands before a call that had been made by then is older.
EvidenceIsNew ==
    \A r \in Run, s \in Step : LET run == index.runs[r] IN
       Passed(run, s) => \A e \in run.steps[s].evidence : run.steps[s].named < e.at

\* Once the user's message has been dealt with, no run is under way that was
\* not started or resumed by a call made in the knowledge of that message,
\* however long the call waited for the host and for the lock.
ResumedKnowingly ==
    \A r \in Run : index.runs[r].status = "running" => opened[r] >= heard

\* What the runtime stores it also accepts when it reads it again: the
\* assertions of #index.
IndexIsAccepted == Accepted(index)
=============================================================================
