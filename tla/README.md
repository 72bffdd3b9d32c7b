# A formal model of opencode-for-everything

This directory holds TLA+ models of the plugin's core: what it promises when
several Agents, commands, Sessions and plugin instances act at the same time.
The models are translated from the source; each definition's place in the code
is in `PROJECT.json` under `map`.

## 1. The system

The plugin runs inside an OpenCode server, one plugin instance per project
directory and per load. It gives Agents tools to start other Agents and shell
commands as *Background Tasks*, to watch, steer, cancel and resume them, to
delegate synchronously, and to run a *Workflow* step by step. All state lives
in the JavaScript heap of one process, in Session records kept by the host,
and in files below the user's configuration directory.

Concurrency is that of one JavaScript event loop: a callback runs to its end,
and everything interleaves at `await`, in timers, in microtasks and in host
events. Several plugin instances (*facades*) in one process share locks and
scheduler slots. The process may crash and restart at any `await`.

### Inventory

| Component | State | Operations | Hard behaviour | What makes it correct |
|---|---|---|---|---|
| Scope locks `runtime/scope-locks.mjs` | forest of locks, queue of waiters, per process | acquire, abort, restore, release, clear | release order of nested locks, a waiter whose authority went, recovery over a conflict | write exclusion between unrelated tasks, delegated authority, no lost wake-up |
| Scheduler `runtime/background-task-scheduler.mjs` | lanes (active, queued), entries (owner, claimants), microtasks | enqueue, restoreActive, removeQueued, withdraw, release, clear, dispose | hand-over between facades that leave, deferred dispatch, changing limits | slots are used, limits kept, each admitted task reaches a runtime |
| Agent task runtime `runtime/background-task-runtime.mjs` | task records in Session stores, runtime maps, watchers, timers | start, watch, input, steer, resume, cancel, acknowledge, resolve, recover, flush | cancel against completion, revision conflicts, unknown stop, restart between two writes | a terminal status is final, an unconfirmed stop keeps lock and slot, nothing runs twice |
| Task domain `core/background-task-domain.mjs` | none (pure) | status classes, receipts, retention | retention that drops what is still needed | unacknowledged results survive |
| Commands `runtime/command-task-runtime.mjs`, `runtime/command-ledger-store.mjs`, `command-core/*` | ledger database, running processes | start, cancel, recover, dispose, resume | a process whose end is not known after a restart, a group that forks while it is inspected | a command is started once, what is called stopped has stopped |
| Delegation `runtime/delegation-runtime.mjs` | attempts by Session, their records and tombstones, retry timers | delegate, recover, flush, the host's events | abort, answer, event, timer and flush settle one attempt at once | a turn that may be working keeps its lock, the caller is told what the record tells |
| Workflows `core/workflow-*.mjs`, `runtime/workflow-*.mjs` | process record in the Session | start, submit, review, resume, pause, stop | stale revision, evidence of another attempt, the user writes while a call waits | steps complete in order with the evidence of that step, a message of the user interrupts |
| Routing, capability, permissions `core/agent-routing.mjs`, `core/capability-policy.mjs`, `core/permission-rules.mjs` | none (pure) | resolve a delegation target, match a rule | order of rules | a child never gets more than its parent |
| Model fallback `model-fallback.mjs` | none (pure) | candidates after a failure | repeated failure | each model is tried once, the chain ends |
| Session store `runtime/session-store.mjs`, `runtime/serial.mjs` | a queue per Session | read, update | interleaved read-modify-write | no update is lost |
| Lifecycle, events `runtime/lifecycle.mjs`, `runtime/event-pipeline.mjs` | phase, events in flight | run, dispose, resume | event during disposal, disposal that fails | nothing starts after disposal, disposal waits for what runs |
| Receipts and follow-up `adapters/opencode/automatic-task-follow.mjs`, parts of `plugin-hooks.ts` and of the Agent task runtime | receipts in two Sessions, wakeups, continuations, claims of turns | the end of a task, the hook of a message, an idle check, a watch | Session becomes busy while it is decided to wake it, the same receipt by two ways | a result is told, and told once |
| Task views `runtime/task-read-budget.mjs`, `task-*-*.mjs`, `output-limits.mjs` | budget counters | read, trim | budget at its limit | reads end |
| OpenCode adapter `adapters/opencode/plugin-hooks.ts`, `agent-execution-port.mjs` | wiring | hooks | host errors | each host error is classified |
| Configuration `runtime-builder.mjs`, `agent-layout.mjs`, `core/prompt-assembly.mjs`, `core/native-*.mjs`, ... | none after start | read files | none over time | data only |
| Installer `scripts/*.mjs` | files of the user | install, update, remove, roll back | failure between two file writes | all or nothing |
| TUI `tui/*` | view state | render | none | presentation only |

### How the parts interact

* A task runtime asks the **scheduler** for a slot when a task is started. The
  scheduler calls back, at once or in a microtask, when the slot is there; the
  runtime then acquires the task's **scope lock**, waits for it if necessary,
  and sends the prompt through the host.
* A task started by a task is a child: its lock hangs off the parent's lock.
* Every change of a task is written to the owner's Session record through the
  **Session store**, guarded by a revision. Slot and lock are given back only
  after a terminal status is on record.
* When stopping an execution cannot be confirmed, the task keeps its slot and
  its lock. After a restart both are re-established from the record
  (`restoreActive`, `restore`) before new tasks are admitted.
* Disposal of a plugin instance flushes its runtimes, hands its entries to
  another facade if there is one, and fails (so that it can be resumed) when
  something could not be stopped.

## 2. Modules

| Module | Models | Checked by |
|---|---|---|
| `ScopeLocks` | `ScopeLockManager` | `MCScopeLocks` |
| `ScopeLocksProofs` | theorems about `ScopeLocks` | tlapm |
| `TaskScheduler` | `SharedBackgroundTaskScheduler`, its lanes, and the life of its users | `MCTaskScheduler` |
| `TaskSchedulerProofs` | theorems about `TaskScheduler` | tlapm |
| `AgentTask` | one Agent Task of `BackgroundTaskRuntime`, with the execution port and the host | `MCAgentTask` |
| `TaskReceipts` | how the owner of Agent Tasks is told of their ends | `MCInstallation`, `MCTaskReceipts` |
| `TaskReceiptsProofs` | theorems about `TaskReceipts` | tlapm |
| `ExecutionPort` | what the command execution port promises (abstract) | `MCCommandTask`, and as a property by `MCCommandExecution` |
| `CommandExecution` | one execution of the port on Linux | `MCCommandExecution` |
| `CommandTask` | `CommandTaskRuntime` and its ledger, over `ExecutionPort` | `MCCommandTask` |
| `CommandTaskProofs` | theorems about `CommandTask`, and about `CommandExecution` below it with the refinement | tlapm |
| `DelegationAttempt` | one foreground delegation of `DelegationRuntime` | `MCScopeLocks` |
| `DelegationAttemptProofs`, `DelegationAnswerProofs` | theorems about `DelegationAttempt` | tlapm |
| `Workflow` | the runs of `WorkflowRuntime` in one owner Session | `MCWorkflow` |
| `WorkflowProofs` | the theorems about `Workflow` | tlapm |
| `Installation` | the installer's commands and the runtime builder | `MCInstallation` |
| `InstallationProofs` | theorems about `Installation` | tlapm |

Composition. `CommandTask` EXTENDS `ExecutionPort` and uses nothing of an
execution but its actions; `CommandExecution` is shown to implement them, so
that what `CommandTask` shows rests on a promise that is itself checked and
proved. `AgentTask` takes admission and the lock as given by `TaskScheduler`
and `ScopeLocks`; `TaskReceipts` starts where `AgentTask` ends, at the terminal
record.

Two MC modules hold the instances of two components side by side:
`MCScopeLocks` those of `ScopeLocks` and `DelegationAttempt`, `MCInstallation`
those of `Installation` and `TaskReceipts`. A variable `about`, chosen at the
start, says which of the two a behaviour is about; the other component stands
still. Nothing is composed there, it saves runs.

Conventions. In `ScopeLocks` and `TaskScheduler` an action is one synchronous
stretch of the program. Where a call contains a loop, the loop is spelled out
one turn a step, the loop's position is a variable, and every other action
waits for `Idle`: JavaScript lets nobody else run, so this adds no interleaving
but keeps each definition flat. In the other modules an action is the code from
one `await` to the next, in `Installation` (synchronous code, but a process
that can be killed) one change of the file tree.
Some definitions are deliberate mistakes that stand before the definition they
distort (headed `Slip:`, or named for the mistake, such as `NeverStale` before
`Stale`); nothing uses them, except to show that a property would notice.
`Init`, `Next`, `Spec` and `vars` carry the component's name in
`DelegationAttempt` (`AttemptNext`) and `Installation` (`InstallNext`).

### ScopeLocks

`nodes`, `scopesOf`, `owned`, `parentOf` and `childrenOf` are the fields of the
entries of `#locks`; `waiters` is `#waiters`. `dropping` and `draining` are the
positions of the loops of `#dropUnowned` and `#drain`. `forced` is a history
variable: the nodes recovery established over a conflict.

Scopes are abstract: a set `Path` with an order `Within` that stands for
`inside` after normalisation, and the scope `*`. `{}` is a read. Normalisation
itself (symbolic links, a leaf that does not exist yet) is not modelled, nor is
an aborted signal that never reaches the queue: neither changes the table.

### TaskScheduler

`active`, `queued` and `limits` are the lanes; `owner`, `claims` and
`scheduled` are the entries; `microtasks` is what `queueMicrotask` holds.
`phase` follows the runtime that owns a facade: *serving*, *stopping* (it is
the last facade and is cancelling what runs), *paused* (its facade is cleared;
it is disposed of or, when disposal failed, resumed), *closed*. `served` and
`stripped` are history: which runtime was told to run an active task, and which
task was released while still queued, so that its entry is gone.

`Heirs` leaves open which facade inherits an entry when no other claims it: the
code takes the first by identity, and identities are random.

### AgentTask

One Task, from the record `create` leaves behind to its end, whatever happens
to it on the way. `mem` is `task.record`, `store` what the Session metadata
holds: the record (the *ledger*) and the delegation written with it. `slot` is
the Task's place in the scheduler, `lock` is `task.lockAcquired`; the scheduler
and the lock table themselves are the other two modules, here a queued Task may
be admitted and a wanted lock granted at any time.

*Workers.* An operation of the runtime is a worker: the dispatch (`run`), the
handler of host events (`event`, one at a time, from a FIFO queue: an event is
removed when its handler returns and stays when it throws), an inspection of
`watch`, a cancellation, and the resolution of a retry, or recovery. `work[w].pc`
says what it awaits, so what it read before the `await` can be out of date
after it.

*Transitions.* `#setStatus` calls of a Task are serialised by a chain of
promises: `lane` is that chain. The head refuses the transition
(`Refuse`, `RefuseRevision`, `Conflict`) or writes the record (`Write`) and
then accepts it (`Accept`) or, when a newer observation arrived meanwhile,
takes it back (`Restore`). A completion has three writes: the ledger as
`settling`, the delegation (`Report`), the ledger as `completed`; `Unsettle`
and `Revert` undo them.

*Claims.* An inspection captures the revision, the attempt and the observation
epoch and compares them later. All three only grow and are only compared for
equality, so `work[w].fresh` holds the parts that still agree, and whoever
moves one on removes it from the claims of the others. That keeps unbounded
counters out of the model and loses nothing.

*Stages.* `interrupted` and `errored` are the two forms of
`waiting_retry_decision`; `settling` is `running` with the detail
completion-settling; `unknown` and `unproven` are the status
unknown in a phase a busy event can clear, and in the others. `live` is the phase of the live attempt: prompted and not yet seen
active (`awaiting`), active, or none.

*The host* is external: a turn is sent, accepted or refused, busy, and ends
with a result, an error or nothing. The host publishes busy and idle events
and leaves idle Sessions out of its status map, so that a Session not listed
may be one whose turn has not begun. `HostPrompted` is somebody else's prompt
in the Session. `Crash` loses everything but `store`; `Restart` loads the
record and inspects it.

Merged: the last check for a cancellation and the request that starts the
turn, between which the code has one `await` of a promise that is resolved
already (`background-task-runtime.mjs:2622`). An inspection waits until the lane
is empty, where the code waits for what was in it at the time of the call.

Left out: waits for permissions and questions, restart with a second Session,
nested Tasks, inputs, deleted Sessions, the quarantine of a Task whose
authorization changed, the suspension of dispatch, disposal; receipts are the
subject of `TaskReceipts`.

### TaskReceipts

`rec` is the receipt in the task's Session, `ref` its copy in the owner
Session, `enabled` the owner's switch. The host's part is the transcript
(`thread`, `says`, `answered`, `posted`, `written`) and the turn it serves. The
rest is the heap of the plugin: `notice` the pending notifications with their
timers, `wake`, `timer` and `conts` the wakeups and continuations, `claim`,
`epoch` and `given` the turns of the user, `follow` the suppression and the
counters of the automatic follow-up.

Three operations report a receipt. The `chat.message` hook (`Hook...`) marks
pending receipts as delivered to the message and puts them into its text. A
check (`Check...`), made when the Session is idle, chooses receipts, addresses
a message, marks them, creates the continuation under the shared continuation
lock, and submits it under the submission lock; each step looks again at what the last
`await` may have changed. A watch (`Watch...`) takes, records and copies
receipts before it returns them. `ProcessEvent` handles the host's events one
at a time, `Restart` loses everything but the two Sessions and the transcript.

History: what a watch has returned, what it took and failed with
(`forfeited`), receipts whose delivery or acknowledgement went astray
(`strayed`: the message failed in the hook, its turn was settled before the hook
had marked or the host had the message, a restart lost the message, or a watch
took the receipt while it was being delivered again), and receipts filed under a message whose text does not name them (`misfiled`): a
text is written once, when the host gets the message, and later receipts may be
marked as delivered to it, or may have been marked before.

A receipt and its copy are written in two `await`s where they are acknowledged
and marked; the model makes one step of both, and a failure of the second,
which the code swallows, is not in it. The clock is taken to move on between
two deliveries, so that the guards against an older one, or one of the same
millisecond (`plugin-hooks.ts:1027-1028`), have nothing to refuse.

### ExecutionPort and CommandExecution

`ExecutionPort` keeps per execution the process in the operating system, what
`snapshot()` shows, what `done` was resolved with and whether a stop is not yet
answered. Its one promise of weight is in `Settle`: a snapshot says stopped
only of a process group that does not run.

`CommandExecution` is how the port comes to say so. A group of processes forks,
ends and is reaped at any time; `inspectGroup` reads `/proc` one entry after
the other (`Inspect`, `ReadEntry`, `Census`) while the group changes, and
concludes only from two censuses that agree. `pc` is where `settle` and
`stopGroup` stand between their awaits; `Spawn...`, `Exit`, `PipesEnd`,
`StreamError`, `LogFails`, `Timeout` and `Cancel` are the callbacks that meet
there. `Reuse` gives the group's number to somebody else, also between the last
look at the group (`scan.aimed`) and the call of `kill` (`Signal`). Killing is no
action of its own: a process may end whether it was signalled or not, what a
signal adds is whom it hits (`stray`). `slipped` remembers that the number was
given away in that window. A `kill` that fails is answered with `FALSE`:
`processTree.stop` catches the error itself (`process-tree.mjs:43`), so that the
`catch` around it (`command-execution-port.mjs:377`) has nothing to do on Linux.

### CommandTask

`ledger` is the status of each row, `mem`, `ahead`, `pending` and `flag` are
the fields of an entry, `lane` is the serial queue of the owner with the jobs
start, dispatch, settle, recover and cancel, each cut at its awaits. `stopper`
holds the calls that work from outside of the queue: `cancel` of the tool,
`cancelKnown`, `cancelOwned`, `dispose` and `resume`. A write may be refused,
may commit and be answered, or commit and be lost; `Crash` starts a new process
over the same ledger while what the old one started lives on; `Foreign` is
another process that recovers the owner.

The statuses name what the code decides by: `stopped`, `cancelled` and
`interrupted` are safe, `running`, `unknown` and `missing` (unknown with the
phase handle-missing) may be running.

Where the code enqueues one job per command in a loop (`#admit`, the
cancellations of a stop), nothing comes between these jobs in the queue; the
model keeps them as one entry of `lane` with the commands still to be served
(`todo`), and serves one command a step.

### DelegationAttempt

One call of `delegate` (`call`), the attempt in memory (`att`), its record in
the child Session or in a tombstone (`rec`), the lock, the turn in the host.
`work` holds the coroutines: the call, its abort handler, event handling,
flush, recovery, three retry timers, and the five promises an attempt keeps so
that a second caller awaits the first (settlement, active evidence,
cancellation fence, tombstone, shutdown). What `await` gives back may be out of
date: `fresh` says whether the inspection is still the newest. Recovery reads the
record, then restores the lock (`RecoverRead`, `RecoverLocks`); what happens
between the two can leave it with a record that is old.

### Workflow

`index` is the stored index: the active run and, per run, its checkpoint
(revision, status, boundary, steps, submissions). A call (`calls`) captures the
user epoch, waits in `line` for the lock of the owner, reads index and
transcript, and saves. `Agent` is everything else the main Agent does: messages,
tasks that are created, settle and are resumed, and the tool parts (`works`)
that serve as evidence. A message of the user passes three moments: the hook
advances the epoch, `Reconcile` marks the run interrupted, `UserStored` puts it
into the transcript.

Evidence is what the transcript shows: a part stands between the begin of the
attempt and its report, and, for a result, the task's ledger still agrees. The
id of an attempt, or of a run, is drawn when its begin is saved: `named` says
which calls were made too early to know it. Revisions, in contrast, can be
guessed ahead.

### Installation

`disk` are the configuration directories (`.o4e`, backups, staging), `files`
the runtime root with the registrations, `archive` an exported configuration,
`site` what kind of target it is. A command (`run`) goes through its steps
(`pc`, `todo`): preparation, copying, the build with its plan and write order,
registration, roll-back in its order, and the `finally` blocks. A file's
content is the set of what it holds: something of the user, a row, a generated
version. Any step may fail, the process may be killed between and inside steps
(`Halfway`), and somebody else may edit `tui.json` meanwhile.

Only renaming is atomic. A file that is written in place can be cut short by a
kill or a full disk (`"cut"`), and one can edit `tui.json` between the last
comparison and the write (`tui-registration.mjs:91-93`; `RewriteTui`). A model
edit works on copies of the edited files in the temporary directory of the
system. Uninstalling writes the global registry without the user's comments
(`"note"`). Removing a temporary directory at the end is taken to succeed.

## 3. Runs

| Run | Instance | Question |
|---|---|---|
| `locks_delegation` | the table: 3 owners, writes of 2 nested paths, 2 waiters; or 1 delegation with 2 troubles | the properties of the lock table, and the sweep over a queue that closes up; lock, record and answer of one attempt |
| `scheduler` | 2 facades with different limits, 2 tasks in 1 lane, 2 microtasks, 1 resumption; fairness | admission, hand-over, limits, dispatch in the end |
| `agent_live` | dispatch and watch, with either host events and a foreign prompt or a cancellation; 1 turn; fairness | what an overtaken inspection leaves, that a cancellation ends, that slot and lock come back |
| `agent_cancel` | dispatch and events, with either a cancellation or a resolution; 2 turns, 1 failed call or 1 crash | cancellation and continuation at each point of a dispatch |
| `agent_settle_race` | dispatch, events, watch; 1 turn | a violation, see *Findings* |
| `command_execution` | a shell and 2 children, 2 cancellations; fairness | a reported stop is one, and the port keeps its promise |
| `commands` | 2 commands, 1 slot, one kind of stopper per behaviour (or dispose and resume), 1 trouble; fairness | what record, slot and process say of each other |
| `installer_receipts` | the installer: 2 commands one after the other, 2 troubles; or the receipts of an owner in four instances, see below | what is left when a command fails or is killed; how a receipt is lost, and that nothing is told twice |
| `receipts_loss` | 2 tasks, automatic continuations only, nothing fails | a violation, see *Findings* |
| `workflows` | 2 steps (create a task, use its result), 1 run, 2 calls in flight, 5 calls (4 with a second user message, `InTime`), 2 user messages, 2 pieces of evidence | evidence and interruption |
| `workflow_evidence` | the same with 1 user message, 4 calls, 1 piece of evidence | a violation, see *Findings* |
| `workflow_index` | the same with 2 runs, 1 call at a time, 4 calls, 1 piece of evidence | a violation, see *Findings* |

Bounds. `MaxWaiters` bounds the queue of waiters: one shows every conflict, two
show a sweep that removes an entry before another. Three owners give a parent,
a child and a stranger; they are symmetric because the code compares identities
for equality only. `MaxMicrotasks` bounds the dispatches under way; calls wait
while as many are pending. With two of them any call (a release, a flush, the
departure of a facade) may come between an admission and its microtask. `MaxResumes` bounds the failed
disposals. More tasks and several lanes are the matter of the theorems, which hold
for any number of them.

In `AgentTask`, `MaxTurns` bounds the turns of the Task: two give a late answer
or event of the turn before. `MaxFaults` bounds failed calls of the store and
the host, `MaxCrashes` the restarts, `MaxPrompts` the prompts of others. One
of each is where the code is written to stand its ground: every failure is
met at each `await` and followed by everything the rest of the system can do.
`MCAgentTask` lets the dispatch meet one other actor per behaviour (`visitor`),
and either a fault or a crash (`OneOfEach`). Both in one behaviour were checked
too, with the same result (1.3 million states); the run keeps them apart to
stay short.

`MCTaskReceipts` describes four small instances of one task or two: with one
task whose fellow's receipt was read before, a watch, a message of the
user, or a failed call or restart is left out in turn, so that each pair of
them meets; and two tasks meet automatic continuations only (the instance of
`receipts_loss`). The limits of attempts and failures (3 and more in the code) are 2 and 1, so that they are reached.

In `CommandExecution` two children besides the leader are what it takes for one
to be forked while the other is being read. In `CommandTask` two commands over
one slot make one wait for the other; `Calls` lists which stoppers a behaviour
may use. The troubles of `CommandTask` (a failed read or write, a death, a
recovery elsewhere), of `DelegationAttempt` (a failed call, an abort, a flush, a
deletion, a crash, a second recovery) and of `Installation` (a failed step, a
kill, a foreign edit) may each happen at any point. Two commands of the installer show
what the second does with what the first left. Two steps of a workflow
show evidence taken over from one step to the next, and a repair; two messages
of the user one that comes while the other is being dealt with.

The runs allow deadlock: once every facade is closed, a Task or delegation is
over, an execution settled, or a bound used up, nothing happens any more.

Fairness (`FairSpec` of `TaskScheduler`). A call runs to its end (`WF` on
`Finish`): JavaScript does not pre-empt. A queued microtask runs (`SF`,
because the guard `Idle` comes and goes with calls). A runtime that has begun
to flush, or is paused, winds down or is resumed (`SF` on `WindDown`): its
waits are bounded by timers. Nothing is assumed about the operations of users.

Fairness (`VisitedSpec` of `MCAgentTask`). The runtime goes on with what it has
begun and every call of the store and of the host is answered (`WF` on the
steps of each worker); queued events are handled, an admitted Task is run, and
admission comes (what `TaskScheduler` shows). The host begins the turns it
accepted and ends those it began. The owner goes on watching a Task that is
not over: without that nobody would inspect a Task whose last event was lost,
and the code has no timer of its own for it. Cancelling, resolving,
and the prompts of others are not assumed to happen; the run has no faults and
no crashes.

Fairness (`ExecLiveSpec` of `CommandExecution`). Node runs the microtask that
spawns, goes on with `settle`, delivers the error of a child without a number
and fires the deadline. Nothing is assumed of the processes: they may run for
ever, ignore signals or fork.

Fairness (`LiveSpec` of `CommandTask`). The event loop runs what is ready,
questions for permission are answered, and the port settles what it was asked
to stop or what has reached its deadline, which is what `StopAnswered`
shows. Nothing is assumed about the callers.

### What the properties say

* `Forest`: the lock table describes one acyclic forest; a released lock stays
  as long as an owned lock below it needs it.
* `DelegatedAuthority`: a nested lock never exceeds its parent. (Proved
  besides: `LockIsStable` and `NoLateDescendant`, a lock is never moved or
  narrowed, and never newly granted below an ancestor that has been released.)
* `WriteExclusion`: unrelated locks do not overlap, except those recovery was
  told to force.
* `NoLostWakeup`: between calls, whoever waits has someone to wait for.
* `EntriesInHand`: a scheduler entry is owned and claimed by live facades only.
* `WorkConserving`: between calls no task is queued before a free slot.
* `StrictestLimit`: a lane grows only up to the strictest limit of the live
  facades, recovery excepted.
* `NoLostDispatch`, `EventuallyDispatched`: an admitted task has a runtime, or
  a microtask on the way to one, or a claimant that will hand it over; in the
  end it is dispatched.
* `Covered`: while the host has a turn in hand, the Task has its slot and its
  lock, whatever its record says.
* `ClosedTurnIsOver`: the ledger calls a Task over, or asks for a decision on
  it, only when the host has nothing of it in hand, though an unlisted Session
  may be one that has not begun.
* `FinishedForGood`, `OvertakenEndsNothing`: an end stays, except one whose
  inspection was overtaken by a newer observation: that one is always undone.
  The other exception (`Misremembered`) is an end whose report failed: memory has
  the Task as unproven from then on, and a later inspection goes by that.
* `SentOnce`, `NoStartAfterCancel`: no turn is sent twice, none after the
  cancellation, whatever failed or crashed in between.
* `CancelSticks`: the cancellation the ledger holds survives late results,
  retries and restarts. It excepts the moment in which a transition that first
  wrote the mark may still be undone together with it.
* `DelegationAgrees`: when nobody reports any more, the delegation and the
  ledger tell the same outcome. (Of a Task whose calls are all answered: the run
  has no faults.)
* `SlotComesBack`, `CancelEnds`: a Task that is over returns slot and lock, and
  a cancellation ends. That the other holders of the lanes and locks give theirs
  back is assumed.
* `AckedWasRead`: a receipt is acknowledged only when the Agent has read it or a
  watch is about to return it. It fails, see *Findings*. `NoThirdLoss`: there
  are two ways to lose a receipt, and no other. `NotToldTwice`: the host is given
  no new automatic message about a receipt the Agent has read. The exceptions
  are in the history variables, see *Observations*.
* `StoppedIsGone`: an execution that is reported stopped has no process left,
  and none is still to be spawned. `NoStraySignal`: a signal goes to a stranger
  only when the number of our group was given away after the last look at it;
  the code claims to narrow that race, not to exclude it
  (`command-execution-port.mjs:351`). `StopAnswered`: every request to stop is
  answered. `ImplementsPort`: each step is one of `ExecutionPort`, or none.
* `SafeIsStopped`, `SlotHeld`: what the ledger calls safe does not run and will
  not be spawned; a command that runs keeps its slot whatever was lost of its
  record. `DisposedIsSettled`: a disposal that succeeded left nothing behind.
  `StartedOnce`: a command is started once, with its claim on record, through
  retries, recoveries and resumptions. `ComesToRest`: the queue of the owner
  runs empty and a launch does not wait for ever.
* `LockCovers`: while the child's turn may be working its scopes stay locked.
  `FlushedIsSettled`: a flush that returns left no attempt and no lock, whatever
  had happened before it, and none comes back except through a recovery that is
  under way at its return or begins later, or through a timer that brings an
  attempt back then (`meddled`).
  `AnswerOnRecord`: the caller hears of a completion when the record has it.
* `OriginalKept`: the only copy of the user's configuration is never given up.
  (A model edit that is killed leaves what it has edited in its temporary copies.)
  `AllOrNothing`: an install, import or export that reports a failure, and no
  failed roll-back, changed nothing, except that a new Agent file whose own
  writing was cut by the failure stays.
  `RegisteredIsThere`: no registration names a missing file. It says nothing any
  more after a roll-back that was broken off (`torn`). `OwnKept`: what is the
  user's outlives every step, but for two windows: a file that is cut while
  it is written in place, and an edit of `tui.json` between the last comparison
  and the write. The comments in the global registry are not covered: an
  uninstall drops them.
* `PassedInOrder`: in the transcript, a passed step's evidence stands between the
  begin and the report of its attempt; it bears on the task its dependency
  created, and the report follows those of the dependencies. `EvidenceIsNew`: the
  evidence was completed after the attempt began. It fails, see *Findings*.
  `ResumedKnowingly`: after a message of
  the user no run is under way that was not resumed in its knowledge.

### Findings

`agent_settle_race` shows a completion that loses its slot and its lock although it is
taken back. `startTurn` is answered late; meanwhile the turn has ended and an
inspection is completing the Task. The completed record is written, and a
`busy` event arrives: the inspection has to undo it. Before it does, the
dispatch goes on (`Started`, `background-task-runtime.mjs:2645-2646`), reads a
terminal record, and calls `#releaseTerminal`. The record then returns to
`running`, and the Task runs on uncovered. `SPEC.md:167` (BGT-009) promises
that concurrent busy evidence keeps admission and lock.

`workflow_index` shows `pause` and `stop` of a run that is *not* the active one
taking the binding away from the run that is (`workflow-runtime.mjs:285` clears
`activeRunID` whichever run was named). The index it stores is one that
`#index` refuses (line 63), so that every later call and every later message of
the user throws `INVALID_INDEX`.

`workflow_evidence` shows a step that passes on evidence older than its attempt.
The call that begins the step is made; while it waits for the lock another tool
part is completed; then the begin is saved, and a report with that part as
evidence passes. `before` (`workflow-evidence.mjs:97-101`) compares places in the
transcript, and the call stands before the part, though the attempt does not.
`SPEC.md:366` asks for parts completed after the current attempt began.

`receipts_loss` shows a receipt that is acknowledged unread, with two Tasks and
nothing that fails. A continuation has been written about the first receipt
when the second ends; the check marks the second as delivered to the
message that exists already (`plugin-hooks.ts:1872-1878`), and the answer to it
acknowledges both. `SPEC.md:166` (BGT-008) and
`docs/reference/configuration.md:280` promise delivery at least once.

### Observations

Met while modelling; they are not findings, since no run shows them or no
document says otherwise.

* Agent Task. A Task cancelled before its turn was seen active stays
  `cancelling` when that turn stops unseen, until the process restarts (hence
  the condition on `live` in `CancelEnds`). When the write of a completion and
  the read that verifies it both fail, the Task is over in the ledger while its
  slot and lock stay taken until the runtime is loaded again. When two calls
  fail, a Task that is over in the ledger and unproven in memory can be finished
  again, in another way (`Misremembered`). A `busy` event of a turn that is over,
  handled only after the next turn was sent (`background-task-runtime.mjs:2363`), is
  taken for evidence of the next one; an inspection may then close a turn the
  host has yet to begin. That takes events, a resolution and an inspection in
  one behaviour, which the runs do not have together.
* Receipts. A receipt is filed under a message that does not name it, and
  acknowledged unread, in a second way (`misfiled`), with a failed call: the hook
  has marked two receipts as delivered to a message when it fails; a check that
  finds one of them only takes the message's identifier over and submits it with a
  text about that one; its answer acknowledges both.
  A captured retry empties a check: a second receipt's wakeup is dropped until
  the next message of the user or a restart (`plugin-hooks.ts:1812-1817`). A
  hook that fails after it has marked leaves receipts on a message that never
  tells them; they are told again (`strayed`). An acknowledgement of several
  receipts that fails half-way forfeits some (`forfeited`).
  There are more ways to be told twice. TLC found the first when the bounds of
  the run were raised (two messages of the user and one failure): an error event
  carries the epoch the user's turns have when it arrives (`plugin-hooks.ts:2970-2972`),
  and when it is processed (`2302`) `clearOwnedUserTurnsThrough` drops the claim of a message
  whose `chat.message` hook still runs. A check that starts then finds no turn of
  the user; it has read the pending receipts before the hook marks them, and
  submits them in a continuation of its own. The proof needed the others: a
  delivery that overtakes a watch between its acknowledgement and its return
  (`markReceiptsDelivered` takes the receipt up again); a receipt consumed between the
  last read of the check and the continuation it goes into (`1927-1988`); and a
  restart that loses a message its receipts were delivered to, before it was stored.
  `strayed` names the receipts of each.
* Commands. `resume` dispatches every entry, and `disposePending` is never
  reset (`command-task-runtime.mjs:650`, `701`).
* Delegation. An undispatched attempt whose cancel is not acknowledged sets no
  timer (`delegation-runtime.mjs:1036-1057`); a newer inspection that replaces
  `pendingInspection` sets none either (2049-2056). A recovery under way when
  flush returns brings attempt and lock back. So does the settlement timer:
  `flush` does not wait for it. While it awaits
  `cancelTurn` in `#handleMissingUncertainAttempt`, the event of the deleted
  Session settles the attempt; the timer then takes the lock again and
  remembers an attempt that is over (1863-1883), after the flush too. It takes
  three disturbances, and was found when `FlushedIsSettled` would not be
  proved; `meddled` records both.
* Commands. A comment (`command-execution-port.mjs:351`) says that PID reuse is
  narrowed, not excluded; `NoStraySignal` says how far.
* Installer. A global registry with comments passes the preflight, but the
  strict parser of `installGlobalPlugin` refuses it. A model edit whose own write
  fails has no originals left (`model-config.mjs:194`; `OriginalKept` excepts
  it). When the disk is full while a new Agent file is written, the roll-back does
  not know the stump for its own and leaves it. An uninstall drops the
  comments in the global registry (`global-plugin-registry.mjs:83`).
* Workflow. A passed step whose task is resumed later no longer verifies: every
  call on the run fails, `stop` included, while the run stays bound.
  The case of `workflow_evidence` has a worse form. Of two calls in one message,
  `begin` of a step and the `report` of what it depends on, the second may get
  the lock first. A tool part between the two then serves as evidence for both
  steps. (TLC finds this with two calls in flight.)

## 4. Proofs

`ScopeLocksProofs` proves, for every set of owners and paths, every containment
order and every queue length, that `TypeOK`, `Forest`, `DelegatedAuthority`,
`WriteExclusion`, `NoLostWakeup`, `LockIsStable` and `NoLateDescendant` hold of
`Spec`. The only assumption is `ScopeLocksAssumption`: `Within` is a preorder on paths, `*` and
`None` are none of the paths and owners.

The inductive invariant is `IInv`. `NoLostWakeup` is not inductive: in the
middle of a sweep it fails for the waiters not yet reached. `WaitersBlocked`
says it for those the sweep has passed, and needs that a waiter's parent still
exists, since conflicts depend on the parent's ancestors. Write exclusion needs
`Forest`, because kinship is defined along parent links, and `Forest` needs
that a node is deleted only without children. Kinship is a transitive closure,
defined as the least set closed upwards so that no recursion is needed; lemmas
state how a new leaf and the removal of a leaf change it.

`TaskSchedulerProofs` proves every safety property of the scheduler, for any
number of facades, lanes and microtasks, any finite set of tasks and any
limits (`TaskSchedulerAssumption`, `NoneAssumption`): `EntriesInHand`,
`StrictestLimit`, `WorkConserving` and `NoLostDispatch`. Three invariants
build on each other. `IInv` joins types, `InHand` (`EntriesInHand` task by task)
and `LimitsStrict`: the limits are no looser than any live facade's, which
suffices for `StrictestLimit`. Work conservation needs more: `CInv` adds that the limits
are exactly the strictest ones (else a slot is free that nobody counts), that
nothing is queued without a facade, and, in the middle of a call, that a lane
with a waiting task and a free slot is among those still to be drained.
`NoLostDispatch` fails in the middle of a call, too: `DInv` says instead that a
task just admitted or handed over is in the hands of the call that runs, and
that an entry counts as scheduled only while a microtask carries it.

The last part of `CommandTaskProofs` is about the execution below the port,
`CommandExecution`. It proves for any set of children and any number of
cancellations that `TypeOK`, `StoppedIsGone`, `NoStraySignal` and
`ImplementsPort` hold (`CommandExecutionAssumption`: the leader is none of the
children). The heart of `ExecIInv` is `CensusRight`: whoever was read and was not
found alive is not running any more, although the group forks meanwhile; with
`FoundRight` (a group found gone stays gone) it follows that a reported stop is
one. The refinement takes each action to a step of `ExecutionPort` under the
mapping at the end of `CommandExecution`, or to a stutter. It is about steps:
the initial state of an execution is the port after `Claim`, which is why
`ImplementsPort` is `[][PortNext]` and not `PortSpec`. `SignalsAreOurs`
(`NoStraySignal`) rests on this: an inspection that ends with leave to signal has
compared the start time after the census, so that the number was ours then, and
whoever got it later got it under the aimed signal.

`CommandTaskProofs` proves `SafeIsStopped`, `SlotHeld`, `DisposedIsSettled` and
`StartedOnce` for any number of commands, slots, calls, starts and troubles
(`CommandTaskAssumption`: the bounds are numbers, and the executions of the port
are those of the commands). None of the four is inductive: a safe row is true
because of what every job still in the queue is about. `IInv` says so of a
state `s` that a job works on and of the world around it, so that an operator
that makes one state of another can be reasoned about on its own:

* `Row`: what the runtime knows of a command is what the row says, or older by
  writes whose answer was lost (`ahead`), and in the direction that is harmless;
  a claimed command has its slot. `Truth`: the row is true of the execution.
* `LaneRight`: every waiting job may still run. A command waits in one dispatch at
  most, was never started and has its slot (`Waiting`); `HeadRight` says what the
  job at the head has established at each of its awaits.
* `Fence`: a closed runtime launches nothing, and before a resumption gets
  its turn there is neither a start nor a launch left. `Single`: a disposal has one
  recovery under way. `DisposalRight`: a disposal that cancels knows every row.
* `WorldRight` and `StopperRight`: a process is of a command that was started; a
  call that waits for a handle knows its command.

The lemmas say of each operator (`Write`, `Release`, `Admit`, `Taken`, `Settled`
...) that it keeps `Good`, and a relation `Later` what it may change that others
rely on; then there is one `Step` lemma per action. `StartedOnce` follows
because only `Submit` starts anything, and its job has a claim on record. A by-product of
`Fence`: the `#admit` at the end of `resume` never admits anything, since
the disposal before it has dropped every launch.

`WorkflowProofs` proves `ResumedKnowingly` for every workflow, any number of
runs, of calls in flight and of messages, and whatever evidence is offered
(`NoneAssumption`: `None` is no number and no slot). A call cannot get past the
epoch check once the user has written, and that alone would not do: the hook
leaves the active run alone when it is bound to the very message that arrives.
`IInv` shows that this never happens for a message that is new. Runs and calls
are bound to messages the host has stored (`CallsRight`, `RunsRight`), and the
one in the hook is the only one it has not (`MessagesInOrder`); `EpochsInOrder`
says that nothing was dealt with that is still to come. That a run other than
the active one is under way is excluded by the assertions of `#index`, which
the hook evaluates first; an index that fails them stops the hook, and then no
message has been dealt with.

The second invariant, `WorkRight`, gives `PassedInOrder`, from
`NormalWorkflow` (dependencies are steps, and a task is taken over from a direct
dependency). A report is checked against the state it leads to (`Checkpoint`,
`Provenance`), and that settles the step it is about. The proof is about all
that is *not* checked then: `begin` saves without looking, every other report
leaves the passed steps standing, and what was checked is true of the index
that is saved because who is about to save holds the lock (`CallsWork`,
`Prepared`). That a step's report follows those it depends on is not checked
anywhere. It holds because a report names its attempt, the attempt is named when
its begin is saved (`named`), and by then the dependencies had been reported
(`Attempts`, `Earned`).

`InstallationProofs` proves every property of the installer, `OriginalKept`,
`AllOrNothing`, `RegisteredIsThere` and `OwnKept`, for any number of commands
and of troubles (`InstallationAssumption`: the two bounds are numbers, and at
least one command may run). `IInv` has two halves. `ConfigurationRight` says
where a command that runs has put what it found (`Original`: in `.o4e` until it
is moved or overwritten, in the backup of this very command from then on), and
where the configuration of an earlier, broken command lies (`PreciousKept`: in
a directory with an earlier number, which nothing removes). `FilesRight` says
what the builder may have done to the files of the snapshot (`Disturbed`, a file
cut short included), what
a roll-back that is half way has still to restore (`Restoring`), and that the
removal uninstall has prepared names nothing of the user (`Uninstalling`), with
what it read of `tui.json` when it compared it last.
`AllOrNothing` is about the end of a command and says nothing of its middle:
it needs that nothing between `Disturbed` and the restored files is lost, which
is why `Disturbed` says of each file how far the builder may have changed it.

`TaskReceiptsProofs` proves `NoThirdLoss` (`LossesAreTwo`) for any number of tasks, messages,
continuations, watch calls and failures (`TaskReceiptsAssumption`: receipts are
numbers, the bounds are numbers). `#pendingReceipts` acknowledges by the message
a receipt was delivered to and never looks at the text, so the invariant must
say of every entry of the ledger, acknowledged or not, where it may be filed
(`Entries`, `Places`): under a message the host has not got, under one whose text
names it, or it is one of the `misfiled`. The proof rests on that set being closed
under what the steps do to either side of it: marking (`MarkedIsRight`), merging
(`MergedIsEntry`), the host getting a message (`SubmittedIsRight`) or losing
one it had not stored (`RestartStep`). What is answered is stored for good
(`HostRight`), hence what has been read stays so (`Grows`). `ReadingRight` says
that a reading acknowledges under answered messages only, `WatchRight` that a
watch holds receipts only between taking and returning them.

It also proves `NotToldTwice`, over a second invariant `JInv` beside the first.
A check reads, marks, creates and submits in steps of its own, so what must be
kept is that the receipts it goes with have not been told of by another message:
`AimRight` says so (`Shown`: what the texts of all messages but its own tell,
that of the hook under way included) for a check that no turn of the user has
disturbed. It is not inductive. A receipt may be in a continuation that the check
takes up again, and have been delivered elsewhere meanwhile; `BunchRight` therefore
says of the receipts that were delivered to one message together (`Together`) that
with one of them told elsewhere all of them have left for elsewhere or are
acknowledged, which needs that a hook that delivers takes all a check may offer
(`OfferRight`). What is told of is acknowledged or lies with a message that is
on its way (`ShownRight`, `Placed`); what a watch has returned is acknowledged and
in no continuation (`ReturnedRight`, `ContRight`, `GotRight`); a check at work without a
turn of the user means there is none (`EpochRight`); and an identifier the user's
next message will get is referred to by nothing (`BornRight`). Each step is shown to
lose no delivery (`Tame`) and, but for the hook and the check's prompt, to tell
of nothing new (`Hushed`). The attempt is what made `strayed` precise: without its
five other clauses the statement is false, see *Observations*.

`DelegationAttemptProofs` proves `LockCovers` and `FlushedIsSettled`, and
`DelegationAnswerProofs` `AnswerOnRecord`, for any number of disturbances (`DelegationAssumption`: their bound is a number). Thirteen coroutines
share the attempt, and nearly every step may follow every other; the proof
therefore says first, once per action, whom a step touches: `Sound(w)`, a step
of worker `w` moves only `w`, its own promises and, for the rest, whom they
wake. `FlushedIsSettled` then follows from `FlushRight`: a flush that is past
`inflight` has waited for the call and the event handler, and neither is begun
while the runtime quiesces; so nobody is left who could remember an attempt but
a recovery under way and the settlement timer, and `meddled` is true from the
moment either can. What recoveries did before the flush returned is within the
theorem. That the lock goes with the attempt
needs a clause of its own, since a call holds a lock before it has an attempt.

`LockCovers` is far from inductive: the lock goes when a settlement is done,
and any of five inspectors may begin one. `TurnRight` says that while the turn
may be working there is none under way and nothing to begin one with: no
pending inspection, no answer, no terminal record, no missing Session, a record
in the child, the settlement, the tombstone and their timers asleep, and the call at one
of the places of `CallPc`, where what it knows of its turn is `unknown` at
most. It begins with the dispatch, so `DispatchRight` must have it of a call
that was not aborted before, and `EarlyRight` that there was nothing at all
before the child Session. A late idle event of an earlier turn, which would
settle the attempt, cannot be waiting: the host has had no other turn
(`events` holds busy events only).

`AnswerOnRecord` is about a single step, but what makes it true happened long
before: the call awaits a settlement it may not have begun, whose record may
have been read before the answer came and which anyone may overtake. `Hope` is
what holds as long as the call can still be told of a result (`Hopeful`: no
cancellation, no deletion, no other end of the turn). Nothing remembered, read
or written then speaks of another end (`HopeData`), and nobody is where only a
cancellation or a deletion leads (`HopePc`). A settlement that has not been
overtaken when it writes has drafted the answer it is to settle
(`SettlesRight`), and the one the call waits for is that of its answer
(`Owed`). This fails in one case, which is why `Owed` names it: a busy event that
is handled while the call waits discards the pending answer. The wait then ends
with `false` or an error, because what discards the answer overtakes its
settlement too. What the call has been told stays true (`ToldRight`), since the promises of
the process run before the next answer of the store (`Continues`): without that
order, active evidence could be written between the settlement and the call's
reading of it. `HeardRight` ties what the call has heard to the turn,
`FreshRight` shows that `Hope` begins with the dispatch.

Only model-checked: the properties of
`AgentTask` (`DelegationAgrees`, `Covered`, `ClosedTurnIsOver`, `FinishedForGood`,
`OvertakenEndsNothing`, `SentOnce`, `NoStartAfterCancel`, `CancelSticks`), and liveness everywhere
(`EventuallyDispatched`, `SlotComesBack`, `CancelEnds`, `StopAnswered`,
`ComesToRest`), which is out of the prover's reach.

## 5. Not modelled

Of the parts that keep state: `SharedScopeLockManager` (facades over one lock
manager), the two disposal drivers `lifecycle.mjs` and `event-pipeline.mjs`
(the phases they drive are in the modules of the runtimes), and the Session
store, whose revision check and serial updates the modules take for granted:
each access is one step, which may fail or stay unanswered.

Of the modelled runtimes: permission and question waits of an Agent Task, its
inputs, restart with a second Session, nesting, authorization quarantine and
suspension of dispatch; the readers and the second runtime of a directory for
commands, and other systems than Linux; continuation of a settled delegation;
the follow-up of unfinished tasks and its explicit switch, two plugin
instances with one owner, more than twenty unacknowledged receipts.

Pure or presentational, with no behaviour over time: agent routing, capability
and permission rules, the model fallback, task views and the read budget,
validation of records and definitions, configuration and prompts, the tool
definitions of the adapter, the TUI. Their cases are enumerated by unit tests;
a model of them would repeat the code.
