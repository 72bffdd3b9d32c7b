-------------------------- MODULE CommandExecution --------------------------
(***************************************************************************)
(* One execution of the command execution port on Linux                    *)
(* (src/src/command-core/command-execution-port.mjs, process-tree.mjs and  *)
(* output-archive.mjs): a shell and the process group it leads, its two    *)
(* pipes, the log, the deadline, the requests to stop it and the evidence  *)
(* that it has stopped.                                                    *)
(*                                                                         *)
(* A function of the port runs to its end; stopGroup and settle are cut at *)
(* their awaits (pc).  The operating system does not wait: processes fork, *)
(* end and are reaped between any two steps, also while inspectGroup reads *)
(* /proc entry by entry and between its last look at the group and the     *)
(* signal that follows (scan), when no JavaScript runs.  Both pipes are    *)
(* one, the content of the output is left out.                             *)
(***************************************************************************)
EXTENDS Naturals, FiniteSets

CONSTANTS
    Member,     \* processes the shell may start in its group
    MaxAsks     \* bound on cancel requests

ASSUME CommandExecutionAssumption ==
    /\ MaxAsks \in Nat
    /\ "leader" \notin Member

VARIABLES
    launched,   \* launched, and child is there ("child"), or never came ("none")
    group,      \* live members of the process group
    zombies,    \* members that have ended and are not reaped yet
    born,       \* members the group ever had; their numbers are not given again soon
    scan,       \* inspectGroup under way: its census, or the signal it allowed (aimed)
    identity,   \* the start time of the leader was read
    reused,     \* the number of the gone group belongs to somebody else
    exitSeen,   \* the exit event of the leader
    pipes,      \* "open", "ended", "destroyed"
    ioFailed, incomplete, groupGone,
    finished, status, stopped,
    stopping,   \* stop() is not answered yet
    why,        \* the reason settle runs with, cancelled or another
    pc,         \* where settle stands
    confirmed,  \* what stopGroup returned
    deadline,   \* the timer is armed
    outcome,    \* what the done promise was resolved with
    log,        \* [file, error, complete, active]: the output archive
    asks,       \* number of cancel requests
    slipped,    \* history: the number was given away under an aimed signal
    stray       \* history: a signal went to a group that is not ours

child == <<launched, identity, exitSeen, pipes, ioFailed, incomplete>>
result == <<finished, status, stopped, outcome, log>>
control == <<stopping, why, pc, confirmed, deadline, groupGone>>
os == <<group, zombies, born, reused, slipped>>
execVars == <<child, os, scan, result, control, asks, stray>>

Members == {"leader"} \cup Member
Entries == group \cup zombies
NoScan == [on |-> FALSE, aimed |-> FALSE, entries |-> {}, left |-> {}, found |-> FALSE,
           live |-> FALSE, whole |-> TRUE]
SettlePC == {"rest", "term", "termWait", "kill", "killWait", "drain"}

ExecInit ==
    /\ launched = "no" /\ identity = FALSE /\ exitSeen = FALSE
    /\ pipes = "open" /\ ioFailed = FALSE /\ incomplete = FALSE
    /\ group = {} /\ zombies = {} /\ born = {} /\ reused = FALSE /\ scan = NoScan
    /\ finished = FALSE /\ status = "running" /\ stopped = FALSE /\ outcome = "pending"
    /\ \E ok \in BOOLEAN :      \* the log file could be created, or not
         log = [file |-> ok, error |-> ~ok, complete |-> FALSE, active |-> ok]
    /\ stopping = FALSE /\ why = "cancelled" /\ pc = "rest" /\ confirmed = FALSE
    /\ deadline = TRUE /\ groupGone = FALSE
    /\ asks = 0 /\ slipped = FALSE /\ stray = FALSE
-----------------------------------------------------------------------------
(* finish and the archive *)

\* archive.finalize: the log is closed, complete when nothing was lost, and
\* stays protected from the cleanup until the execution has stopped.
Finalized(isStopped, lost) ==
    LET reopened == log.file \/ (isStopped /\ log.active) IN
    [file |-> FALSE,
     error |-> log.error \/ lost,
     complete |-> IF reopened THEN ~lost /\ isStopped /\ ~log.error ELSE log.complete,
     active |-> log.active /\ ~isStopped]

ViewOf(s, isStopped) ==
    IF s = "running" THEN s ELSE IF isStopped THEN "stopped" ELSE "unconfirmed"

\* Slip: only the first finish answers a stop that waits.
FinishFirst(s, isStopped, lost) ==
    IF finished /\ stopped THEN UNCHANGED <<result, stopping, deadline>>
    ELSE /\ finished' = TRUE /\ status' = s /\ stopped' = isStopped
         /\ outcome' = IF finished THEN outcome ELSE ViewOf(s, isStopped)
         /\ log' = Finalized(isStopped, lost)
         /\ stopping' = (stopping /\ finished) /\ deadline' = FALSE

\* finish: only evidence of a stop ends an execution for good.
Finish(s, isStopped, lost) ==
    IF finished /\ stopped THEN UNCHANGED <<result, stopping, deadline>>
    ELSE /\ finished' = TRUE /\ status' = s /\ stopped' = isStopped
         /\ outcome' = IF finished THEN outcome ELSE ViewOf(s, isStopped)
         /\ log' = Finalized(isStopped, lost)
         /\ stopping' = FALSE /\ deadline' = FALSE

\* stop(reason), when no stop is under way and none was confirmed.
Stop(reason) ==
    IF launched = "no"
    THEN /\ Finish(IF reason = "cancelled" THEN "cancelled" ELSE "ended", TRUE, incomplete)
         /\ UNCHANGED <<why, pc>>
    ELSE /\ stopping' = TRUE /\ deadline' = FALSE
         /\ why' = reason /\ pc' = "term"
         /\ UNCHANGED result

MayStop == ~stopping /\ ~(finished /\ stopped)

\* A stop that is ignored while another one runs.
StopOrNot(reason) ==
    IF MayStop THEN Stop(reason) ELSE UNCHANGED <<result, stopping, deadline, why, pc>>
-----------------------------------------------------------------------------
(* The microtask that spawns, and the events of the child *)

\* The shell was stopped, or its time was over, before it was spawned.
SpawnNothing ==
    /\ launched = "no" /\ ~finished
    /\ Stop("timeout")
    /\ UNCHANGED <<child, os, scan, confirmed, groupGone, asks, stray>>

\* spawn throws.
SpawnThrows ==
    /\ launched = "no" /\ ~finished
    /\ launched' = "none"
    /\ Finish("ended", TRUE, incomplete)
    /\ UNCHANGED <<identity, exitSeen, pipes, ioFailed, incomplete, os, scan,
                   why, pc, confirmed, groupGone, asks, stray>>

\* spawn returns a child without a pid; its error event follows.
SpawnWithoutPid ==
    /\ launched = "no" /\ ~finished
    /\ launched' = "nopid"
    /\ UNCHANGED <<identity, exitSeen, pipes, ioFailed, incomplete, os, scan, result,
                   control, asks, stray>>

\* Slip: the microtask does not look whether it was stopped.
SpawnAnyway ==
    /\ launched = "no"
    /\ launched' = "child" /\ group' = {"leader"} /\ identity' = TRUE
    /\ born' = {"leader"}
    /\ UNCHANGED <<exitSeen, pipes, ioFailed, incomplete, zombies, reused, slipped, scan, result,
                   control, asks, stray>>

\* The child runs.  Without its identity in /proc it is stopped at once.
Spawn ==
    /\ launched = "no" /\ ~finished
    /\ launched' = "child" /\ group' = {"leader"}
    /\ \E known \in BOOLEAN :
         /\ identity' = known
         /\ IF known THEN UNCHANGED <<result, stopping, deadline, why, pc>>
            ELSE /\ stopping' = TRUE /\ deadline' = FALSE
                 /\ why' = "identity" /\ pc' = "term"
                 /\ UNCHANGED result
    /\ born' = {"leader"}
    /\ UNCHANGED <<exitSeen, pipes, ioFailed, incomplete, zombies, reused, slipped, scan,
                   confirmed, groupGone, asks, stray>>

\* The error event of a child without pid, or of one that could not be reached.
ErrorWithoutPid ==
    /\ launched = "nopid" /\ ~(finished /\ stopped)
    /\ Finish("ended", TRUE, incomplete)
    /\ UNCHANGED <<child, os, scan, why, pc, confirmed, groupGone, asks, stray>>

ExecutionError ==
    /\ launched = "child" /\ ~finished /\ MayStop
    /\ Stop("execution-error")
    /\ UNCHANGED <<child, os, scan, confirmed, groupGone, asks, stray>>

\* exit: the rest of the group is stopped too.
Exit ==
    /\ launched = "child" /\ "leader" \notin Entries /\ ~exitSeen
    /\ exitSeen' = TRUE
    /\ IF finished THEN UNCHANGED <<result, stopping, deadline, why, pc>> ELSE StopOrNot("exit")
    /\ UNCHANGED <<launched, identity, pipes, ioFailed, incomplete, os, scan, confirmed,
                   groupGone, asks, stray>>

\* Both streams end when nobody holds the pipes any more.
PipesEnd ==
    /\ launched = "child" /\ pipes = "open" /\ group = {}
    /\ pipes' = "ended"
    /\ UNCHANGED <<launched, identity, exitSeen, ioFailed, incomplete, os, scan, result,
                   control, asks, stray>>

\* A stream breaks; its close comes without an end.
StreamError ==
    /\ launched = "child" /\ pipes = "open"
    /\ pipes' = "destroyed" /\ ioFailed' = TRUE
    /\ IF finished THEN UNCHANGED <<result, stopping, deadline, why, pc>> ELSE StopOrNot("output-error")
    /\ UNCHANGED <<launched, identity, exitSeen, incomplete, os, scan, confirmed, groupGone,
                   asks, stray>>

\* A chunk could not be written to the log, or is beyond its limit.
LogFails ==
    /\ launched = "child" /\ pipes = "open" /\ ~finished /\ log.file /\ ~log.error
    /\ log' = [log EXCEPT !.error = TRUE]
    /\ UNCHANGED <<child, os, scan, finished, status, stopped, outcome, control, asks, stray>>

\* The deadline, and cancel() of the handle.
Timeout ==
    /\ deadline /\ MayStop
    /\ Stop("timeout")
    /\ UNCHANGED <<child, os, scan, confirmed, groupGone, asks, stray>>

Cancel ==
    /\ asks < MaxAsks /\ MayStop
    /\ asks' = asks + 1
    /\ Stop("cancelled")
    /\ UNCHANGED <<child, os, scan, confirmed, groupGone, stray>>
-----------------------------------------------------------------------------
(* stopGroup and settle: after a signal, and before it, the group is inspected *)

\* The end of settle: what confirmed and incomplete allow it to claim.
Conclude(gone, lost) ==
    Finish(IF ~gone \/ lost THEN "unknown"
           ELSE IF why = "cancelled" THEN "cancelled" ELSE "ended", gone, lost)

\* stopGroup returns; an execution that finished before is not drained again.
Return(gone) ==
    /\ confirmed' = gone
    /\ groupGone' = (groupGone \/ gone)
    /\ UNCHANGED <<why, stray>>
    /\ IF finished
       THEN pc' = "rest" /\ Conclude(gone, incomplete)
       ELSE pc' = "drain" /\ UNCHANGED <<result, stopping, deadline>>

\* What inspectGroup returned: the end of stopGroup, or a group that may be
\* signalled.  In the poll, every 50 ms until the grace is over, such an answer is
\* simply asked for again; after the last grace the group is given up.
Answer(gone, safe) ==
    /\ IF gone \/ ~safe \/ pc = "killWait"
       THEN scan' = NoScan /\ Return(gone)
       ELSE /\ scan' = IF pc = "termWait" THEN NoScan
                       ELSE [NoScan EXCEPT !.on = TRUE, !.aimed = TRUE]
            /\ pc' = IF pc = "termWait" THEN "kill" ELSE pc
            /\ UNCHANGED <<result, stopping, deadline, why, confirmed, groupGone, stray>>
    /\ UNCHANGED <<child, os, asks>>

\* The kill that ends inspectGroup and the one of processTree.stop, with no look at
\* /proc between: the first may find no group, what the second throws is swallowed
\* (process-tree.mjs:43), so that nothing is confirmed.
Signal ==
    /\ scan.aimed /\ scan' = NoScan
    /\ \/ Entries = {} /\ Return(TRUE)
       \/ Return(FALSE)
       \/ /\ Entries # {} \/ reused
          /\ pc' = IF pc = "term" THEN "termWait" ELSE "killWait"
          /\ stray' = (stray \/ reused)
          /\ UNCHANGED <<result, stopping, deadline, why, confirmed, groupGone>>
    /\ UNCHANGED <<child, os, asks>>

Inspects == {"term", "termWait", "kill", "killWait"}

\* Slip: the group is taken for ours whatever the start time of its leader.
InspectUnidentified ==
    /\ pc \in Inspects /\ ~scan.on
    /\ Answer(group = {} /\ ~reused, TRUE)

\* The start of inspectGroup: a group seen gone stays gone, a number whose leader
\* started at another time, or cannot be read, is not ours, kill(-pid, 0) finds
\* no group, and without a list of /proc the leader alone tells that it is ours.
Inspect ==
    /\ pc \in Inspects /\ ~scan.on
    /\ IF groupGone THEN Answer(TRUE, FALSE)
       ELSE \/ Answer(FALSE, FALSE)
            \/ /\ identity /\ ~reused
               /\ \/ Entries = {} /\ Answer(TRUE, FALSE)
                  \/ "leader" \in Entries /\ Answer(FALSE, TRUE)
                  \/ /\ Entries # {}
                     /\ scan' = [NoScan EXCEPT !.on = TRUE, !.entries = Entries, !.left = Entries]
                     /\ UNCHANGED <<child, os, result, control, asks, stray>>

\* One entry of /proc: gone by now, unreadable, a zombie or alive.
ReadEntry(m) ==
    /\ scan.on /\ m \in scan.left
    /\ \E readable \in BOOLEAN :
         /\ ~readable => m \in Entries
         /\ scan' = [scan EXCEPT !.left = @ \ {m},
                !.whole = @ /\ readable,
                !.found = @ \/ (readable /\ m \in Entries),
                !.live = @ \/ (readable /\ m \in group)]
    /\ UNCHANGED <<child, os, result, control, asks, stray>>

\* Slip: the census is believed without a second look at the numbers.
CensusOnce ==
    /\ scan.on /\ ~scan.aimed /\ scan.left = {}
    /\ IF Entries = {} THEN Answer(TRUE, FALSE)
       ELSE Answer(scan.whole /\ scan.found /\ ~scan.live, "leader" \in Entries \/ scan.found)

\* The end of inspectGroup.  Zombies alone are a group that has stopped, if the
\* numbers in /proc, others' too, are the ones the census began with.
Census ==
    /\ scan.on /\ ~scan.aimed /\ scan.left = {}
    /\ \/ Answer(FALSE, FALSE)      \* the leader is another one, or cannot be read
       \/ /\ ~reused
          /\ \/ Entries = {} /\ Answer(TRUE, FALSE)
             \/ Entries # {} /\ ("leader" \in Entries \/ scan.found) /\ Answer(FALSE, TRUE)
             \/ /\ scan.whole /\ scan.found /\ ~scan.live /\ Entries = scan.entries
                /\ Answer(TRUE, FALSE)

\* The exit and both pipes are waited for, CLOSE_GRACE at most; what is still open
\* then is destroyed and the output counts as incomplete.
Drain ==
    /\ pc = "drain" /\ pc' = "rest"
    /\ \E drained \in BOOLEAN :
         LET lost == incomplete \/ ~drained \/ ioFailed \/ ~exitSeen IN
         /\ drained => exitSeen /\ pipes # "open"
         /\ incomplete' = lost
         /\ pipes' = IF lost /\ pipes = "open" THEN "destroyed" ELSE pipes
         /\ Conclude(confirmed, lost)
    /\ UNCHANGED <<launched, identity, exitSeen, ioFailed, os, scan, why, confirmed,
                   groupGone, asks, stray>>

\* settle throws: whatever it was about to claim, only groupGone counts.
SettleThrows ==
    /\ pc # "rest" /\ launched = "nopid"
    /\ pc' = "rest" /\ incomplete' = TRUE
    /\ Finish("unknown", groupGone, TRUE)
    /\ UNCHANGED <<launched, identity, exitSeen, pipes, ioFailed, os, scan, why, confirmed,
                   groupGone, asks, stray>>
-----------------------------------------------------------------------------
(* The operating system *)

OSStep == UNCHANGED <<child, scan, result, control, asks, stray>>

Fork(m) ==
    /\ group # {} /\ m \notin born
    /\ group' = group \cup {m} /\ born' = born \cup {m}
    /\ UNCHANGED <<zombies, reused, slipped>> /\ OSStep

\* A process ends, signalled or not.
Die(m) ==
    /\ m \in group
    /\ group' = group \ {m} /\ zombies' = zombies \cup {m}
    /\ UNCHANGED <<born, reused, slipped>> /\ OSStep

\* Its parent, Node for the leader, takes note of the end.
Reap(m) ==
    /\ m \in zombies
    /\ zombies' = zombies \ {m}
    /\ UNCHANGED <<group, born, reused, slipped>> /\ OSStep

\* The number of a group that is gone is given to another process.
Reuse ==
    /\ launched = "child" /\ Entries = {} /\ ~reused
    /\ reused' = TRUE /\ slipped' = scan.aimed
    /\ UNCHANGED <<group, zombies, born>> /\ OSStep

\* No other JavaScript runs from the start of inspectGroup to the signal.
Spawning == ~scan.on /\ (SpawnNothing \/ SpawnThrows \/ SpawnWithoutPid \/ Spawn)
Inspecting == Inspect \/ Census \/ Signal \/ \E m \in Members : ReadEntry(m)
ExecSettling == Inspecting \/ (~scan.on /\ (Drain \/ SettleThrows))
Events ==
    /\ ~scan.on
    /\ \/ ErrorWithoutPid \/ Exit \/ PipesEnd \/ ExecutionError \/ StreamError
       \/ LogFails \/ Timeout \/ Cancel

ExecNext ==
    \/ Spawning \/ ExecSettling \/ Events
    \/ \E m \in Members : (m # "leader" /\ Fork(m)) \/ Die(m) \/ Reap(m)
    \/ Reuse

ExecSpec == ExecInit /\ [][ExecNext]_execVars

\* Microtasks, timers and the events of a child that has ended come.
ExecFairness ==
    /\ WF_execVars(Spawning) /\ WF_execVars(ExecSettling)
    /\ WF_execVars(~scan.on /\ ErrorWithoutPid)
    /\ WF_execVars(~scan.on /\ Timeout)

ExecLiveSpec == ExecSpec /\ ExecFairness
-----------------------------------------------------------------------------
(* Properties *)

Scan == [on : BOOLEAN, aimed : BOOLEAN, entries : SUBSET Members, left : SUBSET Members,
         found : BOOLEAN, live : BOOLEAN, whole : BOOLEAN]

\* Every variable has its type; a process is alive or a zombie.
TypeOK ==
    /\ launched \in {"no", "none", "nopid", "child"}
    /\ born \in SUBSET Members /\ group \in SUBSET born /\ zombies \in SUBSET (born \ group)
    /\ scan \in Scan
    /\ scan.entries \subseteq born /\ scan.left \subseteq scan.entries
    /\ pipes \in {"open", "ended", "destroyed"}
    /\ identity \in BOOLEAN /\ reused \in BOOLEAN /\ exitSeen \in BOOLEAN
    /\ ioFailed \in BOOLEAN /\ incomplete \in BOOLEAN /\ groupGone \in BOOLEAN
    /\ finished \in BOOLEAN /\ stopped \in BOOLEAN /\ stopping \in BOOLEAN
    /\ confirmed \in BOOLEAN /\ deadline \in BOOLEAN /\ slipped \in BOOLEAN /\ stray \in BOOLEAN
    /\ status \in {"running", "ended", "cancelled", "unknown"}
    /\ outcome \in {"pending", "stopped", "unconfirmed"}
    /\ why \in {"cancelled", "timeout", "identity", "execution-error", "exit", "output-error"}
    /\ pc \in SettlePC
    /\ log \in [file : BOOLEAN, error : BOOLEAN, complete : BOOLEAN, active : BOOLEAN]
    /\ asks \in 0 .. MaxAsks

\* What the runtime takes for evidence of a stop is one: no process of the group
\* runs, and none will be started by a spawn that is still to come.
StoppedIsGone == stopped => group = {} /\ (launched = "no" => finished)

\* A signal goes astray only if the number of the group was given away under it,
\* after inspectGroup had looked at the leader and the members for the last time:
\* the start times narrow the race to that window, over both signals and all polls,
\* and close it nowhere else (the comment at command-execution-port.mjs:351).
NoStraySignal == stray => slipped

\* Every request to stop is answered, that of the deadline too: with evidence, or
\* with the report that it could not be confirmed.
StopAnswered == stopping ~> ~stopping

\* The port the runtime sees.
ProcOf ==
    IF launched # "child" THEN "none" ELSE IF group = {} THEN "gone" ELSE "alive"

Port == INSTANCE ExecutionPort WITH
    Execution <- {"x"},
    proc <- [e \in {"x"} |-> ProcOf],
    view <- [e \in {"x"} |-> ViewOf(status, stopped)],
    done <- [e \in {"x"} |-> outcome],
    asked <- IF stopping THEN {"x"} ELSE {}

\* Each step of the execution is a step of the port the runtime relies on, or none.
ImplementsPort == [][Port!PortNext]_(Port!portVars)
=============================================================================
