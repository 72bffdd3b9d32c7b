--------------------------- MODULE ExecutionPort ---------------------------
(***************************************************************************)
(* What the command execution port promises the command runtime            *)
(* (src/src/command-core/command-execution-port.mjs, the contract in the   *)
(* comment of createCommandExecutionPort): an execution is claimed once    *)
(* per process, a stop may be asked for again and again, and a snapshot    *)
(* that says stopped is evidence that no process of the group runs.        *)
(*                                                                         *)
(* CommandExecution is shown to implement this module; CommandTask is      *)
(* built on it.                                                            *)
(***************************************************************************)
CONSTANT Execution      \* execution identities

VARIABLES
    proc,       \* the process group in the operating system
    view,       \* status and stopped of snapshot(), absent without a handle
    done,       \* what the done promise was resolved with, or pending
    asked       \* executions with a stop that is not yet answered

portVars == <<proc, view, done, asked>>

\* "stopped" is completed, failed, cancelled or unknown with stopped set,
\* "unconfirmed" is unknown without.
StoppedView == {"stopped"}
OpenView == {"running", "unconfirmed"}
View == StoppedView \cup OpenView

PortInit ==
    /\ proc = [e \in Execution |-> "none"]
    /\ view = [e \in Execution |-> "absent"]
    /\ done = [e \in Execution |-> "pending"]
    /\ asked = {}

\* start: the record is there before the process.
Claim(e) ==
    /\ view[e] = "absent"
    /\ view' = [view EXCEPT ![e] = "running"]
    /\ UNCHANGED <<proc, done, asked>>

\* The microtask that spawns; a child that cannot be identified is stopped at once.
Launch(e) ==
    /\ view[e] = "running" /\ proc[e] = "none"
    /\ proc' = [proc EXCEPT ![e] = "alive"]
    /\ asked' \in {asked, asked \cup {e}}
    /\ UNCHANGED <<view, done>>

\* The last process of the group ends, by itself or by a signal.
End(e) ==
    /\ proc[e] = "alive"
    /\ proc' = [proc EXCEPT ![e] = "gone"]
    /\ UNCHANGED <<view, done, asked>>

\* handle.cancel
AskStop(e) ==
    /\ view[e] \in OpenView
    /\ asked' = asked \cup {e}
    /\ UNCHANGED <<proc, view, done>>

\* finish: stopped is claimed only of a group that does not run.
Settle(e) ==
    /\ view[e] \in OpenView
    /\ \E v \in View \ {"running"} :
        /\ v \in StoppedView => proc[e] # "alive"
        /\ view' = [view EXCEPT ![e] = v]
        /\ done' = [done EXCEPT ![e] = IF @ = "pending" THEN v ELSE @]
    /\ asked' = asked \ {e}
    /\ UNCHANGED proc

PortStep(e) == Launch(e) \/ End(e) \/ Settle(e)

PortNext == \E e \in Execution : Claim(e) \/ AskStop(e) \/ PortStep(e)

PortSpec == PortInit /\ [][PortNext]_portVars
=============================================================================
