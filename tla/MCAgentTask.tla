---------------------------- MODULE MCAgentTask ----------------------------
(***************************************************************************)
(* Small instances of AgentTask for TLC.                                   *)
(***************************************************************************)
EXTENDS AgentTask

VARIABLE visitor    \* who meets the dispatch and the watch in this behaviour

CancelUsed == work["cancel"].pc # "idle" \/ fence \/ store.task.cancelled
ResolveUsed == work["resolve"].pc # "idle" \/ store.task.turn = 2

\* The owner cancels the Task or decides on its retry, not both, and a call
\* fails or the process crashes, not both.
OneOfEach == ~(CancelUsed /\ ResolveUsed) /\ (faults = 0 \/ crashes = 0)

InitFor(visitors) == Init /\ visitor \in visitors

CancelOrRetrySpec ==
    /\ InitFor({"cancel"})
    /\ [][UNCHANGED visitor /\ Next /\ OneOfEach']_<<vars, visitor>>

EventSpec == InitFor({"event"}) /\ [][UNCHANGED visitor /\ Next]_<<vars, visitor>>

\* Either host events are handled and somebody else may prompt the Session, or
\* the owner cancels.
OneVisitor ==
    /\ visitor = "event" \/ (work["event"].pc = "idle" /\ prompts = 0)
    /\ visitor = "cancel" \/ work["cancel"].pc = "idle"

VisitedSpec ==
    /\ InitFor({"event", "cancel"})
    /\ [][UNCHANGED visitor /\ Next /\ OneVisitor']_<<vars, visitor>>
    /\ Progress /\ WF_vars(visitor = "event" /\ BeginEvent)
=============================================================================
