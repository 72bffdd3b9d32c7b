-------------------------- MODULE MCTaskScheduler --------------------------
(***************************************************************************)
(* A small instance of TaskScheduler for TLC: two tasks that compete for   *)
(* one lane, and room for two microtasks, so that calls come between the   *)
(* admission of a task and the microtask that dispatches it.               *)
(***************************************************************************)
EXTENDS TaskScheduler

CONSTANTS f1, f2, agents

\* Tasks are numbered in the order of their sequence.
MCRank == [t \in Task |-> t]

MCLaneOf == [t \in Task |-> agents]

\* f1 allows two tasks at a time, every other facade one.
MCLimitOf == [f \in Facade |-> [l \in Lane |-> IF f = f1 THEN 2 ELSE 1]]
=============================================================================
