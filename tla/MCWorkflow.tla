----------------------------- MODULE MCWorkflow -----------------------------
(***************************************************************************)
(* A workflow of two steps: the first creates a task, the second reads the *)
(* result of that very task.                                               *)
(***************************************************************************)
EXTENDS Workflow, TLC

CONSTANTS work, collect, t1, c1, c2

MCDependsOn == (work :> {}) @@ (collect :> {work})
MCGate == (work :> {[kind |-> "task-created", from |-> None]})
          @@ (collect :> {[kind |-> "task-result", from |-> work]})

\* Two calls in flight are any two.
CallSymmetry == Permutations(Slot)

\* Bound: a second message of the user leaves time for four calls, not five.
InTime == Len(users) = 1 \/ clock <= 8
=============================================================================
