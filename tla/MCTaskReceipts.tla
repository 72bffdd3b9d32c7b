--------------------------- MODULE MCTaskReceipts ---------------------------
(***************************************************************************)
(* Four small instances in one run.  One task, the other having been read  *)
(* before, with two of: a message of the user, a watch call, a failed call *)
(* or restart.  And both tasks, with automatic continuations only.         *)
(***************************************************************************)
EXTENDS TaskReceipts

Without(aUser, aWatch, aFault) ==
    /\ asked = IF aUser THEN MaxUser ELSE 0
    /\ watches = IF aWatch THEN MaxWatch ELSE 0
    /\ faults = IF aFault THEN MaxFault ELSE 0

MCInit ==
    \/ InitWith({1}) /\ Without(FALSE, TRUE, FALSE)
    \/ InitWith({1}) /\ Without(TRUE, FALSE, FALSE)
    \/ InitWith({1}) /\ Without(FALSE, FALSE, TRUE)
    \/ InitWith({}) /\ Without(TRUE, TRUE, TRUE)

MCSpec == MCInit /\ [][Next]_vars

=============================================================================
