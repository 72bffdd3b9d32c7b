--------------------------- MODULE MCCommandTask ---------------------------
(***************************************************************************)
(* Small instances of CommandTask for TLC: two commands that compete for   *)
(* one slot.                                                               *)
(***************************************************************************)
EXTENDS CommandTask

Only(calls) == [d \in Stopper |-> IF d \in calls THEN 1 ELSE 0]
Apart == {Only({"tool"}), Only({"known"}), Only({"owner"}), Only({"dispose", "resume"})}
=============================================================================
