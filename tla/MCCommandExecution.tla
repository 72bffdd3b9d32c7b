------------------------- MODULE MCCommandExecution -------------------------
(***************************************************************************)
(* Small instances of CommandExecution for TLC.                            *)
(***************************************************************************)
EXTENDS CommandExecution
=============================================================================
