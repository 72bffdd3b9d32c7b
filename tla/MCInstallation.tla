--------------------------- MODULE MCInstallation ---------------------------
(***************************************************************************)
(* Small instances of Installation and of TaskReceipts for TLC, in one     *)
(* run.  The two have nothing to do with each other: a behaviour is about  *)
(* the installer, on one of the targets, or about the receipts of one      *)
(* owner, as in MCTaskReceipts.                                            *)
(***************************************************************************)
EXTENDS Installation, MCTaskReceipts

VARIABLE about      \* what this behaviour is about

\* A target with nothing on it, where the installer is not looked at.
Bare ==
    /\ site = [global |-> FALSE, linked |-> {}] /\ files = OwnFiles({})
    /\ disk[Live] = NoConfig /\ archive = NoConfig

\* What need not be combined: a target without an archive has no configuration
\* yet, only one that is in use has links, and a runtime of a global target
\* stands beside a registry that has a row or comments.
Chosen ==
    /\ archive = NoConfig => disk[Live] = NoConfig
    /\ site.linked # {} => archive # NoConfig /\ disk[Live] # NoConfig
    /\ site.global /\ files["module"] # {} => files["registry"] \cap {"row", "note"} # {}

BothInit ==
    /\ InstallInit
    /\ \/ about = "installer" /\ Init /\ Chosen
       \/ about = "receipts" /\ MCInit /\ Bare

BothNext ==
    /\ UNCHANGED about
    /\ \/ about = "installer" /\ InstallNext /\ UNCHANGED vars
       \/ about = "receipts" /\ Next /\ UNCHANGED installVars

BothSpec == BothInit /\ [][BothNext]_<<vars, installVars, about>>
=============================================================================
