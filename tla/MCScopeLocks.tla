---------------------------- MODULE MCScopeLocks ----------------------------
(***************************************************************************)
(* Small instances of ScopeLocks and of DelegationAttempt for TLC, in one  *)
(* run: either the table of the locks, or one delegation, which sees of    *)
(* that table only the lock it holds.                                      *)
(***************************************************************************)
EXTENDS ScopeLocks, DelegationAttempt

VARIABLE about      \* what this behaviour is about

CONSTANTS src, comp, o1, o2, o3

\* comp is a directory of src.
MCWithin == {<<x, x>> : x \in Path} \cup ({<<src, comp>>} \cap (Path \X Path))

\* A directory and the directory above it.
MCEffects == {{comp}, {src}}

\* Lock identities are random UUIDs: the code compares them for equality only.
OwnerSymmetry == Permutations(Owner)

MCInit == Init /\ AttemptInit /\ about \in {"table", "delegation"}

MCNext ==
    /\ UNCHANGED about
    /\ \/ about = "table" /\ Next /\ UNCHANGED attemptVars
       \/ about = "delegation" /\ AttemptNext /\ UNCHANGED vars

MCSpec == MCInit /\ [][MCNext]_<<vars, attemptVars, about>>
=============================================================================
