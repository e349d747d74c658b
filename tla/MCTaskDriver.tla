--------------------------- MODULE MCTaskDriver ---------------------------
(***************************************************************************)
(* Small instances of TaskDriver for TLC.                                  *)
(***************************************************************************)
EXTENDS TaskDriver, TLC

\* A VM name is no task ID: pairs stand for the names.
MCVMName == [t \in Tasks |-> <<"vm", t>>]

\* Calls and disks are interchangeable.
Symmetry == Permutations(Calls) \cup Permutations(Disks)
=============================================================================
