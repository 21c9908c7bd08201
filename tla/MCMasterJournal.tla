--------------------------- MODULE MCMasterJournal ---------------------------
(* Instances of MasterJournal for TLC. *)
EXTENDS MasterJournal, TLC

\* Processes are interchangeable.
ProcSymmetry == Permutations(Procs)
=============================================================================
