---------------------------- MODULE MCUploadQueue ----------------------------
(***************************************************************************)
(* UploadQueue for TLC: executions do the same things, so states that      *)
(* differ by their names only are the same.                                *)
(***************************************************************************)
EXTENDS UploadQueue, TLC

Symmetry == Permutations(Execution)

=============================================================================
