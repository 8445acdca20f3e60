---------------------------- MODULE MCStashCache ----------------------------
(***************************************************************************)
(* StashCache for TLC: the processes, and the contents of rows, are alike. *)
(***************************************************************************)
EXTENDS StashCache, TLC

Symmetric == Permutations(Procs) \cup Permutations(Employee)
=============================================================================
