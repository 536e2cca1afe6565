---------------------------- MODULE MCLifecycle -----------------------------
(* Model-checking instance of Lifecycle. *)
EXTENDS Lifecycle, TLC

Symmetry == Permutations(Procs) \cup Permutations(Inodes)
=============================================================================
