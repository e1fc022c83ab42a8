------------------------------- MODULE MCGCRA -------------------------------
(* Small instances of GCRA. *)
EXTENDS GCRA, TLC

CONSTANTS c1, c2

Symmetry == Permutations(Callers)
=============================================================================
