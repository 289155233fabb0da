---------------------------- MODULE MCTokenKeys ----------------------------
(***************************************************************************)
(* TokenKeys on a small instance.                                           *)
(***************************************************************************)
EXTENDS TokenKeys, TLC

Symmetry == Permutations(Callers) \cup Permutations(Keys)

=============================================================================
