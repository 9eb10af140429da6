----------------------------- MODULE MCRefWrap -----------------------------
(***************************************************************************)
(* A small instance of RefWrap.                                            *)
(***************************************************************************)
EXTENDS RefWrap, TLC

Symmetry == Permutations(Wraps) \cup Permutations(Cells) \cup Permutations(Vals)
============================================================================
