---------------------------- MODULE MCWrapSteps ----------------------------
(***************************************************************************)
(* Small instances of WrapSteps.                                           *)
(***************************************************************************)
EXTENDS WrapSteps, TLC

CONSTANTS s1, d1   (* Types: one with static, one with dynamic storage.      *)

EveryMember == [t \in Types |-> Members]

Symmetry == Permutations(Callers) \cup Permutations(Blocks) \cup Permutations(Vals)
============================================================================
