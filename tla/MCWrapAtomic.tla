---------------------------- MODULE MCWrapAtomic ----------------------------
(***************************************************************************)
(* A small instance of WrapAtomic.                                         *)
(***************************************************************************)
EXTENDS WrapAtomic, TLC

CONSTANTS s1, s2, d1   (* Types: two with static, one with dynamic storage. *)

ASSUME NobodyInterferes

EveryMember == [t \in Types |-> Members]

Symmetry == Permutations(Wraps) \cup Permutations(Blocks) \cup Permutations(Vals)
============================================================================
