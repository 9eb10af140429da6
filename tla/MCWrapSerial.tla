--------------------------- MODULE MCWrapSerial ---------------------------
(***************************************************************************)
(* Small instances of WrapSerial.                                          *)
(***************************************************************************)
EXTENDS WrapSerial, TLC

CONSTANTS s1, s2, d1   (* Types: two with static, one with dynamic storage. *)

(* One static type cannot be moved; the other types can be moved but not   *)
(* copied.                                                                 *)
OnePinned == [t \in Types |-> IF t = s2 THEN {} ELSE Members \ {"copy ctor", "copy assign"}]

Symmetry == Permutations(Wraps) \cup Permutations(Blocks) \cup Permutations(Vals)
============================================================================
