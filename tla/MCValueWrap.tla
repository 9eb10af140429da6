---------------------------- MODULE MCValueWrap ----------------------------
(***************************************************************************)
(* Small instances of ValueWrap.                                           *)
(***************************************************************************)
EXTENDS ValueWrap, TLC

CONSTANTS
  s1, s2, d1, d2,   (* Types: two with static, two with dynamic storage.   *)
  mo, pin           (* A type that can only be moved, one that cannot.     *)

Assorted == [t \in Types |-> CASE t = mo -> {"move ctor", "move assign", "swap"}
                               [] t = pin -> {}
                               [] OTHER -> Members]

(* A const data member: copies and moves construct, nothing assigns.       *)
ConstMember == [t \in Types |-> {"copy ctor", "move ctor"}]

Symmetry == Permutations(Wraps) \cup Permutations(Blocks) \cup Permutations(Vals)
============================================================================
