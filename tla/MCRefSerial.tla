---------------------------- MODULE MCRefSerial ----------------------------
(***************************************************************************)
(* A small instance of RefSerial.                                          *)
(***************************************************************************)
EXTENDS RefSerial, TLC

Symmetry == Permutations(Wraps) \cup Permutations(Cells)
============================================================================
