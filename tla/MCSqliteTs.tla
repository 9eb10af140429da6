---------------------------- MODULE MCSqliteTs ----------------------------
(***************************************************************************)
(* Small instances of SqliteTs.                                            *)
(***************************************************************************)
EXTENDS SqliteTs, TLC

Symmetry == Permutations(Series) \cup Permutations(Iters) \cup
            Permutations(Conns) \cup Permutations(Stmts)
============================================================================
