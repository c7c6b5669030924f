----------------------------- MODULE MCHandles ------------------------------
(* Handles on a small instance: see Handles.cfg.                           *)
EXTENDS Handles, TLC

CONSTANTS e1, c1, c2, s1, s2, f1

(* No action tells one connection, or one statement, from another.         *)
Symmetry == Permutations(Conns) \union Permutations(Stmts)
=============================================================================
