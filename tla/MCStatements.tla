---------------------------- MODULE MCStatements ----------------------------
(* Statements on small instances: see the .cfg files.                      *)
EXTENDS Statements, TLC

CONSTANTS s1, s2, a1, a2
=============================================================================
