---------------------------- MODULE MCResultSet -----------------------------
(* ResultSet on small instances: see the .cfg files.                       *)
EXTENDS ResultSet
=============================================================================
