--------------------------- MODULE MCControlTables ---------------------------
(* ControlTables for TLC: two secrets with the same id.                      *)
EXTENDS ControlTables

MCIdOf == [s \in Secrets |-> CHOOSE i \in Ids : TRUE]
=============================================================================
