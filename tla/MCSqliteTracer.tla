---------------------------- MODULE MCSqliteTracer ----------------------------
(* Instances of SqliteTracer for TLC. *)
EXTENDS SqliteTracer

CONSTANTS t1, t2, f1, c1, c2
===============================================================================
