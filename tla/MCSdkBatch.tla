------------------------------ MODULE MCSdkBatch ------------------------------
(* Instances of SdkBatch for TLC. *)
EXTENDS SdkBatch

Tasks == <<7, 8>>
===============================================================================
