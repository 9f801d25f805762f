----------------------------- MODULE MCCollectRun -----------------------------
(* Instances of CollectRun for TLC. *)
EXTENDS CollectRun

TwoTasks == <<"a", "b">>
===============================================================================
