---------------------------- MODULE MCWorkflowPool ----------------------------
(* Two rollouts of one task and one of another, on two workflows; and two     *)
(* rollouts of one task, on one.                                              *)
EXTENDS WorkflowPool

TwoAndOne == <<1, 1, 2>>
Both      == <<1, 1>>
===============================================================================
