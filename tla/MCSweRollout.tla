----------------------------- MODULE MCSweRollout -----------------------------
(* Instances of SweRollout for TLC. *)
EXTENDS SweRollout

CONSTANTS x, y

Setting(filter, slots, maxSteps, cancels) ==
    [filter |-> filter, slots |-> slots, maxSteps |-> maxSteps,
     cancels |-> cancels]

\* Both trajectories at once; one after the other, since the semaphore has one
\* place; and the same with attempts that are cancelled.
Engines == {Setting(TRUE, 2, 1, FALSE), Setting(FALSE, 2, 1, FALSE),
            Setting(FALSE, 1, 2, FALSE), Setting(FALSE, 1, 1, TRUE)}

\* Attempts that are cancelled, with a thread to spare.
Cancelling == {Setting(FALSE, 2, 1, TRUE)}
===============================================================================
