---------------------------- MODULE MCRolloutLoop ----------------------------
(* Instances of RolloutLoop for TLC. *)
EXTENDS RolloutLoop

Config(tito, enforce, overlong, validate) ==
    [tito |-> tito, drift |-> ~tito, enforce |-> enforce, validate |-> validate,
     overlongFilter |-> overlong, filterMismatch |-> TRUE, sparse |-> TRUE]

\* Both loops, both ways of limiting the length, with and without the overlong
\* filter, a validation batch, and an env that pays every step.
AllConfigs ==
    {Config(t, e, o, FALSE) : t \in BOOLEAN, e \in BOOLEAN, o \in BOOLEAN}
        \cup {Config(t, FALSE, FALSE, TRUE) : t \in BOOLEAN}
        \cup {[Config(t, FALSE, FALSE, FALSE) EXCEPT !.sparse = FALSE] :
               t \in BOOLEAN}

\* The text loop, with tokens that survive.
Filtering == {[Config(FALSE, FALSE, TRUE, FALSE) EXCEPT !.drift = FALSE]}
===============================================================================
