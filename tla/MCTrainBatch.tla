----------------------------- MODULE MCTrainBatch -----------------------------
(* Two prompts with two trajectories each; trajectories arrive in order, in   *)
(* reverse, or with the prompts interleaved.                                  *)
EXTENDS TrainBatch

TwoByTwo == <<1, 1, 2, 2>>
\* Select is SelectSeq with the membership of a set as its test.
ASSUME SelectIsSelectSeq ==
    \A s \in BoundedSeq(1..3, 4), T \in SUBSET (1..3) :
        Select(s, T) = SelectSeq(s, LAMBDA x : x \in T)

SomeArrivals == {<<1, 2, 3, 4>>, <<4, 3, 2, 1>>, <<3, 1, 4, 2>>}
===============================================================================
