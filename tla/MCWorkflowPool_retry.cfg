SPECIFICATION FairSpec
CONSTANTS
    TaskIds <- TwoAndOne
    NParallel = 2
    RetryLimit = 2
    MaxSteps = 2
    Flaky = {1}
INVARIANT TypeOK
INVARIANT PoolConserved
INVARIANT EpisodeIsOwn
INVARIANT RowsMatchPrompts
PROPERTY RolloutsSettle
\* All rollouts settled and all jobs ended: the batch is over.
CHECK_DEADLOCK FALSE
