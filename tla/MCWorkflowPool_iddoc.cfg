SPECIFICATION Spec
CONSTANTS
    TaskIds <- Both
    NParallel = 1
    RetryLimit = 1
    MaxSteps = 1
    Flaky = {}
INVARIANT EpisodeIdsAreUnique
\* All rollouts settled and all jobs ended: the batch is over.
CHECK_DEADLOCK FALSE
