CONSTANTS
    TaskOf <- Tasks
    RetryLimit = 2
    NParallel = 2
    MaxCalls = 2
    MaxRounds = 2
    MaxFaults = 2
    Overlong = {2}
SPECIFICATION FairSpec
INVARIANT TypeOK
INVARIANT RowsOfOwnSession
INVARIANT MissingForAReason
PROPERTY BatchEnds
CHECK_DEADLOCK FALSE
