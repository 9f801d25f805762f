CONSTANTS
    Tasks <- TwoTasks
    Target = 2
    NParallel = 2
    Interval = 2
    MaxAttempts = 5
    MaxRuns = 3
    MaxFaults = 1
SPECIFICATION FairSpec
INVARIANT TypeOK
INVARIANT KillCostsLessThanInterval
INVARIANT OvershootsByTheOthers
INVARIANT TearCostsTwo
INVARIANT PairsAreComplete
PROPERTY OutputLosesOnlyTheUnread
PROPERTY TargetEndsTheRun
CHECK_DEADLOCK FALSE
