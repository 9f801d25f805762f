CONSTANTS
    x = x
    y = y
    Trajs = {x, y}
    RetryLimit = 2
    StepTimeouts = TRUE
    Settings <- Engines
SPECIFICATION FairSpec
INVARIANT TypeOK
INVARIANT NoLeakUncancelled
INVARIANT SandboxQuota
INVARIANT ResetFindsNoSession
INVARIANT RewardRunsAlone
PROPERTY EveryTrajectoryEnds
CHECK_DEADLOCK FALSE
