CONSTANTS
    TaskOf <- Tasks
    RetryLimit = 2
    NParallel = 2
    MaxCalls = 2
    MaxRounds = 2
    MaxFaults = 0
    Overlong = {}
SPECIFICATION Spec
INVARIANT LastStepIsLast
CHECK_DEADLOCK FALSE
