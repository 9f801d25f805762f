CONSTANTS
    x = x
    y = y
    Trajs = {x}
    RetryLimit = 2
    StepTimeouts = FALSE
    Settings <- Cancelling
SPECIFICATION Spec
INVARIANT NoLeak
CHECK_DEADLOCK FALSE
