CONSTANTS
    Prompts <- TwoByTwo
    MaxSteps = 2
    Worlds = {2, 3}
    Factors = {1, 2}
    Wanted = {1, 2}
    Arrivals <- SomeArrivals
    Maskable = {2}
    MayBeSilent = {3}
    Near = {1}
    NaN = NaN
SPECIFICATION Spec
INVARIANT ReshapedByItsOwn
CHECK_DEADLOCK FALSE
