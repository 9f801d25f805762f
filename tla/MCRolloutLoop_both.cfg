CONSTANTS
    Configs <- AllConfigs
    MaxSteps = 3
    MaxPrompt = 3
    MaxResponse = 5
    Deadline = 2
    PromptLens = {1, 4}
    SampleLens = {0, 1, 2, 4}
    TurnLens = {1, 2}
    Delays = {0, 1}
    StepRewards = {0, 1}
    Scores = {0, 1}
SPECIFICATION Spec
INVARIANT TypeOK
INVARIANT BudgetHolds
INVARIANT MaskMarksSamples
INVARIANT AgreesWithAssemble
INVARIANT FormatPenalty
INVARIANT TrainsInContext
CHECK_DEADLOCK FALSE
