CONSTANTS
    Configs <- Filtering
    MaxSteps = 3
    MaxPrompt = 3
    MaxResponse = 5
    Deadline = 2
    PromptLens = {1, 4}
    SampleLens = {0, 1, 2}
    TurnLens = {1, 2}
    Delays = {0, 1}
    StepRewards = {0, 1}
    Scores = {0, 1}
SPECIFICATION Spec
INVARIANT MaskedOutIsMasked
CHECK_DEADLOCK FALSE
