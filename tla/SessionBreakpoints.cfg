SPECIFICATION Spec
CONSTANTS
    MaxPoints = 2
    MaxRuns = 2
    MaxStops = 2
    MaxFrames = 1
    Window = 1
    Conditions <- AnyCondition
    Unconditional = always
    x_gt_1 = x_gt_1
INVARIANTS AgreesWithBackend ListedIsInstalled
PROPERTIES StopEpochsAdvance
CHECK_DEADLOCK FALSE
