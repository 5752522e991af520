SPECIFICATION FairSpec
CONSTANTS
    MaxPoints = 0
    MaxRuns = 1
    MaxStops = 2
    MaxFrames = 3
    Window = 2
    Conditions <- AnyCondition
    Unconditional = always
    x_gt_1 = x_gt_1
INVARIANTS TypeOK PromptIsUsable SelectionIsDictated
PROPERTIES OperationsFinish
CHECK_DEADLOCK FALSE
