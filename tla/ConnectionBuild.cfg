SPECIFICATION Spec
CONSTANTS
    MaxRequests = 4
    Commands = {"initialize","testLaunch","launch","configurationDone","disconnect","unreadable"}
    Capacity = 1
    MaxOutput = 1
INVARIANTS TypeOK AnswersOwed LiveStartsClean FramesInOrder
PROPERTIES BuildStopped SessionEnds
CHECK_DEADLOCK FALSE
