SPECIFICATION Spec
CONSTANTS
    MaxRequests = 3
    MaxStops = 2
    Commands <- EditCommands
    AskedKinds <- EditKinds
    HitSets <- EditHits
    PairedStops = FALSE
    Faults = {"reject"}
    QueueCap = 1
    StartRunning = TRUE
INVARIANTS Accounted BreakpointIdsFirst Agreement NothingStranded PutsEnd
PROPERTIES ExecutionOrdered OnlyFalseConditionsSkip FunctionReplyIsOwn
CHECK_DEADLOCK FALSE
