SPECIFICATION Spec
CONSTANTS
    MaxRequests = 3
    MaxStops = 1
    Commands <- PairCommands
    AskedKinds <- Kinds
    HitSets <- PairHits
    PairedStops = TRUE
    Faults = {}
    QueueCap = 2
    StartRunning = TRUE
PROPERTIES OnlyFalseConditionsSkip
CHECK_DEADLOCK FALSE
