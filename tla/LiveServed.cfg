SPECIFICATION FairSpec
CONSTANTS
    MaxRequests = 2
    MaxStops = 1
    Commands <- ServedCommands
    AskedKinds <- Kinds
    HitSets <- PairHits
    PairedStops = FALSE
    Faults = {"timeout"}
    QueueCap = 1
    StartRunning = TRUE
INVARIANTS TypeOK
PROPERTIES Served StopsSurface
CHECK_DEADLOCK FALSE
