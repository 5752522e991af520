SPECIFICATION Spec
CONSTANTS
    MaxRequests = 4
    MaxStops = 2
    Commands <- InspectCommands
    AskedKinds <- Kinds
    HitSets <- InspectHits
    PairedStops = FALSE
    Faults = {"timeout","reject"}
    QueueCap = 1
    StartRunning = TRUE
INVARIANTS Accounted
PROPERTIES InspectionIsCurrent
CHECK_DEADLOCK FALSE
