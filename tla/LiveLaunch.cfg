SPECIFICATION Spec
CONSTANTS
    MaxRequests = 3
    MaxStops = 1
    Commands <- LaunchCommands
    AskedKinds <- Kinds
    HitSets <- LaunchHits
    PairedStops = FALSE
    Faults = {"launch","crash","eof","reject"}
    QueueCap = 1
    StartRunning = FALSE
INVARIANTS Accounted AnsweredOnce TerminatedOnce
PROPERTIES SilentAfterDisconnect
CHECK_DEADLOCK FALSE
