SPECIFICATION FairSpec
CONSTANTS
    Catalog <- SourceAndFamily
    Conditional = {1}
    MaxCalls = 3
    MaxFaults = 1
    LastRequest = 10
    Kinds = {"rejects", "dies", "killed", "repeats", "duplicates", "times out"}
INVARIANTS
    TypeOK
    NothingLeaks
    FailsForCause
    ViewIsCurrent
PROPERTIES
    KeepsContract
    OperationsEnd
CHECK_DEADLOCK FALSE
