SPECIFICATION Spec
CONSTANTS
    Catalog <- Mixed
    Conditional = {}
    MaxCalls = 3
    MaxFaults = 1
    LastRequest = 10
    Kinds = {"killed"}
PROPERTIES
    LaunchIsNeverRefused
CHECK_DEADLOCK FALSE
