CONSTANTS
    N = 2
    EnvRing = 2
    Known = {TRUE}
    BatchLimit = 1
    MaxRecords = 1
    MaxCalls = 4
    Capacity = 2
    EnvItems = 4
    Pads = {0}
SPECIFICATION SFairSpec
INVARIANTS NothingLeftBehind
PROPERTY CaptureEnds
CHECK_DEADLOCK FALSE
