CONSTANTS
    N = 2
    EnvRing = 0
    Known = {TRUE, FALSE}
    BatchLimit = 1
    MaxRecords = 2
    MaxCalls = 3
SPECIFICATION Spec
PROPERTY DrainsBehindRejected
CHECK_DEADLOCK FALSE
