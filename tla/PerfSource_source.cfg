CONSTANTS
    N = 2
    EnvRing = 0
    Known = {TRUE, FALSE}
    BatchLimit = 1
    MaxRecords = 3
    MaxCalls = 3
SPECIFICATION FairSpec
INVARIANTS DeliveredOnce
PROPERTIES OldestFirst ParseAllDrains ParseAllReturns
CHECK_DEADLOCK FALSE
