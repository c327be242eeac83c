SPECIFICATION Spec
CONSTANTS
    Pids = {1, 2}
    Files <- MCFiles
    Mappings <- MCMappings
    Funcs <- MCFuncs
    StackTop = 100000
    CopySizes = {3, 20}
    MaxCalls = 3
    MaxRecords = 3
    Garbage <- MCGarbage
    GarbageLen = 3
    MaxFrames = 4
    MaxChain = 2
    MaxScan = 3
    Huge = 1000000000
INVARIANTS
    FramesReal
    FramesComplete
    GarbageSafe
CHECK_DEADLOCK FALSE
