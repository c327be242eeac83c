CONSTANTS
    Ids = {1, 2}
    Ranges <- MCRanges
    Offsets = {3}
    Sampled <- MCSampled
    Openable = {1}
    Dropped = {7}
    FileSymbols <- MCFileSymbols
    Kallsyms <- MCKallsyms
    MinLookup = 2
    KERNEL_START = 4
    KERNEL_END = 9
    MaxEvents = 5
    MaxTime = 20
SPECIFICATION Spec
INVARIANTS SampleFindsItsMapping SymbolsResolve WaitIsReal ReplayExact
CHECK_DEADLOCK FALSE
