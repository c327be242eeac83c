SPECIFICATION Spec
CONSTANTS
    MinLookup = 4
    KERNEL_START = 100
    KERNEL_END = 120
    PageSize = 4
    MarkSize = 2
    Disks <- MCDisks
    Upgrades <- MCUpgrades
    Loaded <- MCLoaded
    Ips = {3, 8, 14, 16, 24}
    Methods <- MCMethods
    FullTable <- MCFullTable
    FullMap <- MCFullMap
    MaxEvents = 3
CHECK_DEADLOCK FALSE
INVARIANTS NamesOfTheBuild SymtabFound MethodsNamed
