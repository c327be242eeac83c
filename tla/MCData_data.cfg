CONSTANTS
    Kinds = {"kernel", "profiling", "tracepoint", "cswitch", "bpf"}
    Regs = 3
    StackBytes = 16
    EventIds = {1}
    Depths = {0, 2}
    RawSizes = {4, 12}
    StackSizes = {0, 8}
    OtherSizes = {0, 16}
    MaxRecords = 2
    MaxFields = 2
    Hash <- MCHash
    BucketsAsked = 3
    FlushAt = 3
    GuidLen = 2
    SpanLen = 1
    MinLookup = 3
    KERNEL_START = 10
    KERNEL_END = 12
    MaxTime = 20
    Events <- MCEvents
    Lives <- MCLives
    DropCgroup = 9
    SyncTime = 2
    EndTime = 5
    MaxSamples = 3
SPECIFICATION DataSpec
INVARIANTS FieldsExact MergeSeesCallbackTime PayloadExact FilterExact
           SampleDataExact  GraphExact
CHECK_DEADLOCK FALSE
