SPECIFICATION Spec
CONSTANTS
    Pids = {1, 2}
    Ids = {1, 2}
    Table <- MCTable
    SubIds = {1}
    SubNames = {"A"}
    Keywords <- MCKeywords
    ReadFields <- FieldsParser
    WriteFields <- ObjectTokens
    Layout <- LayoutOf
    Cuts = {0, 2}
    MaxOps = 3
    MaxEvents = 3
    MaxGen = 2
    TopBit = 100
CHECK_DEADLOCK FALSE
INVARIANTS SubscribersServed RecordTypeOwn AttributesOwn StacksAsAsked
