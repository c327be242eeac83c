CONSTANTS
    Size = 8
    Lens = {2, 3, 9}
    MaxWrites = 5
SPECIFICATION FairSpec
INVARIANTS UntornRead PositionsOrdered
PROPERTIES QueueSpec WriterReturns AllDelivered
