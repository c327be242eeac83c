SPECIFICATION Spec
CONSTANTS
    Pids = {p1}
    MaxGen = 1
    MaxMarks = 1
    RingCap = 1
CHECK_DEADLOCK FALSE
PROPERTY FailureReturns
