SPECIFICATION Spec
CONSTANTS
    Pids = {p1}
    MaxGen = 2
    MaxMarks = 2
    RingCap = 1
CHECK_DEADLOCK FALSE
INVARIANTS PerfMapsCleared OwnPerfMapsKept TracepointsOutliveSessions
PROPERTIES StopReturns AnnouncedIsEnabled
