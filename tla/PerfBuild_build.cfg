CONSTANTS
    NumCpus = 2
    Pids = {1, 2}
    Kinds = {"profiling", "event", "bpf"}
    MaxOptions = 2
    MaxFds = 7
    MaxCalls = 2
SPECIFICATION Spec
INVARIANTS RecordingIsKnown OwnCpuRing NoPerfFdLeaks
CHECK_DEADLOCK FALSE
