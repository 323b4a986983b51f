SPECIFICATION FairSpec
CONSTANTS
    NCpus = 2
    W = 3
    IterCycles = 2
    kMaxSkipped = 1
    TimerCpu = 0
    Requests <- MCRequests
    Delays = {1, 3}
    MaxQueue = 1
    TimerValues = {0, 2}
    MipValues = {{}}
    LiveEdits = TRUE
INVARIANTS
    SkipIsAllowed
