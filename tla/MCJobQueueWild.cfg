SPECIFICATION FairSpec
CONSTANTS
    j1 = j1
    j2 = j2
    p1 = p1
    p2 = p2
    t1 = t1
    t2 = t2
    NoJob = NoJob
    Jobs = {j1}
    Procs = {p1, p2}
    Threads = {t1}
    MaxAttempts = 2
    Priority <- MCPriority
    Serves <- MCServes
    Keeps = {}
    Picky = {}
    Broken = {}
    SkipLocked = FALSE
    SlowSweeps = FALSE
    MaxSlow = 1
    MaxCrashes = 1
    MaxStops = 0
CHECK_DEADLOCK FALSE
PROPERTIES
    Settles
