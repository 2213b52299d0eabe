SPECIFICATION FairOutboxSpec
CONSTANTS
    j1 = j1
    j2 = j2
    p1 = p1
    p2 = p2
    t1 = t1
    t2 = t2
    s1 = s1
    s2 = s2
    NoJob = NoJob
    Jobs = {j1, j2}
    Procs = {p1}
    Threads = {t1}
    MaxAttempts = 1
    Priority <- MCPriority
    Serves <- MCServes
    Keeps = {}
    Picky = {}
    Broken = {}
    SkipLocked = FALSE
    SlowSweeps = TRUE
    MaxSlow = 1
    MaxCrashes = 0
    MaxStops = 0
    Sessions = {s1}
    Outboxed = {j1, j2}
    Early = {j1}
    Closes = TRUE
    MaxTx = 2
    MaxDeaths = 1
CHECK_DEADLOCK FALSE
INVARIANTS
    WaitersRunCommitted
    CommittedIsKept
    PendingIsPromised
PROPERTIES
    CommittedSettles
