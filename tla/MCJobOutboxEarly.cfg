SPECIFICATION OutboxSpec
CONSTANTS
    j1 = j1
    j2 = j2
    p1 = p1
    p2 = p2
    t1 = t1
    t2 = t2
    s1 = s1
    s2 = s2
    NoJob = NoJob
    Jobs = {j1, j2}
    Procs = {p1}
    Threads = {t1}
    MaxAttempts = 2
    Priority <- MCPriority
    Serves <- MCServes
    Keeps = {j2}
    Picky = {}
    Broken = {}
    SkipLocked = TRUE
    SlowSweeps = FALSE
    MaxSlow = 0
    MaxCrashes = 1
    MaxStops = 0
    Sessions = {s1, s2}
    Outboxed = {j1, j2}
    Early = {j1, j2}
    Closes = FALSE
    MaxTx = 1
    MaxDeaths = 1
CHECK_DEADLOCK FALSE
INVARIANTS
    NeverRunsUncommitted
