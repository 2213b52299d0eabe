SPECIFICATION Spec
CONSTANTS
    j1 = j1
    j2 = j2
    p1 = p1
    p2 = p2
    t1 = t1
    t2 = t2
    NoJob = NoJob
    Jobs = {j1, j2}
    Procs = {p1, p2}
    Threads = {t1, t2}
    MaxAttempts = 2
    Priority <- MCPriority
    Serves <- MCServes
    Keeps = {j1}
    Picky = {j2}
    Broken = {}
    SkipLocked = TRUE
    SlowSweeps = FALSE
    MaxSlow = 1
    MaxCrashes = 1
    MaxStops = 1
SYMMETRY MCSymmetry
CHECK_DEADLOCK FALSE
INVARIANTS
    OneHolder
    OrphanOnlyByCrash
    BudgetLeft
    AttemptsCounted
PROPERTIES
    EndedForGood
    KeepsPromise
