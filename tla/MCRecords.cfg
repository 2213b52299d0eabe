SPECIFICATION Spec
CONSTANTS
    s1 = s1
    s2 = s2
    v1 = v1
    v2 = v2
    f1 = f1
    f2 = f2
    Sessions = {s1, s2}
    Owners = {s1, s2}
    NoSession = NoSession
    Values = {v1, v2}
    NoValue = NoValue
    Files = {f1, f2}
    NoFile = NoFile
    MaxFlushes = 3
    MaxUndone = 2
    MaxTries = 2
    Scenes <- MCScenes
SYMMETRY MCSymmetry
CHECK_DEADLOCK FALSE
INVARIANTS
    TrailTellsRow
    RecordsHaveTheirFiles
