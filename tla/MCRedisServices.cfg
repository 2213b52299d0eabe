SPECIFICATION Spec
CONSTANTS
    k1 = k1
    k2 = k2
    r1 = r1
    r2 = r2
    Keys = {k1, k2}
    Readers = {r1, r2}
    MaxWrites = 2
    MaxOutages = 2
    Amount <- MCAmount
    Window = 2
SYMMETRY MCSymmetry
CHECK_DEADLOCK FALSE
INVARIANTS
    ReadsAfterInvalidation
    LimitHolds
PROPERTIES
    RefusedOnlyWhenUsedUp
