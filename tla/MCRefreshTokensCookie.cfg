SPECIFICATION Spec
CONSTANTS
    t1 = t1
    t2 = t2
    t3 = t3
    t4 = t4
    f1 = f1
    f2 = f2
    r1 = r1
    r2 = r2
    NoToken = NoToken
    NoFamily = NoFamily
    Tokens = {t1, t2, t3}
    Families = {f1, f2}
    Requests = {r1, r2}
    Attaches = FALSE
    MaxDrops = 1
SYMMETRY Symmetry
CHECK_DEADLOCK FALSE
INVARIANTS
    ReuseIsNoAccident
