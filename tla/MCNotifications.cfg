SPECIFICATION Spec
CONSTANTS
    s1 = s1
    s2 = s2
    s3 = s3
    c1 = c1
    c2 = c2
    u1 = u1
    u2 = u2
    e1 = e1
    d1 = d1
    d2 = d2
    MaxRecords = 3
    Earlier = 1
    PageSize = 1
    Streams = {s1, s2, s3}
    Maxsize = 1
    Endpoints = {e1}
    Users = {u1, u2}
    Callers = {c1, c2}
    NoUser = NoUser
    Recipient = u1
    Commits = TRUE
    MaxRows = 2
    Critical <- MCCritical
    Devices = {d1, d2}
    MaxAttempts = 2
    MaxKills = 1
    Scenes <- MCScenes
SYMMETRY MCSymmetry
CHECK_DEADLOCK FALSE
INVARIANTS
    DoneMeansDelivered
    PagingMissesNothing
    OpenStreamsAreServed
    KeysStayHome
