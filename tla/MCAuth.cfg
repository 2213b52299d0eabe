SPECIFICATION FairSpec
CONSTANTS
    r1 = r1
    r2 = r2
    k1 = k1
    s1 = s1
    NoToken = NoToken
    NoSession = NoSession
    Tokens = {k1}
    Sessions = {s1}
    Requests = {r1, r2}
    Offered <- MCOffered
    LinkTTL = 1
    TTL = 1
    Grace = 1
    MaxClock = 6
    LastLogin = 0
    MaxBreaks = 1
    u1 = u1
    u2 = u2
    m1 = m1
    m2 = m2
    i1 = i1
    f1 = f1
    f2 = f2
    g1 = g1
    p1 = p1
    p2 = p2
    People = {u1, u2}
    Emails = {m1, m2}
    NoPerson = NoPerson
    Identities = {i1}
    Flows = {f1, f2}
    Forms = {g1}
    Processes = {p1, p2}
    Secret <- MCSecret
    MaxFlows = 2
    MaxMoves = 1
CHECK_DEADLOCK FALSE
INVARIANTS
    LogoutIsFinal
    SecondUseOverlaps
    SpentServes
    OneUserPerIdentity
PROPERTIES
    SessionsAreSwept
