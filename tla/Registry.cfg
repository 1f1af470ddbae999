SPECIFICATION DoorSpec
CONSTANTS
    l1 = l1
    l2 = l2
    p1 = p1
    p2 = p2
    w1 = w1
    g1 = g1
    Logins = {l1}
    Dids = {p1, w1, g1}
    DerivedDid <- MCDerived
    PlatformAgents = {g1}
    Visits = {v1, v2}
    Checks = {c1}
    Callers = {a1, a2}
    Window = 2
    Second = 2
    MaxNow = 3
    None = None
SYMMETRY VisitSymmetry
CONSTRAINT ThreeAtOnce
INVARIANTS
    RowsAreOwned
    SessionResolves
    LimitsAreFair
PROPERTIES
    StableIdentity
CHECK_DEADLOCK FALSE
