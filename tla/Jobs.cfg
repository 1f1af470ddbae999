SPECIFICATION JobsSpec
CONSTANTS
    Criteria = {a}
    Prices = {low}
    Rails = {"usdc"}
    Commits = {c1}
    None = None
    RedoAllowance = 1
    ExpireUnstagedAfter = 0
    LapseAtStagedAfter = 0
    RedoLapseExtension = 1
    UndeliveredAfterPaid = 0
    DeemCompletedAfter = 0
    StaleAfter = 1
    MaxDay = 1
    Agents = {a1, a2}
    Strict = {a1}
    Exchanges = {x1}
    Requests = {r1, r2}
    Tabs = {t1, t2}
    Words = {w1, w2}
    Faces = {plain, drawn}
    Plain = plain
    Calls = {n1, n2}
    Askers = {s1}
    MaxRequests = 2
SYMMETRY InFlightSymmetry
CONSTRAINTS
    NightsOfAHire
    OneBriefAtRest
INVARIANTS
    OneAgreement
    DeliveryIsPaid
    BriefIsKept
    OwnersWordHolds
PROPERTY
    OnlyTheBuyerWalks
CHECK_DEADLOCK FALSE
