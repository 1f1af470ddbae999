SPECIFICATION IdentitySpec
CONSTANTS
    Browsers = {b1, b2}
    Logins = {l1}
    States = {s1, s2}
    Challenges = {c1, c2}
    Passkeys = {k1}
    Signatures = {sig1}
    Requests = {r1, r2}
    None = None
    Calls = {n1, n2}
    MaxDay = 1
    MaxCalls = 2
    MaxReports = 1
    WindowDays = 0
SYMMETRY IdentitySymmetry
INVARIANTS
    RoundTripsComeHome
    SignatureOnce
    HonestOutcome
    DeemedLoadHeals
PROPERTIES
    DisputesStand
CHECK_DEADLOCK FALSE
