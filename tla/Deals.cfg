SPECIFICATION DealsSpec
CONSTANTS
    leg1 = leg1
    leg2 = leg2
    h1 = h1
    h2 = h2
    None = None
    Reports = {r1, r2}
    Targets <- MCTargets
    Hashes <- MCHashes
    Pays <- MCPays
    t1 = t1
    t2 = t2
    Amounts = {p1}
    Texts <- MCTexts
    Windows = {d1, d2}
    DefaultWindow = d1
    Requests = {q1, q2}
    MaxLines = 2
    MaxPresses = 5
SYMMETRY DealSymmetry
CONSTRAINTS
    FewPresses
    OneOverlap
INVARIANTS
    SettledLegIsPaid
    HoldIsHonest
    MarksStandOnTheirWords
CHECK_DEADLOCK FALSE
