SPECIFICATION FairSpec
CONSTANTS
    Criteria = {a}
    Prices = {high}
    Rails = {"abt_eth"}
    Commits = {c1, c2}
    None = None
    RedoAllowance = 1
    ExpireUnstagedAfter = 1
    LapseAtStagedAfter = 0
    RedoLapseExtension = 1
    UndeliveredAfterPaid = 1
    DeemCompletedAfter = 1
    StaleAfter = 2
    MaxDay = 7
    MaxAttestations = 2
INVARIANTS
    HonestReceipt
    HireIsBounded
PROPERTIES
    KeepsContract
    EveryHireEnds
CHECK_DEADLOCK FALSE
