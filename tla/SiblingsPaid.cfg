SPECIFICATION Spec
CONSTANTS
    Criteria = {a}
    Prices = {low}
    Rails = {"usdc"}
    Commits = {c1}
    None = None
    RedoAllowance = 1
    ExpireUnstagedAfter = 0
    LapseAtStagedAfter = 0
    RedoLapseExtension = 1
    UndeliveredAfterPaid = 0
    DeemCompletedAfter = 0
    StaleAfter = 1
    Agents = {a1, a2}
    Strict = {}
    Exchanges = {x1}
PROPERTY
    PaidProposalStands
CHECK_DEADLOCK FALSE
