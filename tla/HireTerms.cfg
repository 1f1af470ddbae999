SPECIFICATION PagesSpec
CONSTANTS
    Criteria = {a, b}
    Prices = {low, high}
    Rails = {"abt", "usdc", "abt_eth"}
    Commits = {c1, c2}
    None = None
    RedoAllowance = 1
    ExpireUnstagedAfter = 0
    LapseAtStagedAfter = 0
    RedoLapseExtension = 0
    UndeliveredAfterPaid = 0
    DeemCompletedAfter = 0
    StaleAfter = 1
    MaxDay = 1
    MaxAttestations = 2
    Tabs = {t1}
INVARIANTS
    PaidWorkWasShown
    PagesOfferWhatIsTaken
    AgreementSealed
    EndingTellsPayment
    ListsTellTheTurn
PROPERTIES
    PaymentFinishedAsStarted
SYMMETRY LinesAlike
CONSTRAINT PagesOfSmallHires
CHECK_DEADLOCK FALSE
