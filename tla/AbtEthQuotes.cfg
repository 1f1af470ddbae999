CONSTANTS
    Locks = {l1, l2}
    PriceTxs = {p1, p2}
    FeeTxs = {f1}
    Reports = {r1, r2}
    Dollars = {1, 2}
    Rates = {1, 2}
    Precision = 3
    Lifetime = 1
    MaxTime = 1
    Tabs = {t1, t2}
    Accounts = {x, y}
    Addresses = {e1, e2}
    None = None
SPECIFICATION QuotesSpec
INVARIANTS
    QuoteHonoured
    SwitchTellsTruth
PROPERTIES
    LegStands
CHECK_DEADLOCK FALSE
SYMMETRY Symmetry
CONSTRAINT SixInAll
