\* Two tabs, four transfers, one session, three presses.
CONSTANTS
    Pages = {p1, p2}
    Transfers = {t1, t2, t3, t4}
    Sessions = {s1}
    MaxPresses = 3
    None = None

SPECIFICATION Spec
SYMMETRY Symmetry
CONSTRAINT OneFault
\* Every press made, every transfer used: nothing is left to do but wait.
CHECK_DEADLOCK FALSE

INVARIANTS
    ChargedOnce
PROPERTY
    MoneyIsRemembered
