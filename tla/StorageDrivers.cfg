SPECIFICATION Spec
CONSTANTS
    Callers = {c1, c2}
    Ids = {k1, k2}
    ann = ann
    annCapital = annCapital
    Logins <- LoginsMC
    Folded <- FoldedMC
    Vals = {v1, v2}
    MaxCalls <- MaxCallsMC
    None = None
PROPERTIES
    DriverKeepsContract
SYMMETRY CallsAlike
CONSTRAINT FourOnOneListing
CHECK_DEADLOCK FALSE
