\* One message, one page, three requests for a stream of which two may be open.
CONSTANTS
    Messages = {m1}
    Pages = {p1}
    MaxConnections = 3
    TargetCap = 2
    CallerCap = 2
    MaxChanges = 2
    None = None

SPECIFICATION Spec
CONSTRAINT FourInAll

INVARIANTS
    ChangesStand
    LivePageIsCurrent
    PlacesComeBack
PROPERTIES
    LostStreamIsMadeUp
