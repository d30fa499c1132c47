CONSTANTS
    Negotiated = {TRUE}
    Threshold = 2
    Resume = 1
    AppData = 1
    TargetData = 2
    MaxKeepalives = 1
SPECIFICATION Spec
INVARIANTS
    StreamPrefix
    NoStackedRead
    HalfCloseComplete
CHECK_DEADLOCK FALSE
