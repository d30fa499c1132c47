CONSTANTS
    Negotiated = {TRUE}
    Threshold = 1
    Resume = 0
    AppData = 1
    TargetData = 2
    MaxKeepalives = 1
SPECIFICATION Spec
INVARIANT FinComesLast
CHECK_DEADLOCK FALSE
