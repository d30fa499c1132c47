CONSTANTS
    e1 = e1
    e2 = e2
    s1 = s1
    s2 = s2
    Endpoint <- MCEndpoint
    AddrOf <- OwnAddress
    Salt <- MCSalt
    None = None
    MaxSessions = 2
    MaxTombstones = 1
    TTL = 1
    MaxAttempts = 2
    MaxFailures = 1
    MaxTracked = 1
    MaxCreated = 3
    MaxTime = 1
SPECIFICATION Spec
SYMMETRY MCSymmetry
PROPERTY EvictedMeansReplaced
CHECK_DEADLOCK FALSE
