CONSTANTS
    e1 = e1
    e2 = e2
    s1 = s1
    s2 = s2
    Endpoint <- MCEndpoint
    AddrOf <- OwnAddress
    Salt <- MCSalt
    None = None
    MaxSessions = 1
    MaxTombstones = 1
    TTL = 1
    MaxAttempts = 2
    MaxFailures = 1
    MaxTracked = 1
    MaxCreated = 2
    MaxTime = 0
SPECIFICATION FairSpec
INVARIANT Bounded
PROPERTY SessionReclaimed
CHECK_DEADLOCK FALSE
