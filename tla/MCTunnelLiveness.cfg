CONSTANTS
    Negotiated = {TRUE, FALSE}
    Threshold = 2
    Resume = 1
    AppData = 0
    TargetData = 3
    MaxKeepalives = 0
SPECIFICATION FairSpec
 
PROPERTIES
    ResponseDelivered
    TunnelReclaimed
CHECK_DEADLOCK FALSE
