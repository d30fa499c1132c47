CONSTANTS
    ServerScripts <- MCServerScripts
    ClientScripts <- MCClientScripts
    MaxAccum = 24
    MaxPayload = 1
    Literals <- MCLiterals
    Names <- MCNames
    Outcomes <- MCOutcomes
SPECIFICATION FairSpec
INVARIANTS
    ReplyProtocol
    NothingLost
    OneExchange
    EarlyDataKept
    EndsAgree
PROPERTIES
    DeadlineHarmless
    NothingStalls
    Settled
CHECK_DEADLOCK FALSE
