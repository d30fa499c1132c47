CONSTANTS
    s1 = s1
    s2 = s2
    Salt <- MCSalt
    ClientSalt = s1
    NoSalt = NoSalt
    StartCounter <- MCStartCounter
    W = 2
    MaxCounter = 5
    EncryptCap = 6
SPECIFICATION Spec
INVARIANTS
    AtMostOnce
    WindowExact
    HighestGenuine
    NonceUnique
PROPERTY ImplementsChannel
