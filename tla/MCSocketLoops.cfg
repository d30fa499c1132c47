CONSTANTS
    Slots = 2
    DrainMax = 2
    Chunk = 1
    MaxArrivals = 3
    MaxErrors = 3
SPECIFICATION FairSpec
INVARIANTS
    StaysArmed
    NoStackedReceive
    Paced
    KeyHeldWhileRouting
PROPERTY ServedThenQuiet
CHECK_DEADLOCK FALSE
