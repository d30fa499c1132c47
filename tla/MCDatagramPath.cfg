CONSTANTS
    Settings <- MCSettings
    Adaptive <- TwoOne
    MaxFlush = 2
SPECIFICATION FairSpec
INVARIANTS
    HandedOnce
    FramingAgrees
    RepairExact
PROPERTY
    RefusalEnds
CHECK_DEADLOCK FALSE
