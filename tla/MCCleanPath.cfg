CONSTANTS
    Policy <- MCPolicy
    CleanTime <- MCCleanTime
    HoldTime <- MCHoldTime
    MinRate = 1
    Word = 16
    MaxTime = 9
    MaxSegs = 2
    MaxCount = 5
SPECIFICATION Spec
INVARIANT
    Earned
PROPERTY ProbesApart
