CONSTANTS
    Scripts <- MCScripts
    MaxAccum = 24
    Literals <- MCLiterals
    Names <- MCNames
SPECIFICATION Spec
PROPERTY WatchdogCoversTheWrite
CHECK_DEADLOCK FALSE
