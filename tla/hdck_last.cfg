CONSTANTS
    Units = 8
    Bits = 4
    MaxParts = 4
    MaxBad = 1
    MaxLinks = 0
    MaxLost = 0
    BadLimit = 9
    MaxCrashes = 0
SPECIFICATION Spec
INVARIANT OnlyAffectedDeleted
CHECK_DEADLOCK FALSE
