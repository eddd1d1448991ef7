CONSTANTS
    Units = 8
    Bits = 4
    MaxParts = 6
    MaxSubs = 1
    MaxLeft = 1
    MaxSize = 4
    CanStop = TRUE
    MaxMishaps = 1
SPECIFICATION Spec
INVARIANTS AlwaysConsistent FilesKept Defragmented
PROPERTIES DefragEndsOrOverruns
CHECK_DEADLOCK FALSE
