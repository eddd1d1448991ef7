SPECIFICATION Spec
CONSTANTS
    NumSubs = 2
    Size <- SizeOf
    Reserved <- ReservedIn
    InodeMax = 20
    IndirectMax = 20
    CountMax = 7
    Root <- RootAt
    Images <- Trees
    MinFree = 3
    MaxDepth = 4
    MaxFaults = 2
INVARIANTS Mountable  HangsOnlyOnData
PROPERTY RemovedIsEmpty
CHECK_DEADLOCK FALSE
