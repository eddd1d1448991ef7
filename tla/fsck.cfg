SPECIFICATION FairSpec
CONSTANTS
    NumSubs = 0
    Size <- SizeOf
    Reserved <- ReservedIn
    InodeMax = 2
    IndirectMax = 3
    CountMax = 3
    Root = 1
    Images <- Damaged
    FirstZone = 2
    Sector = 8
    Align = 2
    Shortest = 2
    MaxDepth = 3
INVARIANTS ClearedMeansSound DirectoriesMended HealthyKept
PROPERTY CheckEnds
