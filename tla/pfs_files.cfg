SPECIFICATION Spec
CONSTANTS
    NumSubs = 1
    Size <- TwoPartitions
    Reserved <- SuperAndBitmap
    InodeMax = 2
    IndirectMax = 3
    CountMax = 3
    Names <- NamesOfTwoLengths
    Need <- NeedOf
    Sector = 6
    MaxSize = 3
    MaxSectors = 3
    Nobody = Nobody
INVARIANTS OneOwner CountsTrue HangsOnlyWhenFull DirectoryTrue
PROPERTY DataStays
CHECK_DEADLOCK FALSE
