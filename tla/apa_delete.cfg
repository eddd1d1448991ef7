CONSTANTS
    Units = 8
    Bits = 5
    MaxParts = 5
    MaxDeletes = 2
    MaxCrashes = 2
SPECIFICATION Spec
INVARIANTS AlwaysConsistent NoFreeTail
PROPERTY OnlyTheVictim
CHECK_DEADLOCK FALSE
