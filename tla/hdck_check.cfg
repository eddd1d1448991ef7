CONSTANTS
    Units = 8
    Bits = 4
    MaxParts = 4
    MaxBad = 2
    MaxLinks = 2
    MaxLost = 1
    BadLimit = 9
    MaxCrashes = 1
SPECIFICATION Spec
INVARIANTS HealthyKept LinksRepaired ChainUsable
PROPERTIES CheckEnds
CHECK_DEADLOCK FALSE
