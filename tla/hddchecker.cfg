SPECIFICATION FairSpec
CONSTANTS
    NumPartitions = 2
    TotalSectors = 7
    RunMax = 4
    IOBufferSize = 2
    MaxBad = 3
INVARIANTS CompleteMeansAll ThreadsUndisturbed ResultsTrue
PROPERTIES OnlyBadErased OperationEnds
CHECK_DEADLOCK FALSE
