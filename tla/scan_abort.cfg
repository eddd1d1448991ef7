SPECIFICATION Spec
CONSTANTS
    NumPartitions = 2
    TotalSectors = 2
    RunMax = 4
    IOBufferSize = 2
    MaxBad = 0
INVARIANT MountOutlivesThread
CHECK_DEADLOCK FALSE
