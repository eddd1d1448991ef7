SPECIFICATION Spec
CONSTANTS
    Blocks = {b1, b2, b3}
    Vals = {v1, v2}
    NumBuf = 2
    MaxRefs = 2
    RecordErrors = TRUE
    Faults <- NoFault
    MaxFaults = 0
    MaxCrashes = 1
    NoBlock = NoBlock
    Garbage = Garbage
    NoLog = NoLog
INVARIANTS RingIsFree OneBufferPerBlock ReadsAreTrue LossIsAtomic
SYMMETRY Symmetry
CHECK_DEADLOCK FALSE
