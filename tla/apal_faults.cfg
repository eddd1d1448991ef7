SPECIFICATION FairSpec
CONSTANTS
    Headers = {h1, h2}
    Vals = {v1, v2}
    NumSlots = 2
    Faults <- FlushFaults
    MaxFaults = 1
    MaxCrashes = 1
    NoBuf = NoBuf
    NoMagic = NoMagic
    Garbage = Garbage
INVARIANTS FlushedMeansDurable CleanMeansHome
