SPECIFICATION FairSpec
CONSTANTS
    Headers = {h1, h2}
    Vals = {v1, v2}
    NumSlots = 2
    Faults <- NoFault
    MaxFaults = 1
    MaxCrashes = 2
    NoBuf = NoBuf
    NoMagic = NoMagic
    Garbage = Garbage
INVARIANTS TypeOK NoForeignReplay RestoreCopiesJournal
PROPERTIES ImplementsAtomicStore AlwaysIdleAgain
