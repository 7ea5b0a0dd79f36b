SPECIFICATION Spec
CONSTANTS
    t1 = t1
    p1 = p1
    p2 = p2
    None = None
    Threads <- MCThreads
    Procs <- MCProcs
    MaxVersion = 1
    MaxSnapshots = 2
    MaxTrash = 2
    MaxTreasures = 1
    MaxSide = 1
    MaxFaults = 2
    CollectsUnrecovered = FALSE
SYMMETRY MCSymmetry
INVARIANTS
    
    LeasedReadsSucceed
    IndexIsTruthful
PROPERTIES
    SnapshotsAreCurrent
    PinnedStaysListed
    ImplementsShelf
CHECK_DEADLOCK FALSE
