SPECIFICATION Spec
CONSTANTS
    t1 = t1
    t2 = t2
    None = None
    Thread <- MCThread
    Provider <- MCProvider
    Workspace <- MCWorkspace
    Homes <- MCHomes
    Snapshots <- MCSnapshots
    MaxOperations = 2
    MaxTouches = 1
    MaxEdits = 2
    MaxFaults = 2
INVARIANTS
    WorkIsKept
    
    
PROPERTIES
    CompletedMeansImported
CHECK_DEADLOCK FALSE
