SPECIFICATION Spec
CONSTANTS
    t1 = t1
    k1 = k1
    k2 = k2
    None = None
    Thread <- MCThread
    Local <- MCLocal
    Heads <- MCHeads
    Offered <- MCOffered
    Homes <- MCHomes
    MaxCleanups = 2
    MaxEdits = 2
    MaxRuleChanges = 1
    MaxFaults = 2
    RepairMayFail = FALSE
    TornWrites = FALSE
INVARIANTS
    
    MappingRoundTrips
PROPERTIES
    CleanupIsAllOrNothing
CHECK_DEADLOCK FALSE
