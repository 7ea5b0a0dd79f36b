SPECIFICATION ServerSpec
CONSTANTS
    n1 = n1
    r1 = r1
    thr_d = thr_d
    blob_x = blob_x
    p1 = p1
    p2 = p2
    None = None
    Boot = Boot
    Ns <- MCNs
    Rev <- MCRev
    Obj <- MCObj
    Proc = {p1}
    Parent <- MCParent
    RevNs <- MCRevNs
    Refs <- MCRefs
    MaxOps = 1
    MaxGcOps = 1
    MaxFaults = 1
    MaxCrashes = 1
    Disconnects = TRUE
INVARIANTS
    ServerTypeOK
    ProtectedContentStored
PROPERTY
    RestartDrainsQueue
