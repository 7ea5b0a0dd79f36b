SPECIFICATION Spec
CONSTANTS
    alice = alice
    bob = bob
    n1 = n1
    n2 = n2
    t1 = t1
    t2 = t2
    None = None
    Absent = Absent
    Ns <- OneNs
    Thread <- OneThread
    Client <- TwoClients
    Edit <- ThreeEdits
    MaxRevs = 3
    MaxRewrites = 1
    MaxRestores = 0
    MaxCrashes = 0
    MaxLost = 0
    MaxGeneration = 2
    UnrecoveredPush = FALSE
SYMMETRY ClientSymmetry
INVARIANT TypeOK
INVARIANT HistoryKeepsEdits
INVARIANT IntegratedIsInHome
 
PROPERTY LocalWorkKept
PROPERTY ChoicesAreInformed
CHECK_DEADLOCK FALSE
