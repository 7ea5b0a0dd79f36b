SPECIFICATION Spec
CONSTANTS
    alice = alice
    bob = bob
    n1 = n1
    n2 = n2
    t1 = t1
    t2 = t2
    None = None
    Absent = Absent
    Ns <- TwoNs
    Thread <- TwoThreads
    Client <- OneClient
    Edit <- TwoEdits
    MaxRevs = 2
    MaxRewrites = 0
    MaxRestores = 1
    MaxCrashes = 1
    MaxLost = 1
    MaxGeneration = 2
    UnrecoveredPush = FALSE
INVARIANT HistoryKeepsEdits
INVARIANT IntegratedIsInHome
PROPERTY LocalWorkKept
CHECK_DEADLOCK FALSE
