SPECIFICATION Spec
CONSTANTS
    alice = alice
    bob = bob
    n1 = n1
    n2 = n2
    t1 = t1
    t2 = t2
    None = None
    Absent = Absent
    Ns <- OneNs
    Thread <- OneThread
    Client <- OneClient
    Edit <- TwoEdits
    MaxRevs = 2
    MaxRewrites = 0
    MaxRestores = 1
    MaxCrashes = 1
    MaxLost = 0
    MaxGeneration = 2
    UnrecoveredPush = TRUE
INVARIANT HistoryKeepsEdits
CHECK_DEADLOCK FALSE
