SPECIFICATION FairSpec
CONSTANTS
    alice = alice
    bob = bob
    n1 = n1
    n2 = n2
    t1 = t1
    t2 = t2
    None = None
    Absent = Absent
    Ns <- OneNs
    Thread <- OneThread
    Client <- TwoClients
    Edit <- TwoEdits
    MaxRevs = 5
    MaxRewrites = 0
    MaxRestores = 0
    MaxCrashes = 0
    MaxLost = 0
    MaxGeneration = 2
    UnrecoveredPush = FALSE
CHECK_DEADLOCK FALSE
PROPERTY HomesConverge
