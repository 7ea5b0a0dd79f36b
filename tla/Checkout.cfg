SPECIFICATION Spec
CONSTANTS
    sessions = sessions
    archived_sessions = archived_sessions
    global_state = global_state
    state_db = state_db
    logs_db = logs_db
    catalog_db = catalog_db
    Absent = Absent
    User = User
    Cleared = Cleared
    NoJournal = NoJournal
    Swaps <- MCSwaps
    Missing <- MCMissing
    Dbs <- MCDbs
    Catalogs <- MCCatalogs
    MaxOps = 2
    MaxFaults = 2
    MaxCrashes = 2
    MaxRaces = 1
    MaxCodexRuns = 1
    TornWrites = TRUE
INVARIANT CheckoutTypeOK
INVARIANT Settled
INVARIANT BaseSurvives
PROPERTY NoBlindRollback
PROPERTY RecoveryEnds
CHECK_DEADLOCK FALSE
