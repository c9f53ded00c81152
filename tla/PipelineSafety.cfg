\* Two applications, each finishing at one of two ticks, two executors,
\* one crash, every failure; does the daemon implement the ledger?
SPECIFICATION Spec
CONSTANTS
    a1 = a1
    a2 = a2
    Apps = {a1, a2}
    Executors = {e1, e2}
    FinalStatus <- MCFinalStatus
    Supported = {a1, a2}
    HAEnabled = TRUE
    FetchDelay = 2
    ListLag = 1
    RetryLimit = 1
    MaxTime = 6
    MaxRestarts = 1
SYMMETRY ExecutorSymmetry
INVARIANTS
    TypeOK
    SingleHolder
    NoAppMissed
    FreshNotInDb
    TriesBeforeDrop
CHECK_DEADLOCK FALSE
PROPERTIES
    LedgerSpec
