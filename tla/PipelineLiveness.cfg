\* Two applications, two executors, one crash: settled at last, and again after
\* the restart; stopped by kill().
SPECIFICATION FairSpec
CONSTANTS
    a1 = a1
    a2 = a2
    Apps = {a1, a2}
    Executors = {e1, e2}
    FinalStatus <- MCFinalStatus
    Supported = {a1, a2}
    HAEnabled = FALSE
    FetchDelay = 1
    ListLag = 0
    RetryLimit = 1
    MaxTime = 3
    MaxRestarts = 1
PROPERTIES
    EventuallySettled
    KillStops
CHECK_DEADLOCK FALSE
