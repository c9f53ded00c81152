\* One application and the retry limit of the code: how often is a job tried?
SPECIFICATION Spec
CONSTANTS
    a1 = a1
    a2 = a2
    Apps = {a1}
    Executors = {e1}
    FinalStatus <- MCFinalStatus
    Supported = {a1}
    HAEnabled = TRUE
    FetchDelay = 1
    ListLag = 0
    RetryLimit = 3
    MaxTime = 3
    MaxRestarts = 0
INVARIANTS
    DroppedAtRetryLimit
CHECK_DEADLOCK FALSE
