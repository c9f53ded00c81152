\* Two resource managers, two executors and two jobs at a time, one failover and one restart.
SPECIFICATION Spec
CONSTANTS
    Ids <- MCIds
    Executors = {x1, x2}
    Jobs = {j1, j2}
    RetryLimit = 2
    UpdateInterval = 1
    FetchDelay = 1
    FetchInterval = 1
    RetryInterval = 1
    Lifetime = 5
    MaxFailovers = 1
    MaxRestarts = 1
INVARIANTS
    TypeOK
    MainTokenAccepted
    JobsKept
PROPERTIES
    FetchesSettle
