\* Requests for pages while the daemon starts and after.
SPECIFICATION Spec
CONSTANTS
    Requests = {r1, r2, r3}
    mapreduce = mapreduce
    spark = spark
    unfetched = unfetched
    unjudged = unjudged
    unclassified = unclassified
    Types <- MCTypes
    Fetched <- MCFetched
    Judged <- MCJudged
    Classified <- MCClassified
SYMMETRY RequestSymmetry
INVARIANTS
    TypeOK
    NamesCompleteAtRest
    CalmRequestComplete
    LimitsOfCluster
PROPERTIES
    InstanceSettles
CHECK_DEADLOCK FALSE
