\* The numbers of the jobs in the tooltip.
SPECIFICATION Spec
CONSTANTS
    Rows <- MCFewRows
    Execution <- MCFewExecutions
    JobDefinition <- MCFewJobDefinition
    FinishTime <- MCFewFinishTime
    Score <- MCFewScore
    HistoryLimit = 4
    MaxHistory = 2
    ManyExecutions = 2
    PrunedExecutions = 1
    StageLimit = 2
INVARIANTS
    JobNumbersMatch
CHECK_DEADLOCK FALSE
