\* Seven rows inserted in any order while pages and graphs are loaded, the
\* mouse is moved over the graphs, and executions are compared.
SPECIFICATION SiteSpec
CONSTANTS
    Rows <- MCRows
    Execution <- MCExecutions
    JobDefinition <- MCJobDefinition
    WithoutCase <- MCWithoutCase
    FinishTime <- MCFinishTime
    Score <- MCScore
    HistoryLimit = 4
    MaxHistory = 2
    ManyExecutions = 2
    PrunedExecutions = 1
    StageLimit = 1
    Positions <- MCPositions
    HalfDay = 2
    TopLimit = 1
    FetchLimit = 2
INVARIANTS
    SiteTypeOK
    ShownComplete
    LatestListed
    TimesMatchWhenQuiet
    NearestShown
    TopPartsShown
    ComparisonComplete
CHECK_DEADLOCK FALSE
