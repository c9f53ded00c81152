\* A form filled in, clicked and loaded again; six rows inserted while a
\* reader goes through pages of two rows; and any page number asked for.
SPECIFICATION SiteSpec
CONSTANTS
    anna = anna
    bert = bert
    skew = skew
    application = application
    flow = flow
    blank = blank
    Anything = Anything
    Choice = Choice
    Texts <- MCTexts
    Blanks = {blank}
    Timestamp <- MCTimestamp
    ParseTime <- MCParseTime
    ChosenSeverity = 1
    ChosenAnalysis = skew
    Rows <- MCRows
    User <- MCUser
    Severity <- MCSeverity
    Analysis <- MCAnalysis
    StartTime <- MCStartTime
    FinishTime <- MCFinishTime
    Searches <- MCSearches
    TieBreaks <- MCTieBreaks
    PageLength = 2
    PageBarLength = 3
    RestPageLength = 2
    IntMax = 8
INVARIANTS
    SiteTypeOK
    WalkComplete
    PageExact
    BarExact
    RequestMatchesForm
PROPERTIES
    FormRestored
CHECK_DEADLOCK FALSE
