\* MapReduce jobs of up to four tasks, of which two of a kind are sampled, and
\* Spark applications of two jobs or with up to four storage and task events.
SPECIFICATION JobSpec
CONSTANTS
    Jobs <- MCJobs
    MaxSample = 2
    Heuristics <- MCHeuristics
    Parts = 10
    Default <- MCDefault
    Params <- MCParams
    Unit <- MCUnit
    Second = 1
    Applications <- MCApplications
    Driver = "driver"
    LogLimit = 5
    RetainedStages = 1
    SparkHeuristics <- MCSparkHeuristics
    CoreLimit = 2
    SmallMemory = 2
    LargeStorage = 6
    JobTypeConf <- MCJobTypeConf
    SchedulerConf <- MCSchedulerConf
    Properties <- MCProperties
INVARIANTS
    JobTypeOK
    SampleFaithful
    OnlyZeroTimeThrows
    FailedJobReported
    SamplingNeutral
    ComplaintsCount
    TwoSizesToldApart
    PeakReported
    SparkJobReported
CHECK_DEADLOCK FALSE
