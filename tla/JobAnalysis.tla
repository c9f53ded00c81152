---------------------------- MODULE JobAnalysis ----------------------------
(***************************************************************************)
(* AnalyticJob.getAnalysis for a job of either application type: the       *)
(* fetcher and the heuristics of its type (MapReduceAnalysis or            *)
(* SparkAnalysis), then its job type and the scheduler that ran it, which  *)
(* InfoExtractor looks for in the properties of the job.                   *)
(*                                                                         *)
(* Properties are abstracted to what is asked of them: the job types of    *)
(* JobTypeConf.xml that match and, for each scheduler, its four ids, which *)
(* may be absent or empty.  Truncation to the widths of the columns and    *)
(* the links, made of the same properties, are left out.                   *)
(***************************************************************************)
EXTENDS MapReduceAnalysis

CONSTANTS
    Applications, Driver, LogLimit, RetainedStages, SparkHeuristics, CoreLimit,
    SmallMemory, LargeStorage,                  \* see SparkAnalysis
    JobTypeConf,        \* the job types configured, by application type, in order
    SchedulerConf,      \* the schedulers configured, in order
    Properties          \* what the properties of a job may hold

VARIABLES
    appType,            \* MAPREDUCE or SPARK
    sparkPc, sparkResults,                      \* pc and results of SparkAnalysis
    app, throttled, log, status, peak, work, jobs, stages, ended, phases,
    info                \* job type and scheduler information, once it is loaded

Spark == INSTANCE SparkAnalysis
             WITH pc <- sparkPc, results <- sparkResults

Ids == {"jobDef", "jobExec", "flowDef", "flowExec"}

(* JobTypeConfiguration insists on one default for each application type.  *)
ASSUME JobAssumption ==
    /\ Spark!SparkAssumption
    /\ JobTypeConf \in [{"MAPREDUCE", "SPARK"} -> Seq([name : STRING, isDefault : BOOLEAN])]
    /\ SchedulerConf \in Seq(STRING) /\ "none" \notin ToSet(SchedulerConf)
    /\ \A t \in {"MAPREDUCE", "SPARK"} :
          Cardinality({i \in DOMAIN JobTypeConf[t] : JobTypeConf[t][i].isDefault}) = 1
    /\ \A p \in Properties : p.ids \in [ToSet(SchedulerConf) -> [Ids -> {"absent", "empty", "set"}]]

mapReduceState == <<job, pc, order, data, place, results>>
sparkState == <<app, sparkPc, throttled, log, status, peak, work, jobs, stages, ended, phases,
                sparkResults>>

NoIds == [id \in Ids |-> "empty"]
NoInfo == [jobType |-> "none", scheduler |-> "none", ids |-> NoIds]

JobInit ==
    /\ appType \in {"MAPREDUCE", "SPARK"}
    /\ IF appType = "MAPREDUCE" THEN job \in Jobs ELSE job = CHOOSE j \in Jobs : TRUE
    /\ IF appType = "SPARK" THEN app \in Applications ELSE app = CHOOSE a \in Applications : TRUE
    /\ Init
    /\ Spark!Init
    /\ info = NoInfo

AnalyseMapReduce ==
    /\ appType = "MAPREDUCE"
    /\ Next
    /\ UNCHANGED <<appType, sparkState, info>>

AnalyseSpark ==
    /\ appType = "SPARK"
    /\ Spark!Next
    /\ UNCHANGED <<appType, mapReduceState, info>>

-----------------------------------------------------------------------------
(* matchJobType: the first type that matches; the default one comes last.  *)
JobTypes ==
    LET types == JobTypeConf[appType]
    IN  Picked(types, {i \in DOMAIN types : ~types[i].isDefault})
            \o Picked(types, {i \in DOMAIN types : types[i].isDefault})

JobTypeOf(known) ==
    LET matching == Picked(JobTypes, {i \in DOMAIN JobTypes : JobTypes[i].name \in known.types})
    IN  IF matching = <<>> THEN "Unknown" ELSE Head(matching).name

(* Of an application whose log was not read only the id is known, which    *)
(* fetchData sets, and by which Spark's default job type is recognised.    *)
AppIdOnly ==
    [types |-> {type.name : type \in {t \in ToSet(JobTypes) : t.isDefault}},
     ids |-> [s \in ToSet(SchedulerConf) |-> [id \in Ids |-> "absent"]]]

Known(properties) == IF appType = "SPARK" /\ throttled THEN AppIdOnly ELSE properties

(* getSchedulerInstance: the first scheduler that is not empty. *)
SchedulersOf(known) ==
    Picked(SchedulerConf, {i \in DOMAIN SchedulerConf :
                              \A id \in Ids : known.ids[SchedulerConf[i]][id] # "absent"})

(* loadInfo; the mutant keeps ids although some of them are not set.       *)
SchedulerInfoKept(known) ==
    LET found == SchedulersOf(known)
    IN  IF found = <<>> THEN [scheduler |-> "none", ids |-> NoIds]
        ELSE [scheduler |-> Head(found), ids |-> known.ids[Head(found)]]

SchedulerInfo(known) ==
    LET found == SchedulersOf(known)
    IN  IF found # <<>> /\ \A id \in Ids : known.ids[Head(found)][id] = "set"
        THEN [scheduler |-> Head(found), ids |-> known.ids[Head(found)]]
        ELSE [scheduler |-> "none", ids |-> NoIds]

LoadInfo ==
    /\ pc = "done" \/ sparkPc = "done"
    /\ info = NoInfo
    /\ \E properties \in Properties :
          LET known == Known(properties)
              found == SchedulerInfo(known)
          IN  info' = [jobType |-> JobTypeOf(known),
                       scheduler |-> found.scheduler, ids |-> found.ids]
    /\ UNCHANGED <<appType, row, mapReduceState, sparkState>>

JobNext == AnalyseMapReduce \/ AnalyseSpark \/ LoadInfo

JobSpec == JobInit /\ [][JobNext]_<<appType, row, info, mapReduceState, sparkState>>

-----------------------------------------------------------------------------
(* Properties *)

(* A row has all four ids and a scheduler or none of them: the histories   *)
(* group rows by these ids and count on every part.                        *)
JobTypeOK ==
    /\ appType = "MAPREDUCE" => TypeOK
    /\ appType = "SPARK" => Spark!TypeOK
    /\ info.ids = IF info.scheduler = "none" THEN NoIds ELSE [id \in Ids |-> "set"]
    /\ info.scheduler \in {"none"} \cup ToSet(SchedulerConf)
    /\ info.jobType \in {"none", "Unknown"} \cup {type.name : type \in ToSet(JobTypes)}

(* The properties of Spark jobs, see SparkAnalysis.                        *)
PeakReported == Spark!PeakReported

SparkJobReported == Spark!SparkJobReported

(* What the theorem about SparkJobReported asks of a configuration, as     *)
(* HeuristicConf.xml and the limits in JobRuntimeHeuristic have it.        *)
SparkConfigured ==
    /\ "EventLogLimit" \in ToSet(SparkHeuristics)
    /\ \A l \in 3 .. 4 : Spark!Limits(<<"JobRuntime", "single_job">>)[l] \in Nat \ {0}
=============================================================================
