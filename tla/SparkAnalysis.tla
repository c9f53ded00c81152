--------------------------- MODULE SparkAnalysis ---------------------------
(***************************************************************************)
(* The analysis of one finished Spark application by one executor:         *)
(* SparkFSFetcher opens its event log, unless it is too large, and replays *)
(* it through listeners; SparkDataCollection reads what they have kept;    *)
(* six heuristics run over that.                                           *)
(*                                                                         *)
(* StorageStatusTrackingListener is part of this program.  The other       *)
(* listeners are Spark's (1.4): StorageStatusListener, ExecutorsListener   *)
(* and JobProgressListener, which forgets the first stages of a list when  *)
(* it grows too long.  They are modelled as far as the heuristics see      *)
(* them; stages of different jobs are different, and none is attempted     *)
(* again.  A log may end after any event.                                  *)
(***************************************************************************)
EXTENDS MapReduceHeuristics

CONSTANTS
    Applications,       \* applications whose logs are on the file system
    Driver,             \* the executor id of the driver
    LogLimit,           \* event_log_size_limit_in_mb
    RetainedStages,     \* spark.ui.retainedStages
    SparkHeuristics,    \* the heuristics configured for Spark, in order
    CoreLimit,          \* the one limit of num_core_severity
    SmallMemory,        \* MEMORY_OBSERVATION_THRESHOLD
    LargeStorage        \* the 500 GB of getMemoryUtilizationSeverity

SparkHeuristicNames ==
    {"BestProperties", "MemoryLimit", "StageRuntime", "JobRuntime", "ExecutorLoad",
     "EventLogLimit"}

SparkAssumption ==
    /\ RetainedStages \in Nat \ {0}
    /\ SparkHeuristics \in Seq(SparkHeuristicNames)
    /\ \A a \in Applications :
          /\ IsFiniteSet(a.tasks)
          /\ \A t \in a.tasks :
                IsFiniteSet(DOMAIN t.updates) /\ \A b \in DOMAIN t.updates : t.updates[b] \in Nat
          /\ \A j \in DOMAIN a.jobs : IsFiniteSet(a.jobs[j]) /\ a.jobs[j] \subseteq Nat
          /\ \A j, k \in DOMAIN a.jobs : j # k => a.jobs[j] \cap a.jobs[k] = {}

VARIABLES
    app,                \* the application and what its log may hold
    pc,                 \* what is done next
    throttled,          \* _isThrottled
    log,                \* the storage and task events replayed, in order
    status,             \* executorIdToStorageStatus: sizes of blocks, by executor
    peak,               \* executorIdToMaxUsedMem
    work,               \* durations and input of the tasks of each executor
    jobs,               \* jobIdToData
    stages,             \* stageIdToData and stageIdToInfo
    ended,              \* completedStages, failedStages and skippedStages
    phases,             \* where each stage of the application is
    results,            \* the results of the heuristics so far
    row                 \* severity and score of the result, when it is done

replayed == <<log, status, peak, work, jobs, stages, ended, phases>>
vars == <<app, pc, throttled, replayed, results, row>>

None == <<>>            \* the function without arguments

(* The entries of f, and where it has none those of g. *)
Over(f, g) == [x \in DOMAIN f \cup DOMAIN g |-> IF x \in DOMAIN f THEN f[x] ELSE g[x]]

With(f, x, value) == Over([y \in {x} |-> value], f)

Init ==
    /\ app \in Applications
    /\ pc = "open"
    /\ throttled = FALSE
    /\ log = <<>>
    /\ status = None /\ peak = None /\ work = None
    /\ jobs = None /\ stages = None /\ phases = None
    /\ ended = [completed |-> <<>>, failed |-> <<>>, skipped |-> <<>>]
    /\ results = <<>>
    /\ row = [severity |-> NONE, score |-> 0]

-----------------------------------------------------------------------------
(* fetchData *)

(* The file system fails, or the log directory holds no log. *)
FetchFails ==
    /\ pc \in {"open", "replay"}
    /\ pc' = "failed"
    /\ UNCHANGED <<app, throttled, replayed, results, row>>

(* A legacy log is a directory, whose length is 0. *)
ShouldThrottle == (IF app.legacy THEN 0 ELSE app.size) > LogLimit

OpenLog ==
    /\ pc = "open"
    /\ throttled' = ShouldThrottle
    /\ pc' = IF ShouldThrottle THEN "heuristics" ELSE "replay"
    /\ UNCHANGED <<app, replayed, results, row>>

ReplayEnds ==
    /\ pc = "replay"
    /\ pc' = "heuristics"
    /\ UNCHANGED <<app, throttled, replayed, results, row>>

-----------------------------------------------------------------------------
(* Storage events.  A block is <<rdd, partition>>; size 0 in an update     *)
(* stands for StorageLevel.NONE.                                           *)

Without(f, gone) == Restrict(f, DOMAIN f \ gone)

HeldMemory(blocks) == SumFunction(blocks)

MemUsed(e) == IF e \in DOMAIN peak THEN peak[e] ELSE 0

(* updateStorageStatus, both of them. *)
Updated(blocks, updates) ==
    LET all == Over(updates, blocks) IN Without(all, {b \in DOMAIN all : all[b] = 0})

WithoutRdd(blocks, rdd) == Without(blocks, {b \in DOMAIN blocks : b[1] = rdd})

(* updateUsedMem, once status has been updated.  The mutant keeps what is  *)
(* used now.                                                               *)
UsedMemNow(new) ==
    [e \in DOMAIN peak \cup {x \in DOMAIN new : HeldMemory(new[x]) > MemUsed(x)} |->
        IF e \in DOMAIN new THEN HeldMemory(new[e]) ELSE 0]

UsedMem(new) ==
    [e \in DOMAIN peak \cup {x \in DOMAIN new : HeldMemory(new[x]) > MemUsed(x)} |->
        IF e \in DOMAIN new /\ HeldMemory(new[e]) > MemUsed(e) THEN HeldMemory(new[e])
        ELSE peak[e]]

Replay(event) ==
    /\ pc = "replay"
    /\ Len(log) < app.events
    /\ log' = Append(log, event)
    /\ UNCHANGED <<app, pc, throttled, ended, phases, results, row>>

(* An executor that registers again comes without blocks. *)
BlockManagerAdded ==
    \E e \in DOMAIN app.storage :
        /\ Replay([kind |-> "added", executor |-> e])
        /\ status' = With(status, e, None)
        /\ UNCHANGED <<peak, work, jobs, stages>>

BlockManagerRemoved ==
    \E e \in DOMAIN status :
        /\ Replay([kind |-> "removed", executor |-> e])
        /\ status' = Without(status, {e})
        /\ UNCHANGED <<peak, work, jobs, stages>>

UnpersistRdd ==
    \E rdd \in app.rdds :
        /\ Replay([kind |-> "unpersisted", rdd |-> rdd])
        /\ status' = [e \in DOMAIN status |-> WithoutRdd(status[e], rdd)]
        /\ peak' = UsedMem(status')
        /\ UNCHANGED <<work, jobs, stages>>

-----------------------------------------------------------------------------
(* Tasks *)

NoWork == [duration |-> 0, input |-> 0]
WorkOf(e) == IF e \in DOMAIN work THEN work[e] ELSE NoWork

NoTasks == [completed |-> 0, failed |-> 0, duration |-> 0]
StageOf(s) == IF s \in DOMAIN stages THEN stages[s] ELSE NoTasks

Counted(tasks, ok) ==
    [tasks EXCEPT !.completed = @ + (IF ok THEN 1 ELSE 0),
                  !.failed = @ + (IF ok THEN 0 ELSE 1)]

(* A task may end after its stage, or after its executor has gone. *)
TaskEnd ==
    \E task \in app.tasks :
        LET e == task.executor
            new == IF e \in DOMAIN status
                   THEN [status EXCEPT ![e] = Updated(@, task.updates)] ELSE status
        IN  /\ task.stage \in DOMAIN phases /\ phases[task.stage] \in {"running", "ended"}
            /\ Replay([kind |-> "task", executor |-> e, updates |-> task.updates])
            /\ status' = new
            /\ peak' = IF task.updates = None THEN peak ELSE UsedMem(new)
            /\ work' = With(work, e, [duration |-> WorkOf(e).duration + task.duration,
                                      input |-> WorkOf(e).input + task.input])
            /\ stages' = With(stages, task.stage, Counted(StageOf(task.stage), task.ok))
            /\ jobs' = [j \in DOMAIN jobs |->
                           IF jobs[j].state = "running" /\ task.stage \in app.jobs[j]
                           THEN Counted(jobs[j], task.ok) ELSE jobs[j]]

-----------------------------------------------------------------------------
(* Jobs and stages *)

Progress ==
    /\ pc = "replay"
    /\ UNCHANGED <<app, pc, throttled, log, status, peak, work, results, row>>

JobStart ==
    \E j \in DOMAIN app.jobs \ DOMAIN jobs :
        /\ Progress
        /\ jobs' = With(jobs, j, [state |-> "running", completed |-> 0, failed |-> 0])
        /\ stages' = Over(stages, [s \in app.jobs[j] |-> NoTasks])
        /\ phases' = Over(phases, [s \in app.jobs[j] |-> "pending"])
        /\ UNCHANGED ended

StageSubmitted ==
    \E j \in DOMAIN jobs : \E s \in app.jobs[j] :
        /\ Progress
        /\ jobs[j].state = "running" /\ phases[s] = "pending"
        /\ phases' = [phases EXCEPT ![s] = "running"]
        /\ UNCHANGED <<jobs, stages, ended>>

(* trimStagesIfNecessary, after each stage that is added to a list: so     *)
(* often as the list has grown too long, its first stages go.              *)
Trimmed(list, added) ==
    LET longer == list \o added
        toRemove == IF RetainedStages >= 10 THEN RetainedStages \div 10 ELSE 1
        excess == Len(longer) - RetainedStages
        times == IF excess > 0 THEN (excess + toRemove - 1) \div toRemove ELSE 0
    IN  SubSeq(longer, times * toRemove + 1, Len(longer))

Dropped(list, added, kept) == (ToSet(list) \cup ToSet(added)) \ ToSet(kept)

StageCompleted ==
    \E s \in DOMAIN phases, which \in {"completed", "failed"}, d \in app.durations :
        LET kept == Trimmed(ended[which], <<s>>)
        IN  /\ Progress
            /\ phases[s] = "running"
            /\ phases' = [phases EXCEPT ![s] = "ended"]
            /\ ended' = [ended EXCEPT ![which] = kept]
            /\ stages' = Without(With(stages, s, [StageOf(s) EXCEPT !.duration = d]),
                                 Dropped(ended[which], <<s>>, kept))
            /\ UNCHANGED jobs

(* Stages of the job that were never submitted are skipped. *)
JobEnd ==
    \E j \in DOMAIN jobs, state \in {"completed", "failed"} :
        /\ Progress
        /\ jobs[j].state = "running"
        /\ jobs' = [jobs EXCEPT ![j].state = state]
        /\ \E skipped \in SetToSeqs({s \in app.jobs[j] : phases[s] = "pending"}) :
              LET kept == Trimmed(ended.skipped, skipped)
              IN  /\ ended' = [ended EXCEPT !.skipped = kept]
                  /\ stages' = Without(stages, Dropped(ended.skipped, skipped, kept))
                  /\ phases' = [s \in DOMAIN phases |->
                                   IF s \in ToSet(skipped) THEN "ended" ELSE phases[s]]

-----------------------------------------------------------------------------
(* What SparkDataCollection makes of it.  The peak of an executor is what  *)
(* the tracking listener knows; that nothing was written is what           *)
(* ExecutorInfo starts with, since outputBytes is never assigned.          *)
Executors == DOMAIN status
Workers == Executors \ {Driver}

NoEnvironment ==
    [serializer |-> "absent", shuffle |-> "absent", cores |-> Absent,
     driverMemory |-> Absent, executorMemory |-> Absent, instances |-> Absent,
     fraction |-> Absent]

Environment == IF throttled THEN NoEnvironment ELSE app.env

Given(value) == IF value = Absent THEN 0 ELSE value

IsEmpty == ~throttled /\ Executors = {}

JobsIn(state) == {j \in DOMAIN jobs : jobs[j].state = state}

(* getFailureRate, compared with limits. *)
FailureRate(completed, failed, limits) ==
    RatioAscending(failed, IF completed + failed = 0 THEN 1 ELSE completed + failed, limits)

-----------------------------------------------------------------------------
(* The heuristics *)

BestProperties ==
    LET env == Environment
        cores == IF env.cores = Absent THEN 1 ELSE env.cores
    IN  IF NotANumber \in {env.cores, env.driverMemory} THEN Throws
        ELSE Highest({IF "other" \in {env.serializer, env.shuffle} THEN MODERATE ELSE NONE,
                      IF cores > CoreLimit THEN CRITICAL ELSE NONE,
                      Ascending(Given(env.driverMemory) * Parts,
                                Limits(<<"BestProperties", "driver_memory">>))})

(* Without its memory the driver's is guessed from its part for storage.   *)
MemoryLimit ==
    LET env == Environment
        allocated == Given(env.instances) * Given(env.executorMemory)
        storage == SumFunction(Restrict(app.storage, Executors))
        used == SumFunction([e \in Executors |-> MemUsed(e)])
        guessed == Given(env.driverMemory) = 0 /\ Driver \in Executors
    IN  IF \/ NotANumber \in {env.instances, env.executorMemory, env.driverMemory}
           \/ guessed /\ env.fraction = NotANumber
        THEN Throws
        ELSE SeverityMax(Ascending(allocated * Parts, Limits(<<"MemoryLimit", "total_mem">>)),
                         IF storage < LargeStorage THEN NONE
                         ELSE RatioDescending(used, storage,
                                              Limits(<<"MemoryLimit", "mem_util">>)))

StageRuntime ==
    Highest({FailureRate(Len(ended.completed), Len(ended.failed),
                         Limits(<<"StageRuntime", "stage_failure">>))}
            \cup {FailureRate(stages[s].completed, stages[s].failed,
                              Limits(<<"StageRuntime", "single_stage">>)) :
                     s \in ToSet(ended.completed)}
            \cup {Ascending(stages[s].duration, Limits(<<"StageRuntime", "runtime">>)) :
                     s \in ToSet(ended.completed)})

FailedTasks(j) ==
    FailureRate(jobs[j].completed, jobs[j].failed, Limits(<<"JobRuntime", "single_job">>))

(* The jobs named in the details, after the last of their stages; the      *)
(* mutant names all jobs.                                                  *)
DescribedAll == DOMAIN jobs

Described ==
    JobsIn("failed") \cup {j \in JobsIn("completed") : FailedTasks(j) > MODERATE}

HasName(j) == app.jobs[j] = {} \/ Max(app.jobs[j]) \in DOMAIN stages

JobRuntime ==
    IF \E j \in Described : ~HasName(j) THEN Throws
    ELSE Highest({FailureRate(Cardinality(JobsIn("completed")), Cardinality(JobsIn("failed")),
                              Limits(<<"JobRuntime", "avg_job">>))}
                 \cup {FailedTasks(j) : j \in JobsIn("completed")})

(* ValueObserver, for a function on the executors. *)
Deviation(values, limits) ==
    LET average == IF values = None THEN 0
                   ELSE SumFunction(values) \div Cardinality(DOMAIN values)
        farthest == Max({0} \cup {IF v > average THEN v - average ELSE average - v :
                                     v \in Range(values)})
    IN  IF average = 0 THEN RatioAscending(0, 1, limits)
        ELSE RatioAscending(farthest, average, limits)

ExecutorLoad ==
    LET looser == Limits(<<"ExecutorLoad", "looser_deviation">>)
        tight == Limits(<<"ExecutorLoad", "deviation">>)
    IN  Highest({Deviation([e \in Workers |-> IF MemUsed(e) < SmallMemory THEN 0 ELSE MemUsed(e)],
                           looser),
                 Deviation([e \in Workers |-> WorkOf(e).duration], tight),
                 Deviation([e \in Workers |-> WorkOf(e).input], tight),
                 Deviation([e \in Workers |-> 0], looser)})

EventLogLimit == IF throttled THEN CRITICAL ELSE NONE

SparkSeverity(h) ==
    CASE h = "BestProperties" -> BestProperties
      [] h = "MemoryLimit" -> MemoryLimit
      [] h = "StageRuntime" -> StageRuntime
      [] h = "JobRuntime" -> JobRuntime
      [] h = "ExecutorLoad" -> ExecutorLoad
      [] h = "EventLogLimit" -> EventLogLimit

-----------------------------------------------------------------------------
(* getAnalysis.  The heuristics are pure and run one after the other; none *)
(* of them is ever null or scores.                                         *)
Report(name, severity) == [name |-> name, severity |-> severity, score |-> 0]

Recorded(reports) ==
    /\ results' = reports
    /\ row' = [severity |-> Highest({reports[i].severity : i \in DOMAIN reports}), score |-> 0]
    /\ pc' = "done"

NoDataReceived ==
    /\ pc = "heuristics"
    /\ IsEmpty
    /\ Recorded(<<Report("NoDataReceived", LOW)>>)
    /\ UNCHANGED <<app, throttled, replayed>>

RunHeuristics ==
    /\ pc = "heuristics"
    /\ ~IsEmpty
    /\ LET reports == [i \in DOMAIN SparkHeuristics |->
                          Report(SparkHeuristics[i], SparkSeverity(SparkHeuristics[i]))]
       IN  IF \E i \in DOMAIN reports : reports[i].severity = Throws
           THEN pc' = "thrown" /\ UNCHANGED <<results, row>>
           ELSE Recorded(reports)
    /\ UNCHANGED <<app, throttled, replayed>>

Next ==
    \/ OpenLog \/ FetchFails
    \/ BlockManagerAdded \/ BlockManagerRemoved \/ UnpersistRdd \/ TaskEnd
    \/ JobStart \/ StageSubmitted \/ StageCompleted \/ JobEnd \/ ReplayEnds
    \/ NoDataReceived \/ RunHeuristics

Spec == Init /\ [][Next]_vars

-----------------------------------------------------------------------------
(* Properties *)

TypeOK ==
    /\ app \in Applications
    /\ pc \in {"open", "replay", "heuristics", "done", "failed", "thrown"}
    /\ throttled \in BOOLEAN
    /\ DOMAIN status \subseteq DOMAIN app.storage /\ DOMAIN peak \subseteq DOMAIN app.storage
    /\ \A e \in DOMAIN peak : peak[e] \in Nat
    /\ DOMAIN jobs \subseteq DOMAIN app.jobs
    /\ DOMAIN stages \subseteq DOMAIN phases
    /\ \A list \in {"completed", "failed", "skipped"} :
          ToSet(ended[list]) \subseteq DOMAIN stages /\ Len(ended[list]) <= RetainedStages
    /\ \A i \in DOMAIN results : results[i].severity \in Severities
    /\ row.severity \in Severities

(* What the log says an executor held after its first k events.            *)
Blocks == UNION {DOMAIN task.updates : task \in app.tasks}

Changes(event, e, b) ==
    CASE event.kind = "task" -> event.executor = e /\ b \in DOMAIN event.updates
      [] event.kind = "unpersisted" -> event.rdd = b[1]
      [] OTHER -> event.executor = e

SizeAfter(k, e, b) ==
    LET last == Max({0} \cup {i \in 1 .. k : Changes(log[i], e, b)})
    IN  IF last # 0 /\ log[last].kind = "task" THEN log[last].updates[b] ELSE 0

RegisteredAfter(k, e) ==
    LET last == Max({0} \cup {i \in 1 .. k : /\ log[i].kind \in {"added", "removed"}
                                             /\ log[i].executor = e})
    IN  last # 0 /\ log[last].kind = "added"

MemoryAfter(k, e) ==
    IF RegisteredAfter(k, e) THEN SumFunction([b \in Blocks |-> SizeAfter(k, e, b)]) ELSE 0

(* The memory reported of an executor is the most it held at any time of   *)
(* the application, also if its block manager was removed or registered    *)
(* again in between, if blocks were dropped or unpersisted, and if tasks   *)
(* ended after it had gone; and the executors reported are those that are  *)
(* registered in the end.                                                  *)
PeakReported ==
    pc = "heuristics" /\ ~throttled =>
        /\ Executors = {e \in DOMAIN app.storage : RegisteredAfter(Len(log), e)}
        /\ \A e \in Executors : MemUsed(e) = Max({MemoryAfter(k, e) : k \in 0 .. Len(log)})

(* An application whose log is not read is reported, as CRITICAL.  Of the  *)
(* others no heuristic ends the analysis with an exception, unless a       *)
(* property does not parse, or more stages ended than Spark retains and    *)
(* there was a failure: then the job that failed may have lost its name.   *)
SparkJobReported ==
    /\ throttled /\ pc # "heuristics" => pc = "done" /\ row.severity = CRITICAL
    /\ pc = "thrown" =>
          \/ NotANumber \in {app.env.cores, app.env.driverMemory, app.env.instances,
                             app.env.executorMemory, app.env.fraction}
          \/ /\ Cardinality({s \in DOMAIN phases : phases[s] = "ended"}) > RetainedStages
             /\ \E j \in DOMAIN jobs : jobs[j].state = "failed" \/ jobs[j].failed > 0
=============================================================================
