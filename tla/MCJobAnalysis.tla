--------------------------- MODULE MCJobAnalysis ---------------------------
(* For TLC: MapReduce jobs of up to four tasks that differ in what they    *)
(* measured, Spark applications that cache blocks or run several jobs.     *)
EXTENDS JobAnalysis

Counters(input, gc, memory, spilled, output) ==
    [input |-> input, gc |-> gc, cpu |-> 10, memory |-> memory,
     spilled |-> spilled, output |-> output]

Task(type, state, time, counters) ==
    [type |-> type, state |-> state, time |-> time, shuffle |-> time \div 2, sort |-> 1,
     counters |-> counters]

MCTaskList ==
    <<Task("MAP", "SUCCEEDED", 2, Counters(6, 0, 1, 4, 2)),
      Task("MAP", "SUCCEEDED", 8, Counters(10, 4, 3, 1, 0)),
      Task("MAP", "KILLED", 8, Counters(10, 4, 3, 1, 0)),
      Task("REDUCE", "SUCCEEDED", 9, Counters(30, 2, 4, 0, 0)),
      Task("REDUCE", "SUCCEEDED", 0, Counters(1, 0, 1, 0, 0))>>

MCTasks == ToSet(MCTaskList)

(* Any number of each kind.  More than two of one type are shuffled; two   *)
(* in either order are in the shorter lists.                               *)
FourTasks ==
    {[i \in 1 .. 4 |-> MCTaskList[kind[i]]] :
        kind \in {k \in [1 .. 4 -> DOMAIN MCTaskList] : \A i \in 1 .. 3 : k[i] <= k[i + 1]}}

MCOddTasks == {Task("MAP", "SUCCEEDED", 0, Counters(6, 0, 1, 4, 2)),
               Task("MAP", "SUCCEEDED", 8, Counters(30, 1, 0, 1, 1))}

Job(state, diagnosed, memory, tasks) ==
    [state |-> state, diagnosed |-> diagnosed, tasks |-> tasks,
     memory |-> [map |-> memory, reduce |-> 4]]

MCJobs ==
    {Job("SUCCEEDED", FALSE, 8, tasks) :
        tasks \in UNION {[1 .. n -> MCTasks] : n \in 0 .. 3} \cup FourTasks}
    \cup {Job("SUCCEEDED", FALSE, Absent, tasks) : tasks \in [1 .. 3 -> MCOddTasks]}
    \cup {Job("SUCCEEDED", FALSE, NotANumber, tasks) : tasks \in [1 .. 1 -> MCTasks]}
    \cup {Job(state, diagnosed, NotANumber, <<>>) :
             state \in {"FAILED", "KILLED"}, diagnosed \in BOOLEAN}

MCHeuristics ==
    <<"MapperDataSkew", "MapperGC", "MapperTime", "MapperSpeed", "MapperSpill",
      "MapperMemory", "ReducerDataSkew", "ReducerGC", "ReducerTime", "ReducerMemory",
      "ShuffleSort", "Exception">>

MCSparkHeuristics ==
    <<"BestProperties", "MemoryLimit", "StageRuntime", "JobRuntime", "ExecutorLoad",
      "EventLogLimit">>

Small == <<1, 2, 3, 4>>
Short == <<5, 4, 3, 2>>
Fewer == <<8, 6, 4, 2>>

FailureRates == {"stage_failure", "single_stage", "single_job", "avg_job"}

MCDefault ==
    [p \in (MapperHeuristics \cup ReducerHeuristics \cup ToSet(MCSparkHeuristics)) \X
           ({"deviation", "files", "num_tasks", "gc_ratio", "runtime", "memory_ratio",
             "container_memory", "short_runtime", "long_runtime", "disk_speed", "spill",
             "runtime_ratio", "driver_memory", "total_mem", "mem_util", "looser_deviation"}
            \cup FailureRates) |->
        CASE p[2] \in FailureRates -> <<0, 3, 5, 5>>
          [] p[2] \in {"driver_memory", "total_mem"} -> <<40, 40, 80, 80>>
          [] p[2] = "mem_util" -> Fewer
          [] p[2] = "short_runtime" -> Short
          [] p[2] \in {"memory_ratio", "disk_speed"} -> Fewer
          [] p[2] = "long_runtime" -> <<6, 7, 8, 9>>
          [] OTHER -> Small]

MCParams ==
    (<<"MapperSpill", "spill">> :> <<11, 12, 20, 30>>)
    @@ (<<"MapperGC", "gc_ratio">> :> <<1, 2>>)
    @@ (<<"ReducerGC", "gc_ratio">> :> <<1, 1, 1, NotANumber>>)

MCUnit == [p \in DOMAIN MCDefault |-> IF p[2] = "files" THEN 40 ELSE IF p[2] = "disk_speed" THEN 2 ELSE 1]

Environ(driverMemory, instances, fraction) ==
    [serializer |-> "kryo", shuffle |-> "other", cores |-> 1, driverMemory |-> driverMemory,
     executorMemory |-> 2, instances |-> instances, fraction |-> fraction]

SparkTask(executor, stage, ok, updates) ==
    [executor |-> executor, stage |-> stage, ok |-> ok, duration |-> 3, input |-> 1,
     updates |-> updates]

NoUpdates == <<>>

(* Two executors that cache blocks of two RDDs. *)
Caching ==
    [legacy |-> FALSE, size |-> 1, storage |-> [e \in {"e1", "e2"} |-> 8],
     tasks |-> {SparkTask("e1", 1, TRUE, (<<1, 1>> :> 2)),
                SparkTask("e1", 1, FALSE, (<<1, 1>> :> 0) @@ (<<2, 1>> :> 3)),
                SparkTask("e2", 1, TRUE, (<<1, 2>> :> 1))},
     rdds |-> {1}, events |-> 4, jobs |-> (1 :> {1}), durations |-> {1}, env |-> Environ(4, 2, 1)]

(* Two jobs with a stage and two stages, of which one is retained. *)
Working ==
    [legacy |-> FALSE, size |-> 1, storage |-> ("driver" :> 4),
     tasks |-> {SparkTask("driver", 1, ok, NoUpdates) : ok \in BOOLEAN},
     rdds |-> {}, events |-> 2, jobs |-> (1 :> {1}) @@ (2 :> {2, 3}), durations |-> {8},
     env |-> Environ(Absent, 2, 1)]

Idle(legacy, size, env) ==
    [legacy |-> legacy, size |-> size, storage |-> ("driver" :> 4), tasks |-> {}, rdds |-> {}, events |-> 2,
     jobs |-> NoUpdates, durations |-> {}, env |-> env]

MCApplications ==
    {Caching, Working}
    \cup {Idle(legacy, 9, Environ(NotANumber, Absent, 1)) : legacy \in BOOLEAN}
    \cup {Idle(TRUE, 1, Environ(Absent, NotANumber, 1)), Idle(TRUE, 1, Environ(Absent, 1, NotANumber))}

JobType(name, isDefault) == [name |-> name, isDefault |-> isDefault]

MCJobTypeConf ==
    [t \in {"MAPREDUCE", "SPARK"} |->
        IF t = "SPARK" THEN <<JobType("Spark", TRUE)>>
        ELSE <<JobType("HadoopJava", TRUE), JobType("Pig", FALSE), JobType("Hive", FALSE)>>]

MCSchedulerConf == <<"airflow", "azkaban">>

Complete == [id \in Ids |-> "set"]
Missing == [id \in Ids |-> "absent"]

Found(types, airflow, azkaban) ==
    [types |-> types,
     ids |-> [s \in {"airflow", "azkaban"} |-> IF s = "airflow" THEN airflow ELSE azkaban]]

MCProperties ==
    {Found({"HadoopJava", "Hive", "Spark"}, Missing, Complete),
     Found({}, [Complete EXCEPT !.jobExec = "absent"], [Complete EXCEPT !.flowDef = "empty"])}

(* The configuration is one the theorems of JobAnalysisProofs are about.   *)
ASSUME ConfigurationAssumption ==
    /\ LimitsAboveZero
    /\ \E at \in 1 .. Len(Heuristics) : ExceptionAt(at)
    /\ SparkConfigured
=============================================================================
