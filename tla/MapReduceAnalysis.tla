------------------------- MODULE MapReduceAnalysis -------------------------
(***************************************************************************)
(* The analysis of one finished MapReduce application by one executor:     *)
(* MapReduceFetcherHadoop2 reads it from the job history server, of large  *)
(* jobs only a random sample of the tasks; the configured heuristics run   *)
(* one after the other; AnalyticJob.getAnalysis adds up their results.     *)
(*                                                                         *)
(* The history server's data does not change any more, but every request   *)
(* may fail.  Job types and scheduler information are left out, and so is  *)
(* JobQueueLimitHeuristic: its constructor is protected, and the registry  *)
(* loads heuristics through public ones only.                              *)
(***************************************************************************)
EXTENDS MapReduceHeuristics

CONSTANTS
    Jobs,               \* jobs of the history server
    MaxSample,          \* MAX_SAMPLE_SIZE
    Heuristics          \* the heuristics configured for MapReduce, in order

HeuristicNames == MapperHeuristics \cup ReducerHeuristics \cup {"Exception"}

ASSUME AnalysisAssumption ==
    /\ \A j \in Jobs : DOMAIN j.tasks = 1 .. Len(j.tasks) /\ Len(j.tasks) \in Nat
    /\ \A j \in Jobs : \A i \in DOMAIN j.tasks :
          /\ j.tasks[i].counters \in [CounterNames -> Nat]
          /\ {j.tasks[i].time, j.tasks[i].shuffle, j.tasks[i].sort} \subseteq Nat
    /\ MaxSample \in Nat \ {0}
    /\ Heuristics \in Seq(HeuristicNames)

VARIABLES
    job,                \* the job on the history server
    pc,                 \* the next request or heuristic
    order,              \* its mappers and reducers in the order after the shuffle
    data,               \* the MapReduceApplicationData
    place,              \* the heuristic to run next
    results,            \* the results of the heuristics so far
    row                 \* severity and score of the result, when it is done

vars == <<job, pc, order, data, place, results, row>>

NoData == [succeeded |-> TRUE, diagnosis |-> "empty",
           memory |-> [map |-> Absent, reduce |-> Absent],
           mappers |-> <<>>, reducers |-> <<>>]

Init ==
    /\ job \in Jobs
    /\ pc = "conf"
    /\ order = [mappers |-> <<>>, reducers |-> <<>>]
    /\ data = NoData
    /\ place = 1
    /\ results = <<>>
    /\ row = [severity |-> NONE, score |-> 0]

-----------------------------------------------------------------------------
(* fetchData *)

Requesting == pc \in {"conf", "state", "counters", "tasks", "mappers", "reducers"}

(* A request fails: the exception leaves getAnalysis. *)
RequestFails ==
    /\ Requesting
    /\ pc' = "failed"
    /\ UNCHANGED <<job, order, data, place, results, row>>

ReadConf ==
    /\ pc = "conf"
    /\ data' = [data EXCEPT !.memory = job.memory]
    /\ pc' = "state"
    /\ UNCHANGED <<job, order, place, results, row>>

ReadState ==
    /\ pc = "state"
    /\ pc' = CASE job.state = "SUCCEEDED" -> "counters"
               [] job.state = "FAILED" -> "diagnosis"
               [] OTHER -> "failed"
    /\ data' = [data EXCEPT !.succeeded = (job.state # "FAILED")]
    /\ UNCHANGED <<job, order, place, results, row>>

(* Any exception while the stack trace is looked for means there is none.  *)
(* The mutant does not catch it.                                           *)
ReadDiagnosisUncaught ==
    /\ pc = "diagnosis"
    /\ \/ /\ job.diagnosed
          /\ data' = [data EXCEPT !.diagnosis = "stacktrace"]
          /\ pc' = "heuristics"
       \/ pc' = "failed" /\ UNCHANGED data
    /\ UNCHANGED <<job, order, place, results, row>>

ReadDiagnosis ==
    /\ pc = "diagnosis"
    /\ \E found \in {"stacktrace", "null"} :
          /\ found = "stacktrace" => job.diagnosed
          /\ data' = [data EXCEPT !.diagnosis = found]
    /\ pc' = "heuristics"
    /\ UNCHANGED <<job, order, place, results, row>>

(* The counters of the job are used by no heuristic. *)
ReadCounters ==
    /\ pc = "counters"
    /\ pc' = "tasks"
    /\ UNCHANGED <<job, order, data, place, results, row>>

(* getTaskDataAll: only tasks that succeeded; every type that is not MAP   *)
(* counts as a reducer.  Lists longer than MaxSample are shuffled.         *)
Succeeded(isMapper) ==
    {i \in DOMAIN job.tasks :
        job.tasks[i].state = "SUCCEEDED" /\ (job.tasks[i].type = "MAP") = isMapper}

Shuffled(S) ==
    {ids \in SetToSeqs(S) :
        Cardinality(S) > MaxSample \/ \A i, j \in DOMAIN ids : i < j => ids[i] < ids[j]}

Unread == [sampled |-> FALSE, counters |-> NoCounters, time |-> NoTime]

Unsampled(ids) == [i \in DOMAIN ids |-> Unread]

ReadTaskList ==
    /\ pc = "tasks"
    /\ \E m \in Shuffled(Succeeded(TRUE)), r \in Shuffled(Succeeded(FALSE)) :
          /\ order' = [mappers |-> m, reducers |-> r]
          /\ data' = [data EXCEPT !.mappers = Unsampled(m), !.reducers = Unsampled(r)]
    /\ pc' = "mappers"
    /\ UNCHANGED <<job, place, results, row>>

(* getTaskData: counters and times of the first MaxSample tasks, which are *)
(* read one after the other.  A mapper has no shuffle and no sort.  The    *)
(* mutant draws each task at random.                                       *)
SampledTask(id) ==
    LET task == job.tasks[id]
    IN  [sampled |-> TRUE, counters |-> task.counters,
         time |-> [total |-> task.time,
                   shuffle |-> IF task.type = "MAP" THEN 0 ELSE task.shuffle,
                   sort |-> IF task.type = "MAP" THEN 0 ELSE task.sort]]

NextTask(tasks) ==
    {i \in DOMAIN tasks : /\ i <= MaxSample
                          /\ ~tasks[i].sampled
                          /\ \A j \in 1 .. i - 1 : tasks[j].sampled}

ReadTaskWithReplacement ==
    /\ pc \in {"mappers", "reducers"}
    /\ \E i \in NextTask(data[pc]), id \in ToSet(order[pc]) :
          data' = [data EXCEPT ![pc][i] = SampledTask(id)]
    /\ UNCHANGED <<job, pc, order, place, results, row>>

ReadTask ==
    /\ pc \in {"mappers", "reducers"}
    /\ \E i \in NextTask(data[pc]) : data' = [data EXCEPT ![pc][i] = SampledTask(order[pc][i])]
    /\ UNCHANGED <<job, pc, order, place, results, row>>

TasksRead ==
    /\ pc \in {"mappers", "reducers"}
    /\ NextTask(data[pc]) = {}
    /\ pc' = IF pc = "mappers" THEN "reducers" ELSE "heuristics"
    /\ UNCHANGED <<job, order, data, place, results, row>>

-----------------------------------------------------------------------------
(* getAnalysis *)

Result(h) == [name |-> h, severity |-> Severity(h, data), score |-> Score(h, data)]

(* HeuristicResult.NO_DATA; isEmpty() is never true of a failed job.       *)
NoDataReceived ==
    /\ pc = "heuristics"
    /\ data.succeeded /\ data.mappers = <<>> /\ data.reducers = <<>>
    /\ results' = <<[name |-> "NoDataReceived", severity |-> LOW, score |-> 0]>>
    /\ pc' = "sum"
    /\ UNCHANGED <<job, order, data, place, row>>

RunHeuristic ==
    /\ pc = "heuristics"
    /\ ~(data.succeeded /\ data.mappers = <<>> /\ data.reducers = <<>>)
    /\ place <= Len(Heuristics)
    /\ \E result \in {Result(Heuristics[place])} :
           /\ pc' = IF result.severity = Throws THEN "failed" ELSE pc
           /\ results' = IF result.severity \in Severities THEN Append(results, result)
                         ELSE results
    /\ place' = place + 1
    /\ UNCHANGED <<job, order, data, row>>

HeuristicsRun ==
    /\ pc = "heuristics"
    /\ place > Len(Heuristics)
    /\ pc' = "sum"
    /\ UNCHANGED <<job, order, data, place, results, row>>

(* The worst severity and the sum of the scores. *)
SumUp ==
    /\ pc = "sum"
    /\ row' = [severity |-> Highest({results[i].severity : i \in DOMAIN results}),
               score |-> Total([i \in DOMAIN results |-> results[i].score])]
    /\ pc' = "done"
    /\ UNCHANGED <<job, order, data, place, results>>

Next ==
    \/ RequestFails
    \/ ReadConf \/ ReadState \/ ReadDiagnosis \/ ReadCounters \/ ReadTaskList
    \/ ReadTask \/ TasksRead
    \/ NoDataReceived \/ RunHeuristic \/ HeuristicsRun \/ SumUp

Spec == Init /\ [][Next]_vars

-----------------------------------------------------------------------------
(* Properties *)

TypeOK ==
    /\ job \in Jobs
    /\ pc \in {"conf", "state", "diagnosis", "counters", "tasks", "mappers", "reducers",
               "heuristics", "sum", "done", "failed"}
    /\ order.mappers \in Seq(Nat) /\ order.reducers \in Seq(Nat)
    /\ data.succeeded \in BOOLEAN
    /\ data.diagnosis \in {"empty", "stacktrace", "null"}
    /\ Len(data.mappers) = Len(order.mappers) /\ Len(data.reducers) = Len(order.reducers)
    /\ place \in 1 .. Len(Heuristics) + 1
    /\ \A i \in DOMAIN results :
          results[i].severity \in Severities /\ results[i].score \in Nat
    /\ row.severity \in Severities /\ row.score \in Nat

(* When the heuristics run, every task of the job that succeeded is there, *)
(* and as many as the limit allows are sampled: each has the counters and  *)
(* the times of one task of the job and of its kind, and no two have those *)
(* of the same.                                                            *)
SampleFaithful ==
    pc \in {"heuristics", "sum", "done"} /\ data.succeeded =>
        \A kind \in {"mappers", "reducers"} :
            LET ids == Succeeded(kind = "mappers")
                tasks == data[kind]
            IN  /\ Len(tasks) = Cardinality(ids)
                /\ \A i \in DOMAIN tasks : tasks[i].sampled <=> i <= MaxSample
                /\ \E source \in [{i \in DOMAIN tasks : tasks[i].sampled} -> ids] :
                      /\ \A i, j \in DOMAIN source : source[i] = source[j] => i = j
                      /\ \A i \in DOMAIN source : tasks[i] = SampledTask(source[i])

(* Once a succeeded job is fetched, no heuristic ends the analysis with an *)
(* exception, except over the speed of a mapper that took no time at all   *)
(* and over a size of containers that does not parse: none looks for       *)
(* counters where there are none, or for the median of nothing.            *)
OnlyZeroTimeThrows ==
    pc = "failed" /\ place > 1 =>
        \/ NotANumber \in {data.memory.map, data.memory.reduce}
        \/ \E i \in DOMAIN data.mappers :
              data.mappers[i].sampled /\ data.mappers[i].time.total = 0

(* A failed job is reported, with the exception and nothing else, even if  *)
(* the search for its stack trace fails.  Dr. Elephant's help says: "Dr.   *)
(* Elephant now starts to provide exception info for failed jobs."         *)
FailedJobReported ==
    ~data.succeeded /\ pc \in {"done", "failed"} =>
        /\ pc = "done"
        /\ results = <<[name |-> "Exception", severity |-> MODERATE, score |-> 0]>>
        /\ data.diagnosis = "stacktrace" => job.diagnosed

(* If all tasks of a kind are alike, the sample makes no difference: every *)
(* result is the one that all tasks would give.                            *)
Alike(ids) == \A i, j \in ids : SampledTask(i) = SampledTask(j)

AllTasks(ids) == Picked([id \in DOMAIN job.tasks |-> SampledTask(id)], ids)

SamplingNeutral ==
    pc = "done" /\ data.succeeded /\ Alike(Succeeded(TRUE)) /\ Alike(Succeeded(FALSE)) =>
        LET all == [data EXCEPT !.mappers = AllTasks(Succeeded(TRUE)),
                                !.reducers = AllTasks(Succeeded(FALSE))]
        IN  \A h \in MapperHeuristics \cup ReducerHeuristics :
                Severity(h, data) = Severity(h, all) /\ Score(h, data) = Score(h, all)

(* A result is worse than LOW exactly if it adds to the score: averages of *)
(* nothing, which look like very short and very small tasks, are no ground *)
(* for a complaint.                                                        *)
ComplaintsCount ==
    \A i \in DOMAIN results :
        results[i].name \in MapperHeuristics \cup ReducerHeuristics =>
            (results[i].severity > LOW <=> results[i].score > 0)

(* Inputs of two sizes are told apart exactly, wherever the first guess at *)
(* the middle lies and although the next ones are differences, not         *)
(* midpoints; the averages are whole numbers, so the sizes must differ by  *)
(* the number of tasks.                                                    *)
TwoSizesToldApart ==
    pc = "done" /\ data.succeeded =>
        \A tasks \in {data.mappers, data.reducers} :
            LET inputs == Inputs(tasks)
            IN  \A v, w \in ToSet(inputs) :
                    ToSet(inputs) = {v, w} /\ w >= v + Len(inputs) /\ v # w =>
                        TwoGroups(inputs) = <<Picked(inputs, {i \in DOMAIN inputs : inputs[i] = v}),
                                              Picked(inputs, {i \in DOMAIN inputs : inputs[i] = w})>>
-----------------------------------------------------------------------------
(* The inductive invariant behind SampleFaithful: at any time the tasks    *)
(* read are the first ones in the order after the shuffle.  It is proved   *)
(* in JobAnalysisProofs.                                             *)
Kinds == {"mappers", "reducers"}

Listed == pc \in {"mappers", "reducers", "heuristics", "sum", "done"} /\ data.succeeded

KindRead(kind) ==
    \/ pc \in {"heuristics", "sum", "done"}
    \/ pc = "reducers" /\ kind = "mappers"

ReadSoFar(kind, n) ==
    /\ n <= MaxSample
    /\ n <= Len(order[kind])
    /\ data[kind] = [i \in DOMAIN order[kind] |->
                        IF i <= n THEN SampledTask(order[kind][i]) ELSE Unread]
    /\ KindRead(kind) => n = MaxSample \/ n = Len(order[kind])

SampleInv ==
    /\ job \in Jobs
    /\ DOMAIN data = DOMAIN NoData
    /\ DOMAIN order = Kinds
    /\ pc = "diagnosis" => ~data.succeeded
    /\ Listed =>
          \A kind \in Kinds :
              /\ order[kind] \in SetToSeqs(Succeeded(kind = "mappers"))
              /\ \E n \in Nat : ReadSoFar(kind, n)

-----------------------------------------------------------------------------
(* What the theorems ask of a configuration, as HeuristicConf.xml and the  *)
(* limits in the heuristics' fields have it: ExceptionHeuristic is there   *)
(* once, and where no tasks are averaged, no level worse than LOW is       *)
(* reached by 0.                                                           *)
ExceptionAt(at) ==
    /\ at \in 1 .. Len(Heuristics)
    /\ \A i \in 1 .. Len(Heuristics) : Heuristics[i] = "Exception" <=> i = at

Guards ==
    ({"MapperDataSkew", "ReducerDataSkew", "MapperTime", "ReducerTime", "MapperSpill"}
        \X {"num_tasks"})
    \cup ({"MapperTime", "ReducerTime"} \X {"long_runtime"})
    \cup ({"MapperSpeed", "ShuffleSort"} \X {"runtime"})

LimitsAboveZero == \A p \in Guards : \A l \in 2 .. 4 : Limits(p)[l] \in Nat \ {0}
=============================================================================
