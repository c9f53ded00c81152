------------------------- MODULE JobAnalysisProofs -------------------------
(***************************************************************************)
(* Proofs about the analysis of a job, for every job, every sample size    *)
(* and every configuration.                                                *)
(*                                                                         *)
(* SampleInv says that the tasks read so far are the first ones in the     *)
(* order after the shuffle; AnalysisInv adds what each stage of the        *)
(* analysis may rely on.  From there on everything is about the lists the  *)
(* heuristics look at: which severities come out (SeverityType), what is   *)
(* said of no tasks (SilentWithoutTasks), of inputs of two sizes           *)
(* (TwoSizes) and of tasks that are alike (SeverityAlike).  Totals are     *)
(* computed by a fold over the places of a list, whose value is that of    *)
(* any additive function of sets of places (TotalIs).                      *)
(*                                                                         *)
(* Of a Spark analysis, StatusInv says that what the listeners keep is     *)
(* what the log says, and PeakInv that every peak is the largest so far.   *)
(* StagesInv says which stages the trimmed lists name and whose data are   *)
(* forgotten, from which SparkInv concludes why a heuristic can throw.     *)
(* TypesInv is the type invariant of both types of analysis.               *)
(***************************************************************************)
EXTENDS JobAnalysis, NumberedSets

(* SetToSeqs lists every element of a finite set once.                     *)
LEMMA Listing ==
    ASSUME NEW S, IsFiniteSet(S), NEW ids \in SetToSeqs(S)
    PROVE  /\ Cardinality(S) \in Nat
           /\ DOMAIN ids = 1 .. Cardinality(S)
           /\ Len(ids) = Cardinality(S)
           /\ \A i \in DOMAIN ids : ids[i] \in S
           /\ \A i, j \in DOMAIN ids : ids[i] = ids[j] => i = j
<1> DEFINE n == Cardinality(S)
<1>1. n \in Nat
  BY FS_CardinalityType
<1>2. ids \in [1 .. n -> S] /\ \A i, j \in 1 .. n : i # j => ids[i] # ids[j]
  BY DEF SetToSeqs
<1> HIDE DEF n
<1>3. Len(ids) = n
  BY <1>1, <1>2
<1> QED BY <1>1, <1>2, <1>3 DEF n

(* The tasks of a kind that succeeded are finitely many.                   *)
LEMMA SucceededFinite ==
    ASSUME job \in Jobs, NEW isMapper
    PROVE  IsFiniteSet(Succeeded(isMapper))
<1>1. DOMAIN job.tasks = 1 .. Len(job.tasks) /\ Len(job.tasks) \in Nat
  BY AnalysisAssumption
<1>2. IsFiniteSet(1 .. Len(job.tasks))
  <2>1. 1 \in Int /\ Len(job.tasks) \in Int
    BY <1>1
  <2> QED BY <2>1, FS_Interval
<1>3. Succeeded(isMapper) \subseteq 1 .. Len(job.tasks)
  BY <1>1 DEF Succeeded
<1> QED BY <1>2, <1>3, FS_Subset

(* Reading the next task continues what was read so far.                   *)
LEMMA ReadTaskNext ==
    ASSUME SampleInv, ReadTask, Listed', NEW kind \in Kinds
    PROVE  \E n \in Nat : ReadSoFar(kind, n)'
<1> USE AnalysisAssumption DEF Kinds
<1>1. pc \in Kinds /\ pc' = pc /\ order' = order /\ job' = job
  BY DEF ReadTask
<1>2. PICK i \in NextTask(data[pc]) :
         data' = [data EXCEPT ![pc][i] = SampledTask(order[pc][i])]
  BY DEF ReadTask
<1>3. /\ DOMAIN data = DOMAIN NoData /\ pc \in DOMAIN data /\ kind \in DOMAIN data
      /\ "succeeded" \in DOMAIN data /\ pc # "succeeded"
  BY <1>1 DEF SampleInv, NoData
<1>4. Listed
  BY <1>1, <1>2, <1>3 DEF Listed
<1>5. PICK n \in Nat : ReadSoFar(kind, n)
  BY <1>4 DEF SampleInv
<1>6. /\ IsFiniteSet(Succeeded(kind = "mappers"))
      /\ order[kind] \in SetToSeqs(Succeeded(kind = "mappers"))
      /\ DOMAIN data[kind] = DOMAIN order[kind]
  BY <1>4, <1>5, SucceededFinite DEF SampleInv, ReadSoFar
<1>7. DOMAIN order[kind] = 1 .. Len(order[kind]) /\ Len(order[kind]) \in Nat
  BY <1>6, Listing
<1>8. CASE kind # pc
  <2>1. data'[kind] = data[kind]
    BY <1>8, <1>2, <1>3
  <2>2. ReadSoFar(kind, n)'
    BY <2>1, <1>1, <1>5 DEF ReadSoFar, KindRead, SampledTask
  <2> QED BY <2>2
<1>9. CASE kind = pc
  <2>1. data'[kind] = [data[kind] EXCEPT ![i] = SampledTask(order[kind][i])]
    BY <1>9, <1>2, <1>3
  <2>2. /\ i \in 1 .. Len(order[kind]) /\ i <= MaxSample
        /\ ~data[kind][i].sampled /\ \A j \in 1 .. i - 1 : data[kind][j].sampled
    BY <1>2, <1>6, <1>7, <1>9 DEF NextTask
  <2>3. \A j \in 1 .. Len(order[kind]) : j > n => data[kind][j] = Unread
    <3> SUFFICES ASSUME NEW j \in 1 .. Len(order[kind]), j > n
                 PROVE  data[kind][j] = Unread
      OBVIOUS
    <3>1. ~(j <= n)
      BY <1>7
    <3> QED BY <3>1, <1>5, <1>7 DEF ReadSoFar
  <2>4. \A j \in 1 .. Len(order[kind]) :
            j <= n => data[kind][j] = SampledTask(order[kind][j])
    BY <1>5, <1>7 DEF ReadSoFar
  <2>5. i = n + 1
    <3>1. \A id : SampledTask(id).sampled = TRUE
      BY DEF SampledTask
    <3>2. ~(i <= n)
      BY <2>2, <2>4, <3>1
    <3>3. ~(i > n + 1)
      <4> SUFFICES ASSUME i > n + 1 PROVE FALSE
        OBVIOUS
      <4>1. n + 1 \in 1 .. i - 1 /\ n + 1 \in 1 .. Len(order[kind]) /\ n + 1 > n
        BY <2>2, <1>7
      <4>2. data[kind][n + 1].sampled /\ data[kind][n + 1] = Unread
        BY <4>1, <2>2, <2>3
      <4> QED BY <4>2 DEF Unread
    <3> QED BY <2>2, <3>2, <3>3, <1>7
  <2>6. ASSUME NEW j \in 1 .. Len(order[kind])
        PROVE  data'[kind][j] = IF j <= n + 1 THEN SampledTask(order[kind][j]) ELSE Unread
    <3>1. CASE j = i
      BY <3>1, <2>1, <2>5, <1>6, <1>7
    <3>2. CASE j # i
      <4>1. data'[kind][j] = data[kind][j]
        BY <3>2, <2>1, <1>6, <1>7
      <4>2. CASE j <= n
        BY <4>1, <4>2, <2>4
      <4>3. CASE j > n
        <5>1. ~(j <= n + 1)
          BY <4>3, <3>2, <2>5, <1>7
        <5> QED BY <5>1, <4>1, <4>3, <2>3
      <4> QED BY <4>2, <4>3, <1>7
    <3> QED BY <3>1, <3>2
  <2>7. ~KindRead(kind)'
    BY <1>1, <1>9 DEF KindRead
  <2>8. ReadSoFar(kind, n + 1)'
    <3>1. n + 1 <= MaxSample /\ n + 1 <= Len(order[kind])
      BY <2>2, <2>5, <1>1
    <3>2. data'[kind] = [j \in DOMAIN order[kind] |->
                            IF j <= n + 1 THEN SampledTask(order[kind][j]) ELSE Unread]
      BY <2>1, <2>6, <1>6, <1>7
    <3> QED BY <2>7, <3>1, <3>2, <1>1 DEF ReadSoFar, SampledTask
  <2> QED BY <2>8
<1> QED BY <1>8, <1>9

(* Before a list is read there is nothing to show.                         *)
LEMMA SampleInit == Init => SampleInv
BY DEF Init, SampleInv, Listed, Kinds, NoData

(* A step that reads no task and no list leaves the sample as it is.       *)
LEMMA SampleFrame ==
    ASSUME SampleInv, Listed, job' = job, order' = order, data' = data,
           \A kind \in Kinds : KindRead(kind)' =>
               \A n \in Nat : ReadSoFar(kind, n) => n = MaxSample \/ n = Len(order[kind])
    PROVE  \A kind \in Kinds :
              /\ order'[kind] \in SetToSeqs(Succeeded(kind = "mappers")')
              /\ \E n \in Nat : ReadSoFar(kind, n)'
<1> SUFFICES ASSUME NEW kind \in Kinds
             PROVE  /\ order'[kind] \in SetToSeqs(Succeeded(kind = "mappers")')
                    /\ \E n \in Nat : ReadSoFar(kind, n)'
  OBVIOUS
<1>1. PICK n \in Nat : ReadSoFar(kind, n)
  BY DEF SampleInv
<1>2. ReadSoFar(kind, n)'
  BY <1>1 DEF ReadSoFar, SampledTask
<1>3. Succeeded(kind = "mappers")' = Succeeded(kind = "mappers")
  BY DEF Succeeded
<1> QED BY <1>2, <1>3 DEF SampleInv

(* The lists come unread from the history server.                          *)
LEMMA ListNext ==
    ASSUME SampleInv, ReadTaskList
    PROVE  SampleInv'
<1> USE DEF Kinds
<1>1. PICK m \in Shuffled(Succeeded(TRUE)), r \in Shuffled(Succeeded(FALSE)) :
         /\ order' = [mappers |-> m, reducers |-> r]
         /\ data' = [data EXCEPT !.mappers = Unsampled(m), !.reducers = Unsampled(r)]
  BY DEF ReadTaskList
<1>2. pc' = "mappers" /\ job' = job
  BY DEF ReadTaskList
<1>3. /\ DOMAIN data' = DOMAIN NoData /\ DOMAIN order' = Kinds
      /\ data'["mappers"] = Unsampled(m) /\ data'["reducers"] = Unsampled(r)
      /\ order'["mappers"] = m /\ order'["reducers"] = r
  BY <1>1 DEF SampleInv, NoData
<1>4. \A isMapper : Succeeded(isMapper)' = Succeeded(isMapper)
  BY <1>2 DEF Succeeded
<1>5. ASSUME NEW kind \in Kinds
      PROVE  /\ order'[kind] \in SetToSeqs(Succeeded(kind = "mappers"))
             /\ data'[kind] = Unsampled(order'[kind])
  <2>1. CASE kind = "mappers"
    <3>1. (kind = "mappers") = TRUE
      BY <2>1
    <3> QED BY <2>1, <3>1, <1>3 DEF Shuffled
  <2>2. CASE kind = "reducers"
    <3>1. (kind = "mappers") = FALSE
      BY <2>2
    <3> QED BY <2>2, <3>1, <1>3 DEF Shuffled
  <2> QED BY <2>1, <2>2
<1>6. ASSUME NEW kind \in Kinds
      PROVE  ReadSoFar(kind, 0)'
  <2>1. IsFiniteSet(Succeeded(kind = "mappers"))
    BY SucceededFinite DEF SampleInv
  <2>2. DOMAIN order'[kind] = 1 .. Len(order'[kind]) /\ Len(order'[kind]) \in Nat
    BY <2>1, <1>5, Listing
  <2>3. /\ data'[kind] = [i \in DOMAIN order'[kind] |-> Unread]
        /\ \A i \in DOMAIN order'[kind] : ~(i <= 0)
    BY <2>2, <1>5 DEF Unsampled
  <2>4. 0 <= MaxSample /\ 0 <= Len(order'[kind])
    BY <2>2, AnalysisAssumption
  <2>5. ~KindRead(kind)'
    BY <1>2 DEF KindRead
  <2> QED BY <2>3, <2>4, <2>5 DEF ReadSoFar
<1>7. ASSUME NEW kind \in Kinds
      PROVE  /\ order'[kind] \in SetToSeqs(Succeeded(kind = "mappers")')
             /\ \E n \in Nat : ReadSoFar(kind, n)'
  BY <1>4, <1>5, <1>6
<1> QED BY <1>2, <1>3, <1>7 DEF SampleInv

(* When no task is left to be read, the sample is complete.                *)
LEMMA SampleComplete ==
    ASSUME SampleInv, Listed, NEW kind \in Kinds, NextTask(data[kind]) = {},
           NEW n \in Nat, ReadSoFar(kind, n)
    PROVE  n = MaxSample \/ n = Len(order[kind])
<1> SUFFICES ASSUME n # MaxSample, n # Len(order[kind])
             PROVE  FALSE
  OBVIOUS
<1>1. /\ DOMAIN order[kind] = 1 .. Len(order[kind]) /\ Len(order[kind]) \in Nat
      /\ DOMAIN data[kind] = DOMAIN order[kind]
  BY SucceededFinite, Listing DEF SampleInv, ReadSoFar
<1>2. MaxSample \in Nat /\ n < MaxSample /\ n < Len(order[kind])
  BY <1>1, AnalysisAssumption DEF ReadSoFar
<1>3. n + 1 \in DOMAIN data[kind] /\ n + 1 <= MaxSample
  BY <1>1, <1>2
<1>4. ~data[kind][n + 1].sampled
  <2>1. ~(n + 1 <= n) /\ n + 1 \in DOMAIN order[kind]
    BY <1>1, <1>3
  <2>2. data[kind][n + 1] = Unread
    BY <2>1 DEF ReadSoFar
  <2> QED BY <2>2 DEF Unread
<1>5. ASSUME NEW j \in 1 .. (n + 1) - 1
      PROVE  data[kind][j].sampled
  <2>1. j <= n /\ j \in DOMAIN order[kind]
    BY <1>1, <1>2
  <2>2. data[kind][j] = SampledTask(order[kind][j])
    BY <2>1 DEF ReadSoFar
  <2> QED BY <2>2 DEF SampledTask
<1>6. n + 1 \in NextTask(data[kind])
  BY <1>3, <1>4, <1>5 DEF NextTask
<1> QED BY <1>6

(* A step that leaves the data alone and does not end reading the tasks of *)
(* a kind, or ends it when there is none left, keeps the invariant.        *)
LEMMA QuietNext ==
    ASSUME SampleInv, job' = job, order' = order, data' = data,
           pc' # "diagnosis", Listed' => Listed,
           \A kind \in Kinds :
               KindRead(kind)' => KindRead(kind) \/ NextTask(data[kind]) = {}
    PROVE  SampleInv'
<1>1. CASE Listed
  <2>1. ASSUME NEW kind \in Kinds, KindRead(kind)', NEW n \in Nat, ReadSoFar(kind, n)
        PROVE  n = MaxSample \/ n = Len(order[kind])
    <3>1. CASE KindRead(kind)
      BY <2>1, <3>1 DEF ReadSoFar
    <3>2. CASE NextTask(data[kind]) = {}
      BY <2>1, <3>2, <1>1, SampleComplete
    <3> QED BY <2>1, <3>1, <3>2
  <2> QED BY <2>1, <1>1, SampleFrame DEF SampleInv
<1>2. CASE ~Listed
  BY <1>2 DEF SampleInv
<1> QED BY <1>1, <1>2

(* A step of the analysis of a MapReduce job, or one that leaves it alone. *)
LEMMA SampleNext ==
    ASSUME SampleInv, Next \/ UNCHANGED mapReduceState
    PROVE  SampleInv'
<1> USE DEF Kinds
<1>1. CASE RequestFails
  BY <1>1 DEF RequestFails, SampleInv, Listed
<1>2. CASE ReadConf
  BY <1>2 DEF ReadConf, SampleInv, Listed
<1>3. CASE ReadState
  <2>1. /\ pc' \in {"counters", "diagnosis", "failed"} /\ job' = job /\ order' = order
        /\ pc' = "diagnosis" => job.state = "FAILED"
        /\ data' = [data EXCEPT !.succeeded = (job.state # "FAILED")]
    BY <1>3 DEF ReadState
  <2>2. DOMAIN data' = DOMAIN data /\ "succeeded" \in DOMAIN data
    BY <2>1 DEF SampleInv, NoData
  <2>3. data'.succeeded = (job.state # "FAILED")
    BY <2>1, <2>2
  <2> QED BY <2>1, <2>2, <2>3 DEF SampleInv, Listed
<1>4. CASE ReadDiagnosis
  <2>1. ~data.succeeded
    BY <1>4 DEF ReadDiagnosis, SampleInv
  <2>2. /\ pc' = "heuristics" /\ job' = job /\ order' = order
        /\ DOMAIN data' = DOMAIN data /\ data'.succeeded = data.succeeded
    BY <1>4 DEF ReadDiagnosis, SampleInv, NoData
  <2> QED BY <2>1, <2>2 DEF SampleInv, Listed
<1>5. CASE ReadCounters
  BY <1>5 DEF ReadCounters, SampleInv, Listed
<1>6. CASE ReadTaskList
  BY <1>6, ListNext
<1>7. CASE ReadTask
  <2>1. /\ pc \in Kinds /\ pc' = pc /\ order' = order /\ job' = job
        /\ DOMAIN data' = DOMAIN data /\ data'["succeeded"] = data["succeeded"]
    BY <1>7 DEF ReadTask, SampleInv, NoData
  <2>2. ASSUME Listed'
        PROVE  \A kind \in Kinds : order'[kind] \in SetToSeqs(Succeeded(kind = "mappers")')
    BY <2>1, <2>2 DEF SampleInv, Listed, Succeeded
  <2>3. ASSUME Listed', NEW kind \in Kinds
        PROVE  \E n \in Nat : ReadSoFar(kind, n)'
    BY <1>7, <2>3, ReadTaskNext
  <2> QED BY <2>1, <2>2, <2>3 DEF SampleInv
<1>8. CASE TasksRead
  <2>1. /\ pc \in Kinds /\ NextTask(data[pc]) = {}
        /\ pc' = IF pc = "mappers" THEN "reducers" ELSE "heuristics"
        /\ job' = job /\ order' = order /\ data' = data
    BY <1>8 DEF TasksRead
  <2>2. Listed' => Listed
    BY <2>1 DEF Listed
  <2>3. \A kind \in Kinds : KindRead(kind)' => KindRead(kind) \/ NextTask(data[kind]) = {}
    BY <2>1 DEF KindRead
  <2> QED BY <2>1, <2>2, <2>3, QuietNext
<1>9. CASE NoDataReceived \/ RunHeuristic \/ HeuristicsRun \/ SumUp
  <2>1. /\ pc \in {"heuristics", "sum"} /\ pc' \in {"heuristics", "sum", "done", "failed"}
        /\ job' = job /\ order' = order /\ data' = data
    BY <1>9 DEF NoDataReceived, RunHeuristic, HeuristicsRun, SumUp
  <2>2. (Listed' => Listed) /\ \A kind \in Kinds : KindRead(kind)
    BY <2>1 DEF Listed, KindRead
  <2> QED BY <2>1, <2>2, QuietNext
<1>10. CASE UNCHANGED mapReduceState
  <2>1. job' = job /\ order' = order /\ data' = data /\ pc' = pc
    BY <1>10 DEF mapReduceState
  <2>2. SampleInv' <=> SampleInv
    BY <2>1 DEF SampleInv, Listed, ReadSoFar, KindRead, Succeeded, SampledTask
  <2> QED BY <2>2
<1> QED BY <1>1, <1>2, <1>3, <1>4, <1>5, <1>6, <1>7, <1>8, <1>9, <1>10 DEF Next

(* The tasks read first, in the order after the shuffle, are the sample.   *)
LEMMA SampleShown == SampleInv => SampleFaithful
<1> USE DEF Kinds
<1> SUFFICES ASSUME SampleInv, pc \in {"heuristics", "sum", "done"}, data.succeeded,
                    NEW kind \in Kinds
             PROVE  LET ids == Succeeded(kind = "mappers")
                        tasks == data[kind]
                    IN  /\ Len(tasks) = Cardinality(ids)
                        /\ \A i \in DOMAIN tasks : tasks[i].sampled <=> i <= MaxSample
                        /\ \E source \in [{i \in DOMAIN tasks : tasks[i].sampled} -> ids] :
                              /\ \A i, j \in DOMAIN source : source[i] = source[j] => i = j
                              /\ \A i \in DOMAIN source : tasks[i] = SampledTask(source[i])
  BY DEF SampleFaithful
<1> DEFINE ids == Succeeded(kind = "mappers")
           tasks == data[kind]
           ord == order[kind]
<1>1. Listed /\ KindRead(kind)
  BY DEF Listed, KindRead
<1>2. PICK n \in Nat : ReadSoFar(kind, n)
  BY <1>1 DEF SampleInv
<1>3. IsFiniteSet(ids) /\ ord \in SetToSeqs(ids)
  BY <1>1, SucceededFinite DEF SampleInv
<1>4. /\ DOMAIN ord = 1 .. Cardinality(ids) /\ Len(ord) = Cardinality(ids)
      /\ Cardinality(ids) \in Nat
      /\ \A i \in DOMAIN ord : ord[i] \in ids
      /\ \A i, j \in DOMAIN ord : ord[i] = ord[j] => i = j
  BY <1>3, Listing
<1>5. n = MaxSample \/ n = Len(ord)
  BY <1>1, <1>2 DEF ReadSoFar
<1>6. tasks = [i \in DOMAIN ord |-> IF i <= n THEN SampledTask(ord[i]) ELSE Unread]
  BY <1>2 DEF ReadSoFar
<1>7. n <= MaxSample /\ MaxSample \in Nat
  BY <1>2, AnalysisAssumption DEF ReadSoFar
<1> HIDE DEF ids, tasks, ord
<1>8. \A i \in DOMAIN tasks : tasks[i].sampled <=> i <= n
  <2> SUFFICES ASSUME NEW i \in DOMAIN tasks PROVE tasks[i].sampled <=> i <= n
    OBVIOUS
  <2>1. CASE i <= n
    <3>1. tasks[i] = SampledTask(ord[i])
      BY <2>1, <1>6
    <3> QED BY <3>1, <2>1 DEF SampledTask
  <2>2. CASE ~(i <= n)
    <3>1. tasks[i] = Unread
      BY <2>2, <1>6
    <3> QED BY <3>1, <2>2 DEF Unread
  <2> QED BY <2>1, <2>2
<1>9. \A i \in DOMAIN tasks : i <= n <=> i <= MaxSample
  BY <1>4, <1>5, <1>6, <1>7
<1>10. Len(tasks) = Cardinality(ids)
  BY <1>4, <1>6
<1>11. \E source \in [{i \in DOMAIN tasks : tasks[i].sampled} -> ids] :
          /\ \A i, j \in DOMAIN source : source[i] = source[j] => i = j
          /\ \A i \in DOMAIN source : tasks[i] = SampledTask(source[i])
  <2> DEFINE D == {i \in DOMAIN tasks : tasks[i].sampled}
             source == [i \in D |-> ord[i]]
  <2>1. D \subseteq DOMAIN ord
    BY <1>6
  <2>2. \A i \in D : tasks[i] = SampledTask(ord[i])
    BY <2>1, <1>6, <1>8
  <2>3. /\ source \in [D -> ids]
        /\ \A i, j \in DOMAIN source : source[i] = source[j] => i = j
        /\ \A i \in DOMAIN source : tasks[i] = SampledTask(source[i])
    BY <2>1, <2>2, <1>4
  <2> QED BY <2>3
<1> QED BY <1>8, <1>9, <1>10, <1>11 DEF ids, tasks

(* A step of a job of either type is one of the two.                       *)
LEMMA JobSteps ==
    [JobNext]_<<appType, row, info, mapReduceState, sparkState>>
      => Next \/ UNCHANGED mapReduceState
BY DEF JobNext, AnalyseMapReduce, AnalyseSpark, LoadInfo

(* The heuristics see every task of a kind that succeeded, and of as many  *)
(* as the limit allows the counters and times, each of another task: what  *)
(* the fetcher of MapReduce gives to the heuristics.                       *)
THEOREM FaithfulSample == JobSpec => []SampleFaithful
<1>1. JobInit => SampleInv
  BY SampleInit DEF JobInit
<1>2. SampleInv /\ [JobNext]_<<appType, row, info, mapReduceState, sparkState>> => SampleInv'
  BY SampleNext, JobSteps
<1>3. SampleInv => SampleFaithful
  BY SampleShown
<1> QED BY <1>1, <1>2, <1>3, PTL DEF JobSpec

(* The same of an analysis of MapReduce jobs only.                         *)
THEOREM FaithfulMapReduceSample == Spec => []SampleFaithful
<1>1. SampleInv /\ [Next]_vars => SampleInv'
  BY SampleNext DEF vars, mapReduceState
<1> QED BY <1>1, SampleInit, SampleShown, PTL DEF Spec

-----------------------------------------------------------------------------
(* Severities.                                                             *)
LEMMA HighestLevel ==
    ASSUME NEW levels \in SUBSET Severities
    PROVE  /\ Highest(levels) \in {NONE} \cup levels
           /\ Highest(levels) \in Severities
           /\ \A l \in levels : l <= Highest(levels)
<1> DEFINE T == {NONE} \cup levels
<1>1. T \in SUBSET Nat /\ T # {} /\ T \subseteq 0 .. 4
  BY DEF NONE, Severities, CRITICAL
<1>2. IsFiniteSet(T)
  <2>1. NONE \in Int /\ CRITICAL \in Int
    BY DEF NONE, CRITICAL
  <2>2. IsFiniteSet(NONE .. CRITICAL)
    BY <2>1, FS_Interval
  <2>3. IsFiniteSet(0 .. 4)
    BY <2>2 DEF NONE, CRITICAL
  <2> QED BY ONLY <1>1, <2>3, FS_Subset
<1> HIDE DEF T
<1>3. Max(T) \in T /\ \A y \in T : y <= Max(T)
  BY <1>1, <1>2, Extremes
<1>4. Highest(levels) = Max(T) /\ levels \subseteq T /\ T \subseteq Severities
  BY <1>1 DEF Highest, T, Severities, NONE, CRITICAL
<1> QED BY <1>3, <1>4 DEF T

(* Some severity comes out of any comparison, whatever is compared.        *)
LEMMA Levels ==
    /\ \A value, limits : Ascending(value, limits) \in Severities
    /\ \A value, limits : Descending(value, limits) \in Severities
    /\ \A num, den, limits : RatioAscending(num, den, limits) \in Severities
    /\ \A num, den, limits : RatioDescending(num, den, limits) \in Severities
    /\ \A s, t \in Severities : SeverityMax(s, t) \in Severities /\ SeverityMin(s, t) \in Severities
<1>1. \A levels : levels \subseteq 1 .. 4 => Highest(levels) \in Severities
  BY HighestLevel DEF Severities, NONE, CRITICAL
<1>2. \A value, limits : Ascending(value, limits) \in Severities
  BY <1>1 DEF Ascending
<1>3. \A value, limits : Descending(value, limits) \in Severities
  BY <1>1 DEF Descending
<1>4. \A num, den, limits : RatioAscending(num, den, limits) \in Severities
  BY <1>1 DEF RatioAscending
<1>5. \A num, den, limits : RatioDescending(num, den, limits) \in Severities
  BY <1>1 DEF RatioDescending
<1> QED BY <1>2, <1>3, <1>4, <1>5 DEF SeverityMax, SeverityMin

(* What each heuristic may say of a succeeded job.                         *)
LEMMA PlainSeverities ==
    ASSUME NEW h, NEW tasks
    PROVE  /\ DataSkew(h, tasks) \in Severities
           /\ GC(h, tasks) \in Severities
           /\ MapperTime(h, tasks) \in Severities
           /\ ReducerTime(h, tasks) \in Severities
           /\ MapperSpill(h, tasks) \in Severities
           /\ ShuffleSort(h, tasks) \in Severities
<1>1. \A time, code : ShuffleSortSeverity(h, time, code) \in Severities
  BY Levels DEF ShuffleSortSeverity
<1>2. ShuffleSort(h, tasks) \in Severities
  BY <1>1, Levels DEF ShuffleSort
<1>3. DataSkew(h, tasks) \in Severities
  BY Levels DEF DataSkew
<1>4. NONE \in Severities /\ CRITICAL \in Severities
  BY DEF NONE, CRITICAL, Severities
<1>5. GC(h, tasks) \in Severities
  BY <1>4, Levels DEF GC
<1>6. MapperTime(h, tasks) \in Severities /\ ReducerTime(h, tasks) \in Severities
  BY Levels DEF MapperTime, ReducerTime
<1>7. MapperSpill(h, tasks) \in Severities
  BY <1>4, Levels DEF MapperSpill
<1> QED BY <1>2, <1>3, <1>5, <1>6, <1>7

LEMMA MemorySeverity ==
    ASSUME NEW h, NEW tasks, NEW container
    PROVE  /\ Memory(h, tasks, container) \in Severities \cup {Null, Throws}
           /\ Memory(h, tasks, container) = Throws =>
                 container = NotANumber \/ MissesCounters(tasks)
<1>1. NONE \in Severities /\ Null \notin Severities /\ Throws \notin Severities /\ Null # Throws
  BY DEF NONE, CRITICAL, Severities, Null, Throws
<1>2. CASE container = Absent
  BY <1>1, <1>2 DEF Memory
<1>3. CASE container # Absent /\ (container = NotANumber \/ MissesCounters(tasks))
  BY <1>1, <1>3 DEF Memory
<1>4. CASE container # Absent /\ container # NotANumber /\ ~MissesCounters(tasks)
  <2> DEFINE other == SeverityMin(RatioDescending(Mean(CounterValues(tasks, "memory")), container,
                                                  Limits(<<h, "memory_ratio">>)),
                                  Ascending(container * Parts, Limits(<<h, "container_memory">>)))
  <2>1. other \in Severities
    BY Levels
  <2> HIDE DEF other
  <2>2. Memory(h, tasks, container) = IF tasks = <<>> THEN NONE ELSE other
    BY <1>4 DEF Memory, other
  <2> QED BY <1>1, <2>1, <2>2
<1> QED BY <1>2, <1>3, <1>4

LEMMA SpeedSeverity ==
    ASSUME NEW h, NEW tasks
    PROVE  /\ MapperSpeed(h, tasks) \in Severities \cup {Throws}
           /\ MapperSpeed(h, tasks) = Throws => 0 \in ToSet(RunTimes(tasks))
<1>1. Throws \notin Severities
  BY DEF CRITICAL, NONE, Severities, Throws
<1> QED BY <1>1, Levels DEF MapperSpeed

(* A heuristic throws only if there are tasks without counters, a size     *)
(* does not parse, or a mapper took no time.                               *)
LEMMA SeverityType ==
    ASSUME NEW h \in HeuristicNames, NEW d, d.succeeded \in BOOLEAN
    PROVE  /\ Severity(h, d) \in Severities \cup {Null, Throws}
           /\ Severity(h, d) = Throws =>
                 /\ h # "Exception" /\ d.succeeded
                 /\ \/ MissesCounters(TasksOf(h, d))
                    \/ NotANumber \in {d.memory.map, d.memory.reduce}
                    \/ 0 \in ToSet(RunTimes(d.mappers))
           /\ ~d.succeeded => Severity(h, d) = IF h = "Exception" THEN MODERATE ELSE Null
<1> USE DEF HeuristicNames, MapperHeuristics, ReducerHeuristics
<1>1. Null # Throws /\ MODERATE # Throws /\ MODERATE \in Severities /\ Throws \notin Severities
  BY DEF CRITICAL, NONE, MODERATE, Severities, Null, Throws
<1>2. CASE h = "Exception"
  <2>1. Severity(h, d) = IF d.succeeded THEN Null ELSE MODERATE
    BY <1>2 DEF Severity
  <2> QED BY <1>1, <1>2, <2>1
<1>3. CASE h # "Exception" /\ ~d.succeeded
  <2>1. Severity(h, d) = Null
    BY <1>3 DEF Severity
  <2> QED BY <1>1, <1>3, <2>1
<1>4. CASE h # "Exception" /\ d.succeeded /\ h \in NeedsCounters /\ MissesCounters(TasksOf(h, d))
  <2>1. Severity(h, d) = Throws
    BY <1>4 DEF Severity
  <2> QED BY <1>1, <1>4, <2>1
<1>5. CASE h \in MapperHeuristics /\ d.succeeded /\ ~(h \in NeedsCounters /\ MissesCounters(TasksOf(h, d)))
  <2>1. Severity(h, d) = OfMappers(h, d)
    BY <1>5 DEF Severity
  <2>2. OfMappers(h, d) \in Severities \cup {Null, Throws}
    BY <1>5, PlainSeverities, MemorySeverity, SpeedSeverity DEF OfMappers
  <2>3. OfMappers(h, d) = Throws =>
           \/ MissesCounters(d.mappers)
           \/ d.memory.map = NotANumber \/ 0 \in ToSet(RunTimes(d.mappers))
    BY <1>1, <1>5, PlainSeverities, MemorySeverity, SpeedSeverity DEF OfMappers
  <2>4. TasksOf(h, d) = d.mappers
    BY <1>5 DEF TasksOf
  <2> QED BY <1>5, <2>1, <2>2, <2>3, <2>4
<1>6. CASE h \in ReducerHeuristics /\ d.succeeded /\ ~(h \in NeedsCounters /\ MissesCounters(TasksOf(h, d)))
  <2>1. Severity(h, d) = OfReducers(h, d)
    BY <1>6 DEF Severity
  <2>2. OfReducers(h, d) \in Severities \cup {Null, Throws}
    BY <1>6, PlainSeverities, MemorySeverity DEF OfReducers
  <2>3. OfReducers(h, d) = Throws => d.memory.reduce = NotANumber \/ MissesCounters(d.reducers)
    BY <1>1, <1>6, PlainSeverities, MemorySeverity DEF OfReducers
  <2>4. TasksOf(h, d) = d.reducers
    BY <1>6 DEF TasksOf
  <2> QED BY <1>6, <2>1, <2>2, <2>3, <2>4
<1> QED BY <1>2, <1>3, <1>4, <1>5, <1>6

-----------------------------------------------------------------------------
(* Picked has the elements at its places once each, in their order.        *)
LEMMA PickedPlaces ==
    ASSUME NEW places \in SUBSET Nat, IsFiniteSet(places)
    PROVE  /\ Cardinality(places) \in Nat
           /\ \E at \in [1 .. Cardinality(places) -> places] :
                 /\ \A list : Picked(list, places) = [k \in 1 .. Cardinality(places) |-> list[at[k]]]
                 /\ \A k, l \in 1 .. Cardinality(places) : k < l <=> at[k] < at[l]
                 /\ \A i \in places : \E k \in 1 .. Cardinality(places) : at[k] = i
<1> DEFINE n == Cardinality(places)
           number == [i \in places |-> i]
           rank == [i \in places |-> Cardinality({j \in places : j < i})]
           at == [k \in 1 .. n |-> CHOOSE i \in places : rank[i] = k - 1]
<1>1. n \in Nat
  BY FS_CardinalityType
<1>2. /\ \A i \in places : rank[i] \in 0 .. n - 1
      /\ \A i, j \in places : i < j <=> rank[i] < rank[j]
      /\ \A k \in 0 .. n - 1 : \E i \in places : rank[i] = k
  <2>1. Numbering(number) /\ DOMAIN number = places /\ \A i \in places : number[i] = i
    BY DEF Numbering
  <2>2. \A i \in places : Below(number, i) = {j \in places : j < i}
    BY <2>1 DEF Below
  <2>3. \A i \in places : rank[i] = Cardinality(Below(number, i))
    BY <2>2
  <2> HIDE DEF number, rank
  <2>4. /\ \A i \in DOMAIN number : Cardinality(Below(number, i)) \in 0 .. Cardinality(DOMAIN number) - 1
        /\ \A i, j \in DOMAIN number :
              number[i] < number[j]
                <=> Cardinality(Below(number, i)) < Cardinality(Below(number, j))
        /\ \A k \in 0 .. Cardinality(DOMAIN number) - 1 :
              \E i \in DOMAIN number : Cardinality(Below(number, i)) = k
    BY ONLY <2>1, BelowOrder
  <2>5. \A i \in places : rank[i] \in 0 .. n - 1
    BY <2>1, <2>3, <2>4
  <2>6. \A i, j \in places : i < j <=> rank[i] < rank[j]
    BY ONLY <2>1, <2>3, <2>4
  <2>7. \A k \in 0 .. n - 1 : \E i \in places : rank[i] = k
    BY ONLY <2>1, <2>3, <2>4 DEF n
  <2> QED BY <2>5, <2>6, <2>7
<1>3. \A list : Picked(list, places) = [k \in 1 .. n |-> list[at[k]]]
  <2> DEFINE nth(k) == CHOOSE i \in places : Cardinality({j \in places : j < i}) = k - 1
  <2>1. \A k \in 1 .. n : at[k] = nth(k)
    <3>1. \A i \in places : rank[i] = Cardinality({j \in places : j < i})
      OBVIOUS
    <3>2. \A k \in 1 .. n : at[k] = CHOOSE i \in places : rank[i] = k - 1
      OBVIOUS
    <3> HIDE DEF rank, at, n
    <3> QED BY ONLY <3>1, <3>2, Zenon
  <2>2. \A list : Picked(list, places) = [k \in 1 .. n |-> list[nth(k)]]
    BY DEF Picked
  <2> HIDE DEF at, nth, n
  <2> QED BY ONLY <2>1, <2>2
<1> HIDE DEF rank
<1>4. ASSUME NEW k \in 1 .. n PROVE at[k] \in places /\ rank[at[k]] = k - 1
  <2>1. k - 1 \in 0 .. n - 1
    BY <1>1
  <2>2. \E i \in places : rank[i] = k - 1
    BY <1>2, <2>1
  <2>3. at[k] = CHOOSE i \in places : rank[i] = k - 1
    OBVIOUS
  <2> HIDE DEF at
  <2> QED BY ONLY <2>2, <2>3
<1>5. DOMAIN at = 1 .. n /\ at \in [1 .. n -> places]
  <2>1. at = [k \in 1 .. n |-> at[k]]
    OBVIOUS
  <2> HIDE DEF at
  <2> QED BY <1>4, <2>1
<1> HIDE DEF at, n
<1>6. \A k, l \in 1 .. n : k < l <=> at[k] < at[l]
  <2> SUFFICES ASSUME NEW k \in 1 .. n, NEW l \in 1 .. n PROVE k < l <=> at[k] < at[l]
    OBVIOUS
  <2>1. at[k] \in places /\ at[l] \in places /\ rank[at[k]] = k - 1 /\ rank[at[l]] = l - 1
    BY <1>4
  <2>2. at[k] < at[l] <=> rank[at[k]] < rank[at[l]]
    BY ONLY <1>2, <2>1
  <2> QED BY ONLY <1>1, <2>1, <2>2
<1>7. ASSUME NEW i \in places PROVE \E k \in 1 .. n : at[k] = i
  <2> DEFINE k == rank[i] + 1
  <2>1. k \in 1 .. n /\ k - 1 = rank[i] /\ rank[i] \in Nat
    BY <1>1, <1>2
  <2> HIDE DEF k
  <2>2. rank[at[k]] = rank[i] /\ at[k] \in places
    BY <1>4, <2>1
  <2>3. ~(at[k] < i) /\ ~(i < at[k])
    <3>1. (at[k] < i <=> rank[at[k]] < rank[i]) /\ (i < at[k] <=> rank[i] < rank[at[k]])
      BY ONLY <1>2, <2>2, i \in places
    <3> QED BY ONLY <2>1, <2>2, <3>1
  <2>4. at[k] = i
    <3>1. at[k] \in Nat /\ i \in Nat
      BY <2>2
    <3> QED BY ONLY <2>3, <3>1
  <2> QED BY <2>1, <2>4
<1> QED BY <1>1, <1>3, <1>5, <1>6, <1>7 DEF n

(* What a heuristic visits are the tasks that were sampled.                *)
LEMMA VisitedTasks ==
    ASSUME NEW tasks, NEW m \in Nat, DOMAIN tasks = 1 .. m
    PROVE  LET D == {i \in DOMAIN tasks : tasks[i].sampled}
           IN  /\ IsFiniteSet(D) /\ Cardinality(D) \in Nat
               /\ DOMAIN Visited(tasks) = 1 .. Cardinality(D)
               /\ \A k \in DOMAIN Visited(tasks) : \E i \in D : Visited(tasks)[k] = tasks[i]
<1> DEFINE D == {i \in DOMAIN tasks : tasks[i].sampled}
<1>1. D \in SUBSET Nat /\ IsFiniteSet(D)
  <2>1. IsFiniteSet(1 .. m)
    BY FS_Interval
  <2> QED BY <2>1, FS_Subset
<1> HIDE DEF D
<1>2. PICK at \in [1 .. Cardinality(D) -> D] :
         \A list : Picked(list, D) = [k \in 1 .. Cardinality(D) |-> list[at[k]]]
  BY <1>1, PickedPlaces
<1>3. Visited(tasks) = [k \in 1 .. Cardinality(D) |-> tasks[at[k]]]
  BY <1>2 DEF Visited, D
<1>4. Cardinality(D) \in Nat
  BY <1>1, FS_CardinalityType
<1> QED BY <1>1, <1>2, <1>3, <1>4 DEF D

(* Of a job that is read, each sampled task has counters and a time.       *)
LEMMA SampledTasks ==
    ASSUME SampleInv, Listed, NEW kind \in Kinds
    PROVE  /\ DOMAIN data[kind] = 1 .. Len(order[kind]) /\ Len(order[kind]) \in Nat
           /\ \A i \in DOMAIN data[kind] : data[kind][i].sampled =>
                 \E id \in DOMAIN job.tasks : data[kind][i] = SampledTask(id)
<1>1. PICK n \in Nat : ReadSoFar(kind, n)
  BY DEF SampleInv
<1>2. IsFiniteSet(Succeeded(kind = "mappers")) /\ order[kind] \in SetToSeqs(Succeeded(kind = "mappers"))
  BY SucceededFinite DEF SampleInv
<1>3. /\ DOMAIN order[kind] = 1 .. Len(order[kind]) /\ Len(order[kind]) \in Nat
      /\ \A i \in DOMAIN order[kind] : order[kind][i] \in DOMAIN job.tasks
  BY <1>2, Listing DEF Succeeded
<1>4. data[kind] = [i \in DOMAIN order[kind] |->
                       IF i <= n THEN SampledTask(order[kind][i]) ELSE Unread]
  BY <1>1 DEF ReadSoFar
<1>5. ~Unread.sampled
  BY DEF Unread
<1>6. ASSUME NEW i \in DOMAIN data[kind], data[kind][i].sampled
      PROVE  \E id \in DOMAIN job.tasks : data[kind][i] = SampledTask(id)
  <2>1. i <= n
    BY <1>4, <1>5, <1>6
  <2> QED BY <1>3, <1>4, <2>1
<1> QED BY <1>3, <1>4, <1>6

(* A job that was read to its end misses no counters, and whatever ends    *)
(* the analysis of it is one of the two causes.                            *)
LEMMA WhyItThrows ==
    ASSUME SampleInv, Listed, data.succeeded \in BOOLEAN,
           NEW h \in HeuristicNames, Severity(h, data) = Throws
    PROVE  \/ NotANumber \in {data.memory.map, data.memory.reduce}
           \/ \E i \in DOMAIN data.mappers :
                 data.mappers[i].sampled /\ data.mappers[i].time.total = 0
<1>1. data.mappers = data["mappers"] /\ data.reducers = data["reducers"]
  BY DEF SampleInv, NoData
<1>2. ASSUME NEW kind \in Kinds, NEW k \in DOMAIN Visited(data[kind])
      PROVE  \E i \in DOMAIN data[kind], id \in DOMAIN job.tasks :
                /\ data[kind][i].sampled
                /\ Visited(data[kind])[k] = data[kind][i]
                /\ data[kind][i] = SampledTask(id)
  <2>1. DOMAIN data[kind] = 1 .. Len(order[kind]) /\ Len(order[kind]) \in Nat
    BY SampledTasks
  <2>2. PICK i \in {i \in DOMAIN data[kind] : data[kind][i].sampled} :
           Visited(data[kind])[k] = data[kind][i]
    BY <1>2, <2>1, VisitedTasks
  <2> QED BY <2>2, SampledTasks
<1>3. ASSUME NEW kind \in Kinds PROVE ~MissesCounters(data[kind])
  <2> SUFFICES ASSUME NEW k \in DOMAIN Visited(data[kind]),
                      Visited(data[kind])[k].counters = NoCounters
               PROVE  FALSE
    BY DEF MissesCounters
  <2>1. PICK id \in DOMAIN job.tasks : Visited(data[kind])[k] = SampledTask(id)
    BY <1>2
  <2>2. SampledTask(id).counters = job.tasks[id].counters
    BY DEF SampledTask
  <2>3. job.tasks[id].counters \in [CounterNames -> Nat]
    BY AnalysisAssumption DEF SampleInv
  <2>4. "gc" \in CounterNames /\ "gc" \notin DOMAIN NoCounters
    BY DEF CounterNames, NoCounters
  <2> QED BY <2>1, <2>2, <2>3, <2>4
<1>4. ~MissesCounters(TasksOf(h, data))
  BY <1>1, <1>3 DEF TasksOf, Kinds
<1>5. ASSUME 0 \in ToSet(RunTimes(data.mappers))
      PROVE  \E i \in DOMAIN data.mappers :
                data.mappers[i].sampled /\ data.mappers[i].time.total = 0
  <2>1. PICK k \in DOMAIN Visited(data.mappers) : Visited(data.mappers)[k].time["total"] = 0
    BY <1>5 DEF RunTimes, Times, ToSet
  <2>2. PICK i \in DOMAIN data["mappers"], id \in DOMAIN job.tasks :
           /\ data["mappers"][i].sampled /\ Visited(data["mappers"])[k] = data["mappers"][i]
           /\ data["mappers"][i] = SampledTask(id)
    BY <1>1, <1>2, <2>1 DEF Kinds
  <2>3. data.mappers[i].time["total"] = data.mappers[i].time.total
    BY <1>1, <2>2 DEF SampledTask
  <2> QED BY <1>1, <2>1, <2>2, <2>3
<1> QED BY <1>4, <1>5, SeverityType

-----------------------------------------------------------------------------
(* The invariant of the whole analysis.                                    *)
Entries == [name : HeuristicNames \cup {"NoDataReceived"}, severity : Severities, score : Nat]

Fetching == Requesting \/ pc = "diagnosis"

TwoCauses ==
    \/ NotANumber \in {data.memory.map, data.memory.reduce}
    \/ \E i \in DOMAIN data.mappers :
          data.mappers[i].sampled /\ data.mappers[i].time.total = 0

AnalysisInv ==
    /\ SampleInv
    /\ Fetching \/ pc \in {"heuristics", "sum", "done", "failed"}
    /\ data.succeeded \in BOOLEAN
    /\ data.diagnosis \in {"empty", "stacktrace", "null"}
    /\ place \in 1 .. Len(Heuristics) + 1
    /\ results \in Seq(Entries)
    /\ Fetching => place = 1
    /\ place = 1 => pc # "failed" \/ results = <<>>
    /\ Fetching => results = <<>>
    /\ pc = "failed" /\ place > 1 => TwoCauses
    /\ ~data.succeeded => pc \in {"diagnosis", "heuristics", "sum", "done"}
    /\ ~data.succeeded /\ pc \in {"sum", "done"} => place = Len(Heuristics) + 1
    /\ data.diagnosis = "stacktrace" => job.diagnosed

LEMMA HeuristicsListed ==
    /\ Len(Heuristics) \in Nat
    /\ DOMAIN Heuristics = 1 .. Len(Heuristics)
    /\ \A i \in 1 .. Len(Heuristics) : Heuristics[i] \in HeuristicNames
BY AnalysisAssumption

LEMMA AnalysisInit == Init => AnalysisInv
<1> SUFFICES ASSUME Init PROVE AnalysisInv
  OBVIOUS
<1>1. Len(Heuristics) \in Nat
  BY HeuristicsListed
<1>2. SampleInv
  BY SampleInit
<1>3. <<>> \in Seq(Entries)
  OBVIOUS
<1>4. data.succeeded = TRUE /\ data.diagnosis = "empty"
  BY DEF Init, NoData
<1>5. data.succeeded \in BOOLEAN /\ data.succeeded
  BY ONLY <1>4
<1> QED BY <1>1, <1>2, <1>3, <1>4, <1>5 DEF Init, AnalysisInv, Fetching, Requesting

(* The lists a heuristic looks at have a length.                           *)
LEMMA TaskCounts ==
    ASSUME AnalysisInv, pc = "heuristics", data.succeeded, NEW h
    PROVE  Len(TasksOf(h, data)) \in Nat /\ DOMAIN TasksOf(h, data) = 1 .. Len(TasksOf(h, data))
<1>1. Listed /\ data.mappers = data["mappers"] /\ data.reducers = data["reducers"]
  BY DEF AnalysisInv, Listed
<1>2. ASSUME NEW kind \in Kinds
      PROVE  Len(data[kind]) \in Nat /\ DOMAIN data[kind] = 1 .. Len(data[kind])
  <2>1. DOMAIN data[kind] = 1 .. Len(order[kind]) /\ Len(order[kind]) \in Nat
    BY <1>1, SampledTasks DEF AnalysisInv
  <2>2. Len(data[kind]) = Len(order[kind])
    BY <2>1
  <2> QED BY <2>1, <2>2
<1> QED BY <1>1, <1>2 DEF TasksOf, Kinds

(* A heuristic that has something to say adds an entry.                    *)
LEMMA ResultType ==
    ASSUME AnalysisInv, pc = "heuristics", NEW h \in HeuristicNames,
           Result(h).severity \in Severities
    PROVE  Result(h) \in Entries
<1>1. Severity(h, data) \in Severities
  BY DEF Result
<1>2. CASE h = "Exception"
  BY <1>1, <1>2 DEF Result, Entries, Score
<1>3. CASE h # "Exception"
  <2>1. data.succeeded
    <3>1. ~data.succeeded => Severity(h, data) = Null
      BY <1>3, SeverityType DEF AnalysisInv
    <3> QED BY <1>1, <3>1 DEF Severities, Null, NONE, CRITICAL
  <2>2. Len(TasksOf(h, data)) \in Nat
    BY <2>1, TaskCounts
  <2>3. Severity(h, data) \in Nat
    BY <1>1 DEF Severities, NONE, CRITICAL
  <2>4. Severity(h, data) * Len(TasksOf(h, data)) \in Nat
    BY <2>2, <2>3
  <2>5. Score(h, data) \in Nat
    BY <1>3, <2>4 DEF Score, HeuristicScore
  <2> QED BY <1>1, <2>5 DEF Result, Entries
<1> QED BY <1>2, <1>3

LEMMA AnalysisNext ==
    ASSUME AnalysisInv, Next \/ UNCHANGED mapReduceState
    PROVE  AnalysisInv'
<1> USE HeuristicsListed
<1>0. SampleInv'
  BY SampleNext DEF AnalysisInv
<1>1. CASE RequestFails
  BY <1>0, <1>1 DEF RequestFails, AnalysisInv, Fetching, Requesting
<1>2. CASE ReadConf
  <2>1. data'.succeeded = data.succeeded /\ data'.diagnosis = data.diagnosis
    BY <1>2 DEF ReadConf, AnalysisInv, SampleInv, NoData
  <2> QED BY <1>0, <1>2, <2>1 DEF ReadConf, AnalysisInv, Fetching, Requesting
<1>3. CASE ReadState
  <2>1. data' = [data EXCEPT !.succeeded = (job.state # "FAILED")] /\ DOMAIN data = DOMAIN NoData
    BY <1>3 DEF ReadState, AnalysisInv, SampleInv
  <2>2. data'.succeeded = (job.state # "FAILED") /\ data'.diagnosis = data.diagnosis
    BY <2>1 DEF NoData
  <2>3. /\ pc' \in {"counters", "diagnosis", "failed"}
        /\ job.state = "FAILED" => pc' = "diagnosis"
        /\ pc = "state"
        /\ UNCHANGED <<job, order, place, results, row>>
    BY <1>3 DEF ReadState
  <2>4. data'.succeeded \in BOOLEAN
    BY <2>2
  <2>5. ~data'.succeeded => pc' = "diagnosis"
    BY <2>2, <2>3
  <2> QED BY <1>0, <2>2, <2>3, <2>4, <2>5 DEF AnalysisInv, Fetching, Requesting
<1>4. CASE ReadDiagnosis
  <2>1. /\ data'.succeeded = data.succeeded /\ data'.diagnosis \in {"stacktrace", "null"}
        /\ data'.diagnosis = "stacktrace" => job.diagnosed
    BY <1>4 DEF ReadDiagnosis, AnalysisInv, SampleInv, NoData
  <2> QED BY <1>0, <1>4, <2>1 DEF ReadDiagnosis, AnalysisInv, Fetching, Requesting
<1>5. CASE ReadCounters
  BY <1>0, <1>5 DEF ReadCounters, AnalysisInv, Fetching, Requesting
<1>6. CASE ReadTaskList
  <2>1. data'.succeeded = data.succeeded /\ data'.diagnosis = data.diagnosis
    BY <1>6 DEF ReadTaskList, AnalysisInv, SampleInv, NoData
  <2> QED BY <1>0, <1>6, <2>1 DEF ReadTaskList, AnalysisInv, Fetching, Requesting
<1>7. CASE ReadTask
  <2>1. data'.succeeded = data.succeeded /\ data'.diagnosis = data.diagnosis
    BY <1>7 DEF ReadTask, AnalysisInv, SampleInv, NoData
  <2> QED BY <1>0, <1>7, <2>1 DEF ReadTask, AnalysisInv, Fetching, Requesting
<1>8. CASE TasksRead
  <2>1. data.succeeded
    BY <1>8 DEF TasksRead, AnalysisInv
  <2> QED BY <1>0, <1>8, <2>1 DEF TasksRead, AnalysisInv, Fetching, Requesting
<1>9. CASE NoDataReceived
  <2> DEFINE entry == [name |-> "NoDataReceived", severity |-> LOW, score |-> 0]
  <2>1. entry \in Entries
    BY DEF Entries, LOW, Severities, NONE, CRITICAL
  <2>2. results' = <<entry>> /\ <<entry>> \in Seq(Entries)
    BY <1>9, <2>1 DEF NoDataReceived
  <2> QED BY <1>0, <1>9, <2>2 DEF NoDataReceived, AnalysisInv, Fetching, Requesting
<1>10. CASE RunHeuristic
  <2> DEFINE result == Result(Heuristics[place])
  <2>1. /\ place \in 1 .. Len(Heuristics) /\ pc = "heuristics"
        /\ Heuristics[place] \in HeuristicNames
        /\ pc' = IF result.severity = Throws THEN "failed" ELSE pc
        /\ results' = IF result.severity \in Severities THEN Append(results, result)
                         ELSE results
        /\ place' = place + 1
        /\ UNCHANGED <<job, order, data, row>>
    BY <1>10 DEF RunHeuristic, AnalysisInv
  <2>2. results' \in Seq(Entries)
    <3>1. result.severity \in Severities => result \in Entries
      BY <2>1, ResultType
    <3>2. results \in Seq(Entries)
      BY DEF AnalysisInv
    <3> HIDE DEF result
    <3> QED BY <2>1, <3>1, <3>2
  <2>3. place' \in 1 .. Len(Heuristics) + 1 /\ place' # 1
    BY <2>1
  <2>4. pc' = "failed" => TwoCauses /\ data.succeeded
    <3> SUFFICES ASSUME Severity(Heuristics[place], data) = Throws
                 PROVE  TwoCauses /\ data.succeeded
      BY <2>1 DEF Result
    <3>1. data.succeeded
      BY <2>1, SeverityType DEF AnalysisInv
    <3>2. Listed
      BY <2>1, <3>1 DEF Listed
    <3> QED BY <2>1, <3>1, <3>2, WhyItThrows DEF TwoCauses, AnalysisInv
  <2>5. pc' \in {"heuristics", "failed"}
    BY <2>1
  <2>6. TwoCauses' <=> TwoCauses
    BY <2>1 DEF TwoCauses
  <2> QED BY <1>0, <2>1, <2>2, <2>3, <2>4, <2>5, <2>6 DEF AnalysisInv, Fetching, Requesting
<1>11. CASE HeuristicsRun
  BY <1>0, <1>11 DEF HeuristicsRun, AnalysisInv, Fetching, Requesting
<1>12. CASE SumUp
  BY <1>0, <1>12 DEF SumUp, AnalysisInv, Fetching, Requesting
<1>13. CASE UNCHANGED mapReduceState
  BY <1>0, <1>13 DEF mapReduceState, AnalysisInv, Fetching, Requesting, TwoCauses
<1> QED BY <1>1, <1>2, <1>3, <1>4, <1>5, <1>6, <1>7, <1>8, <1>9, <1>10, <1>11, <1>12, <1>13 DEF Next

(* No heuristic ends the analysis for want of counters or of tasks.        *)
THEOREM NoOtherException == JobSpec => []OnlyZeroTimeThrows
<1>1. JobInit => AnalysisInv
  BY AnalysisInit DEF JobInit
<1>2. AnalysisInv /\ [JobNext]_<<appType, row, info, mapReduceState, sparkState>> => AnalysisInv'
  BY AnalysisNext, JobSteps
<1>3. AnalysisInv => OnlyZeroTimeThrows
  BY DEF AnalysisInv, OnlyZeroTimeThrows, TwoCauses
<1> QED BY <1>1, <1>2, <1>3, PTL DEF JobSpec

-----------------------------------------------------------------------------
(* Failed jobs. *)
ExceptionEntry == [name |-> "Exception", severity |-> MODERATE, score |-> 0]

ExceptionSoFar(at) ==
    ~data.succeeded => results = IF place > at THEN <<ExceptionEntry>> ELSE <<>>

LEMMA ExceptionNext ==
    ASSUME AnalysisInv, Next \/ UNCHANGED mapReduceState,
           NEW at \in Nat, ExceptionAt(at), ExceptionSoFar(at)
    PROVE  ExceptionSoFar(at)'
<1> SUFFICES ASSUME ~data'.succeeded
             PROVE  results' = IF place' > at THEN <<ExceptionEntry>> ELSE <<>>
  BY DEF ExceptionSoFar
<1>1. CASE RequestFails \/ ReadConf \/ ReadState \/ ReadDiagnosis \/ ReadCounters
           \/ ReadTaskList \/ ReadTask \/ TasksRead
  <2>1. CASE Fetching
    <3>1. results' = <<>> /\ place' = 1 /\ ~(1 > at)
      <4>1. results = <<>> /\ place = 1
        BY <2>1 DEF AnalysisInv
      <4>2. results' = results /\ place' = place
        BY <1>1 DEF RequestFails, ReadConf, ReadState, ReadDiagnosis, ReadCounters,
                    ReadTaskList, ReadTask, TasksRead
      <4>3. ~(1 > at)
        BY DEF ExceptionAt
      <4> QED BY <4>1, <4>2, <4>3
    <3> QED BY <3>1
  <2>2. CASE ~Fetching
    BY <1>1, <2>2 DEF Fetching, Requesting, RequestFails, ReadConf, ReadState,
                      ReadDiagnosis, ReadCounters, ReadTaskList, ReadTask, TasksRead
  <2> QED BY <2>1, <2>2
<1>2. CASE NoDataReceived
  BY <1>2 DEF NoDataReceived
<1>3. CASE RunHeuristic
  <2> DEFINE h == Heuristics[place]
  <2>1. /\ place \in 1 .. Len(Heuristics) /\ h \in HeuristicNames
        /\ results' = IF Result(h).severity \in Severities THEN Append(results, Result(h))
                         ELSE results
        /\ place' = place + 1 /\ data' = data
    BY <1>3, HeuristicsListed DEF RunHeuristic, AnalysisInv
  <2>2. ~data.succeeded /\ data.succeeded \in BOOLEAN
    BY <2>1 DEF AnalysisInv
  <2>3. Severity(h, data) = IF h = "Exception" THEN MODERATE ELSE Null
    BY <2>1, <2>2, SeverityType
  <2>4. h = "Exception" <=> place = at
    BY <2>1 DEF ExceptionAt
  <2>5. CASE place = at
    <3>1. Result(h) = ExceptionEntry
      BY <2>3, <2>4, <2>5 DEF Result, ExceptionEntry, Score
    <3>2. results' = Append(results, ExceptionEntry)
      BY <2>1, <3>1 DEF ExceptionEntry, MODERATE, Severities, NONE, CRITICAL
    <3>3. results = <<>>
      BY <2>2, <2>5 DEF ExceptionSoFar
    <3>4. place' > at
      BY <2>1, <2>5
    <3> QED BY <3>2, <3>3, <3>4
  <2>6. CASE place # at
    <3>1. results' = results
      <4>1. Result(h).severity = Null
        BY <2>3, <2>4, <2>6 DEF Result
      <4> QED BY <2>1, <4>1 DEF Severities, Null, NONE, CRITICAL
    <3>2. place' > at <=> place > at
      BY <2>1, <2>6
    <3> QED BY <2>2, <3>1, <3>2 DEF ExceptionSoFar
  <2> QED BY <2>5, <2>6
<1>4. CASE HeuristicsRun \/ SumUp \/ UNCHANGED mapReduceState
  BY <1>4 DEF HeuristicsRun, SumUp, mapReduceState, ExceptionSoFar
<1> QED BY <1>1, <1>2, <1>3, <1>4 DEF Next

(* A job that failed gets the exception reported and nothing else, though  *)
(* the search for its stack trace may fail.                                *)
THEOREM FailedJobsAreReported ==
    ASSUME NEW at \in Nat, ExceptionAt(at)
    PROVE  JobSpec => []FailedJobReported
<1>1. JobInit => AnalysisInv /\ ExceptionSoFar(at)
  <2> SUFFICES ASSUME Init PROVE AnalysisInv /\ ExceptionSoFar(at)
    BY DEF JobInit
  <2>1. results = <<>> /\ place = 1 /\ ~(1 > at)
    BY DEF Init, ExceptionAt
  <2> QED BY <2>1, AnalysisInit DEF ExceptionSoFar
<1>2. AnalysisInv /\ ExceptionSoFar(at) /\ [JobNext]_<<appType, row, info, mapReduceState, sparkState>>
        => AnalysisInv' /\ ExceptionSoFar(at)'
  BY AnalysisNext, ExceptionNext, JobSteps
<1>3. AnalysisInv /\ ExceptionSoFar(at) => FailedJobReported
  <2> SUFFICES ASSUME AnalysisInv, ExceptionSoFar(at), ~data.succeeded, pc \in {"done", "failed"}
               PROVE  /\ pc = "done"
                      /\ results = <<ExceptionEntry>>
                      /\ data.diagnosis = "stacktrace" => job.diagnosed
    BY DEF FailedJobReported, ExceptionEntry
  <2>1. pc = "done" /\ place = Len(Heuristics) + 1
    BY DEF AnalysisInv
  <2>2. place > at
    BY <2>1, HeuristicsListed DEF ExceptionAt
  <2> QED BY <2>1, <2>2 DEF AnalysisInv, ExceptionSoFar
<1> QED BY <1>1, <1>2, <1>3, PTL DEF JobSpec

-----------------------------------------------------------------------------
(* Complaints. *)
LEMMA SilentAtZero ==
    ASSUME LimitsAboveZero, NEW p \in Guards
    PROVE  Ascending(0, Limits(p)) <= LOW
<1> DEFINE levels == {l \in 1 .. 4 : 0 >= Limits(p)[l]}
<1>1. levels \subseteq {1}
  <2> SUFFICES ASSUME NEW l \in 2 .. 4 PROVE ~(0 >= Limits(p)[l])
    OBVIOUS
  <2>1. Limits(p)[l] \in Nat \ {0}
    BY DEF LimitsAboveZero
  <2> QED BY <2>1
<1>2. levels \in SUBSET Severities
  BY DEF Severities, NONE, CRITICAL
<1> HIDE DEF levels
<1>3. Highest(levels) \in {NONE} \cup levels
  BY <1>2, HighestLevel
<1>4. Highest(levels) \in {0, 1}
  BY <1>1, <1>3 DEF NONE
<1> QED BY <1>4 DEF Ascending, levels, LOW

LEMMA NothingOfNothing ==
    /\ Visited(<<>>) = <<>>
    /\ \A counter : CounterValues(<<>>, counter) = <<>>
    /\ \A part : Times(<<>>, part) = <<>>
<1>1. Visited(<<>>) = <<>>
  <2>1. {i \in DOMAIN <<>> : <<>>[i].sampled} = {}
    OBVIOUS
  <2>2. Visited(<<>>) = Picked(<<>>, {})
    BY <2>1 DEF Visited
  <2>3. Cardinality({}) = 0
    BY FS_EmptySet
  <2>4. \A list : Picked(list, {}) = <<>>
    BY <2>3 DEF Picked
  <2> QED BY <2>2, <2>4
<1> QED BY <1>1 DEF CounterValues, Times

(* The two guesses of findTwoGroups, one after the other.                  *)
LEMMA GroupsOf ==
    ASSUME NEW values, NEW a, NEW b, NEW c,
           a = Mean(values), b = NewMiddle(TwoMeans(values, a)), c = NewMiddle(TwoMeans(values, b)),
           a \in Int, b \in Int, c \in Int
    PROVE  TwoGroups(values) = TwoMeans(values, c)
<1> DEFINE split == [middle \in Int |-> TwoMeans(values, middle)]
           next == [middle \in Int |-> NewMiddle(split[middle])]
<1>1. TwoGroups(values) = split[next[next[a]]]
  BY DEF TwoGroups
<1>2. \A middle \in Int : split[middle] = TwoMeans(values, middle)
  OBVIOUS
<1> HIDE DEF split
<1>3. \A middle \in Int : next[middle] = NewMiddle(split[middle])
  OBVIOUS
<1> HIDE DEF next
<1>4. next[a] = b /\ next[b] = c
  BY <1>2, <1>3
<1> QED BY <1>1, <1>2, <1>4

(* Where there are no tasks no heuristic sees more than a small problem.   *)
LEMMA SilentWithoutTasks ==
    ASSUME LimitsAboveZero, NEW h \in MapperHeuristics \cup ReducerHeuristics,
           NEW d, d.succeeded, TasksOf(h, d) = <<>>, Severity(h, d) \in Severities
    PROVE  Severity(h, d) <= LOW
<1> USE DEF MapperHeuristics, ReducerHeuristics
<1>1. Len(<<>>) = 0 /\ Mean(<<>>) = 0
  BY DEF Mean
<1>2. \A s, t \in Severities : /\ s <= LOW => SeverityMin(s, t) <= LOW
                               /\ t <= LOW => SeverityMin(s, t) <= LOW
                               /\ s <= LOW /\ t <= LOW => SeverityMax(s, t) <= LOW
  BY DEF SeverityMin, SeverityMax, Severities, NONE, LOW, CRITICAL
<1>3. ASSUME NEW k \in {"MapperTime", "ReducerTime"}
      PROVE  MapperTime(k, <<>>) <= LOW /\ ReducerTime(k, <<>>) <= LOW
  <2>1. /\ Ascending(0, Limits(<<k, "num_tasks">>)) <= LOW
        /\ Ascending(0, Limits(<<k, "long_runtime">>)) <= LOW
    BY SilentAtZero DEF Guards
  <2> QED BY <2>1, <1>1, <1>2, Levels, NothingOfNothing DEF MapperTime, ReducerTime, RunTimes
<1>4. ASSUME NEW k \in {"MapperDataSkew", "ReducerDataSkew"}
      PROVE  DataSkew(k, <<>>) <= LOW
  <2> DEFINE groups == TwoGroups(Inputs(<<>>))
  <2>1. Ascending(0, Limits(<<k, "num_tasks">>)) <= LOW
    BY SilentAtZero DEF Guards
  <2>2. Len(groups[1]) = 0
    <3>1. \A middle : TwoMeans(<<>>, middle) = <<<<>>, <<>>>>
      <4>1. \A list : Picked(list, {}) = <<>>
        BY FS_EmptySet DEF Picked
      <4>2. \A middle : /\ {i \in DOMAIN <<>> : <<>>[i] < middle} = {}
                        /\ {i \in DOMAIN <<>> : <<>>[i] >= middle} = {}
        OBVIOUS
      <4> QED BY <4>1, <4>2 DEF TwoMeans
    <3>2. Inputs(<<>>) = <<>>
      BY NothingOfNothing DEF Inputs
    <3>3. Mean(<<>>) = 0
      BY DEF Mean
    <3>4. NewMiddle(<<<<>>, <<>>>>) = 0
      BY <3>3 DEF NewMiddle
    <3>5. TwoGroups(<<>>) = <<<<>>, <<>>>>
      BY <3>1, <3>3, <3>4, GroupsOf
    <3> QED BY <3>2, <3>5
  <2> DEFINE small == Mean(groups[1])
             large == Mean(groups[2])
             least == IF small < large THEN small ELSE large
             diff == IF small < large THEN large - small ELSE small - large
             deviation == Ascending(diff \div (IF least <= 0 THEN 1 ELSE least),
                                    Limits(<<k, "deviation">>))
             files == Ascending(large * Parts, Limits(<<k, "files">>))
             number == Ascending(Len(groups[1]), Limits(<<k, "num_tasks">>))
  <2>3. DataSkew(k, <<>>) = SeverityMin(deviation, SeverityMin(files, number))
    BY DEF DataSkew
  <2>4. deviation \in Severities /\ files \in Severities /\ number \in Severities
    BY Levels
  <2>5. number <= LOW
    BY <2>1, <2>2
  <2> HIDE DEF deviation, files, number
  <2>6. SeverityMin(files, number) \in Severities /\ SeverityMin(files, number) <= LOW
    BY <1>2, <2>4, <2>5, Levels
  <2> QED BY <1>2, <2>3, <2>4, <2>6
<1>5. MapperSpill("MapperSpill", <<>>) <= LOW
  <2>1. Ascending(0, Limits(<<"MapperSpill", "num_tasks">>)) <= LOW
    BY SilentAtZero DEF Guards
  <2>2. CRITICAL \in Severities
    BY DEF Severities, CRITICAL, NONE
  <2> QED BY <1>1, <1>2, <2>1, <2>2, Levels DEF MapperSpill
<1>6. ASSUME MapperSpeed("MapperSpeed", <<>>) # Throws
      PROVE  MapperSpeed("MapperSpeed", <<>>) <= LOW
  <2>1. Ascending(0, Limits(<<"MapperSpeed", "runtime">>)) <= LOW
    BY SilentAtZero DEF Guards
  <2>2. \A v : Descending(v, Limits(<<"MapperSpeed", "disk_speed">>)) \in Severities
    BY Levels
  <2>3. MapperSpeed("MapperSpeed", <<>>)
          = SeverityMin(Descending(0 * Parts, Limits(<<"MapperSpeed", "disk_speed">>)),
                        Ascending(0, Limits(<<"MapperSpeed", "runtime">>)))
    BY <1>6 DEF MapperSpeed
  <2> QED BY <1>2, <2>1, <2>2, <2>3, Levels
<1>7. ShuffleSort("ShuffleSort", <<>>) <= LOW
  <2>1. Ascending(0, Limits(<<"ShuffleSort", "runtime">>)) <= LOW
    BY SilentAtZero DEF Guards
  <2>2. \A code : /\ ShuffleSortSeverity("ShuffleSort", 0, code) <= LOW
                  /\ ShuffleSortSeverity("ShuffleSort", 0, code) \in Severities
    BY <1>2, <2>1, Levels DEF ShuffleSortSeverity
  <2>3. Mean(Times(<<>>, "shuffle")) = 0 /\ Mean(Times(<<>>, "sort")) = 0
    BY <1>1, NothingOfNothing
  <2> QED BY <1>2, <2>2, <2>3 DEF ShuffleSort
<1>8. \A k : GC(k, <<>>) <= LOW
  BY DEF GC, NONE, LOW
<1>9. \A k, container : Memory(k, <<>>, container) \in Severities => Memory(k, <<>>, container) <= LOW
  BY DEF Memory, NONE, LOW, CRITICAL, Severities, Null, Throws
<1>10. Throws \notin Severities /\ h # "Exception"
  BY DEF Throws, Severities, NONE, CRITICAL
<1>11. ~(h \in NeedsCounters /\ MissesCounters(TasksOf(h, d)))
  BY <1>10 DEF Severity
<1>12. CASE h \in MapperHeuristics
  <2>1. d.mappers = <<>> /\ Severity(h, d) = OfMappers(h, d)
    BY <1>10, <1>11, <1>12 DEF TasksOf, Severity
  <2> QED BY <2>1, <1>3, <1>4, <1>5, <1>6, <1>8, <1>9, <1>10, <1>12 DEF OfMappers
<1>13. CASE h \in ReducerHeuristics
  <2>1. d.reducers = <<>> /\ Severity(h, d) = OfReducers(h, d)
    BY <1>10, <1>11, <1>13 DEF TasksOf, Severity
  <2> QED BY <2>1, <1>3, <1>4, <1>7, <1>8, <1>9, <1>13 DEF OfReducers
<1> QED BY <1>12, <1>13

LEMMA ComplaintsNext ==
    ASSUME LimitsAboveZero, AnalysisInv, ComplaintsCount, Next \/ UNCHANGED mapReduceState
    PROVE  ComplaintsCount'
<1> DEFINE Fair(entry) ==
        entry.name \in MapperHeuristics \cup ReducerHeuristics =>
            (entry.severity > LOW <=> entry.score > 0)
<1>1. \A i \in DOMAIN results : Fair(results[i])
  BY DEF ComplaintsCount
<1>2. CASE results' = results
  BY <1>2 DEF ComplaintsCount
<1>3. CASE NoDataReceived
  <2>1. results' = <<[name |-> "NoDataReceived", severity |-> LOW, score |-> 0]>>
    BY <1>3 DEF NoDataReceived
  <2>2. \A i \in DOMAIN results' : results'[i].name = "NoDataReceived"
    BY <2>1
  <2> QED BY <2>2 DEF ComplaintsCount, MapperHeuristics, ReducerHeuristics
<1>4. CASE RunHeuristic /\ results' # results
  <2> DEFINE h == Heuristics[place]
             entry == Result(h)
  <2>1. /\ pc = "heuristics" /\ h \in HeuristicNames
        /\ entry.severity \in Severities /\ results' = Append(results, entry)
    BY <1>4, HeuristicsListed DEF RunHeuristic, AnalysisInv
  <2>2. ASSUME h \in MapperHeuristics \cup ReducerHeuristics
        PROVE  Severity(h, data) > LOW <=> Score(h, data) > 0
    <3> DEFINE tasks == TasksOf(h, data)
    <3>1. h # "Exception"
      BY <2>2 DEF MapperHeuristics, ReducerHeuristics
    <3>2. Severity(h, data) \in Severities
      BY <2>1 DEF Result
    <3>3. data.succeeded
      <4>1. ~data.succeeded => Severity(h, data) = Null
        BY <2>1, <3>1, SeverityType DEF AnalysisInv
      <4> QED BY <3>2, <4>1 DEF Severities, Null, NONE, CRITICAL
    <3>4. Len(tasks) \in Nat /\ DOMAIN tasks = 1 .. Len(tasks)
      BY <2>1, <3>3, TaskCounts
    <3>5. Score(h, data) = IF Severity(h, data) > LOW THEN Severity(h, data) * Len(tasks) ELSE 0
      BY <3>1 DEF Score, HeuristicScore
    <3>6. CASE Severity(h, data) > LOW
      <4>1. tasks # <<>>
        BY <2>2, <3>2, <3>3, <3>6, SilentWithoutTasks DEF LOW, Severities, NONE, CRITICAL
      <4>2. Len(tasks) > 0
        <5> SUFFICES ASSUME Len(tasks) = 0 PROVE FALSE
          BY <3>4
        <5>1. \E kind \in Kinds : tasks = data[kind]
          BY <2>1 DEF TasksOf, Kinds, AnalysisInv, SampleInv, NoData
        <5>2. PICK kind \in Kinds : tasks = data[kind]
          BY <5>1
        <5>3. Listed
          BY <2>1, <3>3 DEF Listed
        <5>4. PICK n \in Nat : ReadSoFar(kind, n)
          BY <5>3 DEF AnalysisInv, SampleInv
        <5>5. tasks = [i \in DOMAIN tasks |-> tasks[i]]
          BY <5>2, <5>4 DEF ReadSoFar
        <5> HIDE DEF tasks
        <5> QED BY <3>4, <4>1, <5>5
      <4>3. Severity(h, data) \in Nat /\ Severity(h, data) > 0
        BY <3>2, <3>6 DEF LOW, Severities, NONE, CRITICAL
      <4> HIDE DEF tasks, h
      <4>4. \A s, n \in Nat : s > 0 /\ n > 0 => s * n > 0
        OBVIOUS
      <4> QED BY <3>4, <3>5, <3>6, <4>2, <4>3, <4>4
    <3>7. CASE ~(Severity(h, data) > LOW)
      BY <3>5, <3>7
    <3> QED BY <3>6, <3>7
  <2>3. Fair(entry)
    BY <2>2 DEF Result
  <2>4. results \in Seq(Entries)
    BY DEF AnalysisInv
  <2> HIDE DEF entry, Fair
  <2>5. \A i \in DOMAIN results' : results'[i] = entry \/ (i \in DOMAIN results /\ results'[i] = results[i])
    BY <2>1, <2>4
  <2>6. \A i \in DOMAIN results' : Fair(results'[i])
    BY <1>1, <2>3, <2>5
  <2> QED BY <2>6 DEF ComplaintsCount, Fair
<1>5. results' = results \/ NoDataReceived \/ (RunHeuristic /\ results' # results)
  BY DEF Next, mapReduceState, RequestFails, ReadConf, ReadState, ReadDiagnosis, ReadCounters,
         ReadTaskList, ReadTask, TasksRead, HeuristicsRun, SumUp
<1> QED BY <1>2, <1>3, <1>4, <1>5

(* With limits above 0, a heuristic complains exactly if it adds to the    *)
(* score: none complains of tasks that there are not.                      *)
THEOREM ComplaintsAreCounted ==
    ASSUME LimitsAboveZero
    PROVE  JobSpec => []ComplaintsCount
<1>1. JobInit => AnalysisInv /\ ComplaintsCount
  BY AnalysisInit DEF JobInit, Init, ComplaintsCount
<1>2. AnalysisInv /\ ComplaintsCount /\ [JobNext]_<<appType, row, info, mapReduceState, sparkState>>
        => AnalysisInv' /\ ComplaintsCount'
  BY AnalysisNext, ComplaintsNext, JobSteps
<1> QED BY <1>1, <1>2, PTL DEF JobSpec

-----------------------------------------------------------------------------
(* Sums.  Total takes the places of a list from the last one down.         *)
Adds(values, f) ==
    f = [s \in SUBSET DOMAIN values |->
            IF s = {} THEN 0 ELSE f[s \ {Max(s)}] + values[Max(s)]]

(* An additive function of sets of places.                                 *)
SumsUp(values, g) ==
    /\ \A s \in SUBSET DOMAIN values : g[s] \in Int
    /\ g[{}] = 0
    /\ \A s \in SUBSET DOMAIN values : \A i \in s : g[s] = g[s \ {i}] + values[i]

LEMMA TotalFold ==
    ASSUME NEW values
    PROVE  Total(values) = (CHOOSE f : Adds(values, f))[DOMAIN values]
BY Zenon DEF Total, FoldLeft, MapThenFoldSet, Adds

(* The total is what any additive function says of all places.             *)
LEMMA TotalIs ==
    ASSUME NEW values, NEW n \in Nat, DOMAIN values = 1 .. n, NEW g, SumsUp(values, g)
    PROVE  Total(values) = g[DOMAIN values]
<1> DEFINE D == DOMAIN values
           f == [s \in SUBSET D |-> g[s]]
<1>1. D \in SUBSET Nat /\ IsFiniteSet(D)
  BY FS_Interval
<1>2. \A s \in SUBSET D : s # {} => Max(s) \in s
  <2> SUFFICES ASSUME NEW s \in SUBSET D, s # {} PROVE Max(s) \in s
    OBVIOUS
  <2>1. s \in SUBSET Nat /\ IsFiniteSet(s)
    BY <1>1, FS_Subset
  <2> QED BY <2>1, Extremes
<1>3. Adds(values, f)
  <2>1. ASSUME NEW s \in SUBSET D, s # {}
        PROVE  g[s] = f[s \ {Max(s)}] + values[Max(s)]
    <3>1. Max(s) \in s /\ s \ {Max(s)} \in SUBSET D
      BY <1>2, <2>1
    <3>2. f[s \ {Max(s)}] = g[s \ {Max(s)}]
      BY <3>1
    <3> QED BY <3>1, <3>2 DEF SumsUp
  <2>2. \A s \in SUBSET D : f[s] = IF s = {} THEN 0 ELSE f[s \ {Max(s)}] + values[Max(s)]
    BY <2>1 DEF SumsUp
  <2>3. f = [s \in SUBSET D |-> f[s]]
    OBVIOUS
  <2> HIDE DEF f
  <2> QED BY <2>2, <2>3 DEF Adds
<1>4. ASSUME NEW h, Adds(values, h) PROVE h[D] = g[D]
  <2> DEFINE Wrong == {s \in SUBSET D : h[s] # g[s]}
  <2> SUFFICES ASSUME Wrong # {} PROVE FALSE
    OBVIOUS
  <2>1. PICK s \in Wrong : \A u \in Wrong : ~(Cardinality(u) < Cardinality(s))
    <3>1. Wrong \in SUBSET SUBSET D
      OBVIOUS
    <3> HIDE DEF Wrong, D
    <3> QED BY <1>1, <3>1, SmallestSubset
  <2>2. s \in SUBSET D /\ h[s] # g[s]
    OBVIOUS
  <2>3. \A u \in SUBSET D : h[u] = IF u = {} THEN 0 ELSE h[u \ {Max(u)}] + values[Max(u)]
    <3>1. h = [u \in SUBSET D |-> IF u = {} THEN 0 ELSE h[u \ {Max(u)}] + values[Max(u)]]
      BY <1>4 DEF Adds
    <3> HIDE DEF D
    <3> QED BY ONLY <3>1
  <2>4. s # {}
    BY <2>2, <2>3 DEF SumsUp
  <2> DEFINE x == Max(s)
             r == s \ {x}
  <2>5. x \in s /\ r \in SUBSET D
    BY <1>2, <2>2, <2>4
  <2>6. Cardinality(r) < Cardinality(s)
    <3>1. IsFiniteSet(s)
      BY <1>1, <2>2, FS_Subset
    <3>2. Cardinality(r) = Cardinality(s) - 1 /\ Cardinality(s) \in Nat
      BY <2>5, <3>1, FS_RemoveElement, FS_CardinalityType
    <3> QED BY <3>2
  <2>7. h[r] = g[r]
    BY <2>1, <2>5, <2>6
  <2>8. h[s] = h[r] + values[x]
    BY <2>2, <2>3, <2>4
  <2>9. g[s] = g[r] + values[x]
    BY <2>2, <2>5 DEF SumsUp
  <2> QED BY <2>2, <2>7, <2>8, <2>9
<1>5. (CHOOSE h : Adds(values, h))[D] = g[D]
  <2> HIDE DEF f, D
  <2> QED BY <1>3, <1>4
<1> QED BY <1>5, TotalFold

(* A list of numbers that are not negative.                                *)
LEMMA TotalNat ==
    ASSUME NEW values, NEW n \in Nat, DOMAIN values = 1 .. n,
           \A i \in 1 .. n : values[i] \in Nat
    PROVE  Total(values) \in Nat
<1> DEFINE g == [s \in SUBSET DOMAIN values |-> Weight(values, s)]
<1>1. IsFiniteSet(DOMAIN values)
  BY FS_Interval
<1>2. \A s \in SUBSET DOMAIN values : Weighted(values, s)
  BY <1>1, FS_Subset DEF Weighted
<1>3. \A s \in SUBSET DOMAIN values : g[s] = Weight(values, s) /\ g[s] \in Nat
  BY <1>2, UnitsFinite
<1> HIDE DEF g
<1>4. g[{}] = 0
  BY <1>3, WeightEmpty
<1>5. ASSUME NEW s \in SUBSET DOMAIN values, NEW i \in s
      PROVE  g[s] = g[s \ {i}] + values[i]
  <2>1. s \ {i} \in SUBSET DOMAIN values /\ values[i] \in Nat
    OBVIOUS
  <2>2. Weight(values, s) = values[i] + Weight(values, s \ {i})
    <3>1. Weighted(values, s)
      BY <1>2
    <3> QED BY ONLY <3>1, i \in s, WeightAdd
  <2>3. g[s] = Weight(values, s) /\ g[s \ {i}] = Weight(values, s \ {i}) /\ g[s \ {i}] \in Nat
    BY <1>3, <2>1
  <2> QED BY ONLY <2>1, <2>2, <2>3
<1>6. SumsUp(values, g)
  <2>1. \A s \in SUBSET DOMAIN values : g[s] \in Int
    BY <1>3
  <2> QED BY <1>4, <1>5, <2>1 DEF SumsUp
<1> QED BY <1>3, <1>6, TotalIs

(* A list that has two values only.                                        *)
LEMMA TotalOfTwo ==
    ASSUME NEW values, NEW n \in Nat, DOMAIN values = 1 .. n,
           NEW A \in SUBSET (1 .. n), NEW v \in Int, NEW w \in Int,
           \A i \in 1 .. n : values[i] = IF i \in A THEN v ELSE w
    PROVE  Total(values) = v * Cardinality(A) + w * (n - Cardinality(A))
<1> DEFINE g == [s \in SUBSET DOMAIN values |->
                    v * Cardinality(s \cap A) + w * Cardinality(s \ A)]
<1>1. \A s \in SUBSET DOMAIN values :
         /\ IsFiniteSet(s) /\ IsFiniteSet(s \cap A) /\ IsFiniteSet(s \ A)
         /\ Cardinality(s \cap A) \in Nat /\ Cardinality(s \ A) \in Nat
  <2>1. IsFiniteSet(DOMAIN values)
    BY FS_Interval
  <2>2. \A s \in SUBSET DOMAIN values : IsFiniteSet(s) /\ IsFiniteSet(s \cap A) /\ IsFiniteSet(s \ A)
    BY <2>1, FS_Subset
  <2> QED BY <2>2, FS_CardinalityType
<1>2. \A s \in SUBSET DOMAIN values :
         g[s] = v * Cardinality(s \cap A) + w * Cardinality(s \ A)
  OBVIOUS
<1> HIDE DEF g
<1>3. \A c \in Int, k \in Nat : c * k \in Int /\ c * 0 = 0 /\ c * (k + 1) = c * k + c
  OBVIOUS
<1>4. g[{}] = 0
  <2>1. {} \cap A = {} /\ {} \ A = {} /\ Cardinality({}) = 0 /\ {} \in SUBSET DOMAIN values
    BY FS_EmptySet
  <2>2. g[{}] = v * 0 + w * 0
    BY <1>2, <2>1
  <2> QED BY <1>3, <2>2
<1>5. \A s \in SUBSET DOMAIN values : g[s] \in Int
  <2> SUFFICES ASSUME NEW s \in SUBSET DOMAIN values PROVE g[s] \in Int
    OBVIOUS
  <2>1. Cardinality(s \cap A) \in Nat /\ Cardinality(s \ A) \in Nat
    BY <1>1
  <2>2. v * Cardinality(s \cap A) \in Int /\ w * Cardinality(s \ A) \in Int
    BY ONLY <1>3, <2>1, v \in Int, w \in Int
  <2>3. g[s] = v * Cardinality(s \cap A) + w * Cardinality(s \ A)
    BY <1>2
  <2> QED BY ONLY <2>2, <2>3
<1>6. ASSUME NEW s \in SUBSET DOMAIN values, NEW i \in s
      PROVE  g[s] = g[s \ {i}] + values[i]
  <2> DEFINE r == s \ {i}
             a == Cardinality(s \cap A)
             b == Cardinality(s \ A)
             c == Cardinality(r \cap A)
             d == Cardinality(r \ A)
  <2>1. r \in SUBSET DOMAIN values /\ i \in 1 .. n
    OBVIOUS
  <2>2. g[s] = v * a + w * b /\ g[r] = v * c + w * d
    BY <1>2, <2>1
  <2>3. a \in Nat /\ b \in Nat /\ c \in Nat /\ d \in Nat
    BY <1>1, <2>1
  <2>4. CASE i \in A
    <3>1. r \ A = s \ A /\ r \cap A = (s \cap A) \ {i} /\ i \in s \cap A
      BY <2>4
    <3>2. IsFiniteSet(s \cap A)
      BY <1>1
    <3>3. Cardinality((s \cap A) \ {i}) = Cardinality(s \cap A) - 1
      BY ONLY <3>1, <3>2, FS_RemoveElement
    <3>4. b = d /\ c = a - 1
      BY <3>1, <3>3
    <3>5. values[i] = v
      BY <2>1, <2>4
    <3> HIDE DEF a, b, c, d, r
    <3>6. a = c + 1
      BY ONLY <2>3, <3>4
    <3>7. v * a = v * c + v /\ v * c \in Int /\ w * d \in Int
      BY ONLY <1>3, <2>3, <3>6, v \in Int, w \in Int
    <3>8. g[s] = g[r] + v
      BY ONLY <2>2, <3>4, <3>7, v \in Int
    <3> QED BY <3>5, <3>8 DEF r
  <2>5. CASE i \notin A
    <3>1. r \cap A = s \cap A /\ r \ A = (s \ A) \ {i} /\ i \in s \ A
      BY <2>5
    <3>2. IsFiniteSet(s \ A)
      BY <1>1
    <3>3. Cardinality((s \ A) \ {i}) = Cardinality(s \ A) - 1
      BY ONLY <3>1, <3>2, FS_RemoveElement
    <3>4. a = c /\ d = b - 1
      BY <3>1, <3>3
    <3>5. values[i] = w
      BY <2>1, <2>5
    <3> HIDE DEF a, b, c, d, r
    <3>6. b = d + 1
      BY ONLY <2>3, <3>4
    <3>7. w * b = w * d + w /\ v * c \in Int /\ w * d \in Int
      BY ONLY <1>3, <2>3, <3>6, v \in Int, w \in Int
    <3>8. g[s] = g[r] + w
      BY ONLY <2>2, <3>4, <3>7, w \in Int
    <3> QED BY <3>5, <3>8 DEF r
  <2> QED BY <2>4, <2>5
<1>7. SumsUp(values, g)
  BY <1>4, <1>5, <1>6 DEF SumsUp
<1>8. Total(values) = g[DOMAIN values]
  BY <1>7, TotalIs
<1>9. DOMAIN values \cap A = A /\ Cardinality(DOMAIN values \ A) = n - Cardinality(A)
  <2>1. IsFiniteSet(1 .. n) /\ Cardinality(1 .. n) = n
    <3>1. 1 \in Int /\ n \in Int /\ (IF 1 > n THEN 0 ELSE n - 1 + 1) = n
      OBVIOUS
    <3> QED BY <3>1, FS_Interval
  <2>2. (1 .. n) \cap A = A
    OBVIOUS
  <2> QED BY <2>1, <2>2, FS_Difference
<1> QED BY <1>2, <1>8, <1>9

-----------------------------------------------------------------------------
(* Lists, averages and sizes.                                              *)
LEMMA QuotientBetween ==
    ASSUME NEW t \in Int, NEW n \in Nat \ {0}, NEW lo \in Int, NEW hi \in Int,
           lo * n <= t, t <= hi * n
    PROVE  t \div n \in Int /\ lo <= t \div n /\ t \div n <= hi
OBVIOUS

LEMMA TwoSizesBetween ==
    ASSUME NEW v \in Nat, NEW w \in Nat, NEW a \in Nat \ {0}, NEW b \in Nat \ {0},
           w >= v + (a + b)
    PROVE  (v + 1) * (a + b) <= v * a + w * b /\ v * a + w * b <= w * (a + b)
OBVIOUS

LEMMA PlacesCounted ==
    ASSUME NEW n \in Nat
    PROVE  IsFiniteSet(1 .. n) /\ Cardinality(1 .. n) = n
<1>1. 1 \in Int /\ n \in Int /\ (IF 1 > n THEN 0 ELSE n - 1 + 1) = n
  OBVIOUS
<1> QED BY <1>1, FS_Interval

(* Picking all places changes nothing, picking none leaves nothing.        *)
LEMMA PickedAll ==
    ASSUME NEW list, NEW n \in Nat, list = [i \in 1 .. n |-> list[i]]
    PROVE  Picked(list, 1 .. n) = list
<1>1. ASSUME NEW k \in 1 .. n
      PROVE  (CHOOSE i \in 1 .. n : Cardinality({j \in 1 .. n : j < i}) = k - 1) = k
  <2>1. ASSUME NEW i \in 1 .. n PROVE Cardinality({j \in 1 .. n : j < i}) = i - 1
    <3>1. {j \in 1 .. n : j < i} = 1 .. (i - 1) /\ i - 1 \in Nat
      OBVIOUS
    <3> QED BY <3>1, PlacesCounted
  <2>2. \A i \in 1 .. n : Cardinality({j \in 1 .. n : j < i}) = k - 1 <=> i = k
    BY <2>1
  <2> DEFINE count(i) == Cardinality({j \in 1 .. n : j < i})
  <2>3. \A i \in 1 .. n : count(i) = k - 1 <=> i = k
    BY <2>2
  <2> HIDE DEF count
  <2>4. (CHOOSE i \in 1 .. n : count(i) = k - 1) = k
    BY <2>3
  <2> QED BY <2>4 DEF count
<1> DEFINE nth(k) == CHOOSE i \in 1 .. n : Cardinality({j \in 1 .. n : j < i}) = k - 1
<1>2. \A k \in 1 .. n : nth(k) = k
  BY <1>1
<1>3. Picked(list, 1 .. n) = [k \in 1 .. n |-> list[nth(k)]]
  BY PlacesCounted DEF Picked
<1> HIDE DEF nth
<1> QED BY <1>2, <1>3

LEMMA PickedNone == \A list : Picked(list, {}) = <<>>
BY FS_EmptySet DEF Picked

(* The average of a list of two values, of one value and of nothing.       *)
LEMMA MeanOfTwo ==
    ASSUME NEW values, NEW n \in Nat \ {0}, values = [i \in 1 .. n |-> values[i]],
           NEW A \in SUBSET (1 .. n), NEW v \in Int, NEW w \in Int,
           \A i \in 1 .. n : values[i] = IF i \in A THEN v ELSE w
    PROVE  Mean(values) = (v * Cardinality(A) + w * (n - Cardinality(A))) \div n
<1>1. DOMAIN values = 1 .. n /\ Len(values) = n /\ values # <<>>
  OBVIOUS
<1>2. Total(values) = v * Cardinality(A) + w * (n - Cardinality(A))
  <2>1. n \in Nat /\ A \in SUBSET (1 .. n) /\ v \in Int /\ w \in Int
    OBVIOUS
  <2>2. \A i \in 1 .. n : values[i] = IF i \in A THEN v ELSE w
    OBVIOUS
  <2>3. DOMAIN values = 1 .. n
    BY <1>1
  <2> QED BY ONLY <2>1, <2>2, <2>3, TotalOfTwo, Zenon
<1> QED BY <1>1, <1>2 DEF Mean

LEMMA MeanOfOne ==
    ASSUME NEW values, NEW n \in Nat \ {0}, values = [i \in 1 .. n |-> values[i]],
           NEW v \in Int, \A i \in 1 .. n : values[i] = v
    PROVE  Mean(values) = v
<1> DEFINE A == 1 .. n
<1>1. /\ n \in Nat \ {0} /\ n \in Nat /\ values = [i \in 1 .. n |-> values[i]] /\ v \in Int
      /\ A \in SUBSET (1 .. n) /\ \A i \in 1 .. n : values[i] = IF i \in A THEN v ELSE v
  OBVIOUS
<1>1a. Cardinality(A) = n
  BY <1>1, PlacesCounted
<1> HIDE DEF A
<1>1b. Mean(values) = (v * Cardinality(A) + v * (n - Cardinality(A))) \div n
  BY ONLY <1>1, MeanOfTwo
<1>2. Mean(values) = (v * n + v * (n - n)) \div n
  BY <1>1a, <1>1b
<1>3. v * n + v * (n - n) = v * n /\ v * n \in Int
  OBVIOUS
<1>4. (v * n) \div n = v
  OBVIOUS
<1> QED BY <1>2, <1>3, <1>4

PlacesOf(values, v) == {i \in DOMAIN values : values[i] = v}

AreList(values, n) == values = [i \in 1 .. n |-> values[i]]

(* Whatever the sizes are, the third guess at the middle is the first or   *)
(* the second, and either tells two sizes apart.                           *)
LEMMA TwoSizes ==
    ASSUME NEW values, NEW n \in Nat, AreList(values, n),
           NEW v \in Nat, NEW w \in Nat, v # w, w >= v + n,
           \A i \in 1 .. n : values[i] \in {v, w},
           \E i \in 1 .. n : values[i] = v, \E i \in 1 .. n : values[i] = w
    PROVE  TwoGroups(values) = <<Picked(values, PlacesOf(values, v)),
                                 Picked(values, PlacesOf(values, w))>>
<1> USE DEF AreList
<1> DEFINE A == {i \in 1 .. n : values[i] = v}
           B == {i \in 1 .. n : values[i] = w}
           a == Cardinality(A)
           b == Cardinality(B)
           m == Mean(values)
           apart == <<Picked(values, A), Picked(values, B)>>
<1>1. DOMAIN values = 1 .. n /\ v < w
  OBVIOUS
<1>2. IsFiniteSet(A) /\ IsFiniteSet(B) /\ a \in Nat \ {0} /\ b \in Nat \ {0} /\ n = a + b
  <2>1. IsFiniteSet(1 .. n) /\ Cardinality(1 .. n) = n /\ A \subseteq 1 .. n /\ B \subseteq 1 .. n
    BY PlacesCounted
  <2>2. IsFiniteSet(A) /\ IsFiniteSet(B)
    BY <2>1, FS_Subset
  <2>3. A # {} /\ B # {} /\ A \cap B = {} /\ A \cup B = 1 .. n
    OBVIOUS
  <2> HIDE DEF A, B
  <2>4. a \in Nat /\ b \in Nat /\ a # 0 /\ b # 0
    BY <2>2, <2>3, FS_CardinalityType, FS_EmptySet
  <2>5. Cardinality(A \cup B) = a + b - Cardinality(A \cap B) /\ Cardinality(A \cap B) = 0
    BY <2>2, <2>3, FS_Union, FS_EmptySet
  <2>6. n = a + b
    <3>1. Cardinality(A \cup B) = n
      BY ONLY <2>1, <2>3
    <3> QED BY ONLY <2>4, <2>5, <3>1
  <2> QED BY ONLY <2>2, <2>4, <2>6
<1>3. m \in Int /\ v < m /\ m <= w
  <2>1. \A i \in 1 .. n : values[i] = IF i \in A THEN v ELSE w
    OBVIOUS
  <2>2. /\ A \in SUBSET (1 .. n) /\ n \in Nat \ {0} /\ v \in Int /\ w \in Int
        /\ values = [i \in 1 .. n |-> values[i]]
    BY <1>2
  <2> HIDE DEF A, B
  <2>3. m = (v * a + w * (n - a)) \div n
    BY ONLY <2>1, <2>2, MeanOfTwo
  <2> HIDE DEF a, b, m
  <2>4. m = (v * a + w * b) \div n /\ v * a + w * b \in Int
    BY <1>2, <2>3
  <2>5. (v + 1) * n <= v * a + w * b /\ v * a + w * b <= w * n
    BY <1>2, TwoSizesBetween
  <2>6. m \in Int /\ v + 1 <= m /\ m <= w
    <3> DEFINE t == v * a + w * b
               lo == v + 1
    <3>1. t \in Int /\ lo \in Int /\ w \in Int /\ n \in Nat \ {0} /\ lo * n <= t /\ t <= w * n
      BY <2>2, <2>4, <2>5
    <3>2. m = t \div n
      BY <2>4
    <3> HIDE DEF t, lo
    <3>3. m \in Int /\ lo <= m /\ m <= w
      BY ONLY <3>1, <3>2, QuotientBetween
    <3> QED BY <3>3 DEF lo
  <2> QED BY <2>6
<1>4. ASSUME NEW middle \in Int, v < middle, middle <= w
      PROVE  TwoMeans(values, middle) = apart
  <2>1. {i \in DOMAIN values : values[i] < middle} = A
    BY <1>1, <1>4
  <2>2. {i \in DOMAIN values : values[i] >= middle} = B
    BY <1>1, <1>4
  <2> QED BY <2>1, <2>2 DEF TwoMeans
<1>5. ASSUME NEW middle \in Int, middle <= v
      PROVE  TwoMeans(values, middle) = <<<<>>, values>>
  <2>1. {i \in DOMAIN values : values[i] < middle} = {}
    BY <1>1, <1>5
  <2>2. {i \in DOMAIN values : values[i] >= middle} = 1 .. n
    BY <1>1, <1>5
  <2> QED BY <2>1, <2>2, PickedAll, PickedNone DEF TwoMeans
<1>6. Mean(Picked(values, A)) = v /\ Mean(Picked(values, B)) = w
  <2>1. ASSUME NEW S \in SUBSET (1 .. n), IsFiniteSet(S), Cardinality(S) \in Nat \ {0},
               NEW x \in Int, \A i \in S : values[i] = x
        PROVE  Mean(Picked(values, S)) = x
    <3>1. PICK at \in [1 .. Cardinality(S) -> S] :
             Picked(values, S) = [k \in 1 .. Cardinality(S) |-> values[at[k]]]
      <4>1. S \in SUBSET Nat
        OBVIOUS
      <4>2. PICK at \in [1 .. Cardinality(S) -> S] :
               \A list : Picked(list, S) = [k \in 1 .. Cardinality(S) |-> list[at[k]]]
        BY ONLY <2>1, <4>1, PickedPlaces
      <4> QED BY <4>2
    <3> DEFINE list == Picked(values, S)
    <3>2. /\ list = [k \in 1 .. Cardinality(S) |-> list[k]]
          /\ \A k \in 1 .. Cardinality(S) : list[k] = x
      BY <2>1, <3>1
    <3> HIDE DEF list
    <3>3. Mean(list) = x
      BY <2>1, <3>2, MeanOfOne
    <3> QED BY <3>3 DEF list
  <2>2. \A i \in A : values[i] = v
    OBVIOUS
  <2>3. \A i \in B : values[i] = w
    OBVIOUS
  <2>4. A \in SUBSET (1 .. n) /\ B \in SUBSET (1 .. n)
    OBVIOUS
  <2> HIDE DEF A, B
  <2>5. /\ IsFiniteSet(A) /\ IsFiniteSet(B) /\ v \in Int /\ w \in Int
        /\ Cardinality(A) \in Nat \ {0} /\ Cardinality(B) \in Nat \ {0}
    BY <1>2
  <2>6. Mean(Picked(values, A)) = v
    BY ONLY <2>1, <2>2, <2>4, <2>5
  <2>7. Mean(Picked(values, B)) = w
    BY ONLY <2>1, <2>3, <2>4, <2>5
  <2> QED BY <2>6, <2>7
<1>7. NewMiddle(apart) = w - v
  BY <1>6 DEF NewMiddle
<1>8. NewMiddle(<<<<>>, values>>) = m
  BY <1>3 DEF NewMiddle, Mean
<1> DEFINE second == TwoMeans(values, w - v)
<1>9. TwoGroups(values) = TwoMeans(values, NewMiddle(second))
  <2>1. TwoMeans(values, Mean(values)) = apart
    BY <1>3, <1>4
  <2>2. m \in Int /\ w - v \in Int
    BY <1>3
  <2> HIDE DEF apart, m
  <2>3. second = TwoMeans(values, w - v)
    OBVIOUS
  <2>4. NewMiddle(second) \in Int
    <3>1. second = apart \/ second = <<<<>>, values>>
      BY <1>3, <1>4, <1>5, <2>2, <2>3
    <3> QED BY <1>7, <1>8, <2>2, <3>1
  <2> HIDE DEF second
  <2>5. m = Mean(values)
    BY DEF m
  <2> QED BY <1>7, <2>1, <2>2, <2>3, <2>4, <2>5, GroupsOf
<1>10. TwoGroups(values) = apart
  <2>1. CASE v < w - v
    <3>1. second = apart
      <4>1. w - v \in Int /\ w - v <= w
        OBVIOUS
      <4> HIDE DEF apart, second
      <4> QED BY <1>4, <2>1, <4>1 DEF second
    <3>2. TwoGroups(values) = second
      BY <1>7, <1>9, <3>1
    <3> QED BY <3>1, <3>2
  <2>2. CASE ~(v < w - v)
    <3>1. w - v \in Int /\ w - v <= v
      BY <2>2
    <3>2. second = <<<<>>, values>>
      BY <1>5, <3>1
    <3>3. TwoGroups(values) = TwoMeans(values, m)
      BY <1>8, <1>9, <3>2
    <3> QED BY <1>3, <1>4, <3>3
  <2> QED BY <2>1, <2>2
<1>11. A = PlacesOf(values, v) /\ B = PlacesOf(values, w)
  BY <1>1 DEF PlacesOf
<1> QED BY <1>10, <1>11

(* What a heuristic reads of the tasks of a kind.                          *)
LEMMA InputsRead ==
    ASSUME SampleInv, Listed, NEW kind \in Kinds
    PROVE  \E n \in Nat : /\ Inputs(data[kind]) = [i \in 1 .. n |-> Inputs(data[kind])[i]]
                          /\ \A i \in 1 .. n : Inputs(data[kind])[i] \in Nat
<1> DEFINE tasks == data[kind]
           D == {i \in DOMAIN tasks : tasks[i].sampled}
           n == Cardinality(D)
<1>1. /\ DOMAIN tasks = 1 .. Len(order[kind]) /\ Len(order[kind]) \in Nat
      /\ \A i \in D : \E id \in DOMAIN job.tasks : tasks[i] = SampledTask(id)
  BY SampledTasks
<1>2. /\ n \in Nat /\ DOMAIN Visited(tasks) = 1 .. n
      /\ \A k \in 1 .. n : \E i \in D : Visited(tasks)[k] = tasks[i]
  <2> HIDE DEF tasks
  <2> QED BY <1>1, VisitedTasks
<1>3. Inputs(tasks) = [k \in 1 .. n |-> Visited(tasks)[k].counters["input"]]
  BY <1>2 DEF Inputs, CounterValues
<1>4. ASSUME NEW k \in 1 .. n PROVE Visited(tasks)[k].counters["input"] \in Nat
  <2>1. PICK id \in DOMAIN job.tasks : Visited(tasks)[k] = SampledTask(id)
    BY <1>1, <1>2
  <2>2. job.tasks[id].counters \in [CounterNames -> Nat]
    BY AnalysisAssumption DEF SampleInv
  <2> QED BY <2>1, <2>2 DEF SampledTask, CounterNames
<1> HIDE DEF D, n, tasks
<1>5. Inputs(tasks) = [i \in 1 .. n |-> Inputs(tasks)[i]] /\ \A i \in 1 .. n : Inputs(tasks)[i] \in Nat
  BY <1>3, <1>4
<1> QED BY <1>2, <1>5 DEF tasks

(* Sizes that differ by the number of tasks are told apart, although the   *)
(* second and third guess at the middle are differences of averages.       *)
THEOREM SizesAreToldApart == JobSpec => []TwoSizesToldApart
<1>1. JobInit => SampleInv
  BY SampleInit DEF JobInit
<1>2. SampleInv /\ [JobNext]_<<appType, row, info, mapReduceState, sparkState>> => SampleInv'
  BY SampleNext, JobSteps
<1>3. SampleInv => TwoSizesToldApart
  <2> SUFFICES ASSUME SampleInv, pc = "done", data.succeeded,
                      NEW tasks \in {data.mappers, data.reducers},
                      NEW v \in ToSet(Inputs(tasks)), NEW w \in ToSet(Inputs(tasks)),
                      ToSet(Inputs(tasks)) = {v, w}, w >= v + Len(Inputs(tasks)), v # w
               PROVE  TwoGroups(Inputs(tasks)) =
                        <<Picked(Inputs(tasks), {i \in DOMAIN Inputs(tasks) : Inputs(tasks)[i] = v}),
                          Picked(Inputs(tasks), {i \in DOMAIN Inputs(tasks) : Inputs(tasks)[i] = w})>>
    BY DEF TwoSizesToldApart
  <2> PICK kind \in Kinds : tasks = data[kind]
    BY DEF SampleInv, NoData, Kinds
  <2> DEFINE inputs == Inputs(tasks)
  <2>1. Listed
    BY DEF Listed
  <2>2. PICK n \in Nat : inputs = [i \in 1 .. n |-> inputs[i]] /\ \A i \in 1 .. n : inputs[i] \in Nat
    BY <2>1, InputsRead
  <2> HIDE DEF inputs
  <2>3. DOMAIN inputs = 1 .. n /\ Len(inputs) = n
    BY <2>2
  <2>4. ToSet(inputs) = {inputs[i] : i \in 1 .. n}
    BY <2>3 DEF ToSet
  <2>5. ToSet(inputs) = {v, w} /\ w >= v + n /\ v \in ToSet(inputs) /\ w \in ToSet(inputs)
    BY <2>3 DEF inputs
  <2>6. v \in Nat /\ w \in Nat /\ \A i \in 1 .. n : inputs[i] \in {v, w}
    <3>1. \A x \in ToSet(inputs) : x \in Nat
      BY ONLY <2>2, <2>4
    <3>2. \A i \in 1 .. n : inputs[i] \in ToSet(inputs)
      BY ONLY <2>4
    <3> QED BY ONLY <2>5, <3>1, <3>2
  <2>7. (\E i \in 1 .. n : inputs[i] = v) /\ (\E i \in 1 .. n : inputs[i] = w)
    BY <2>4, <2>5
  <2>8. TwoGroups(inputs) = <<Picked(inputs, PlacesOf(inputs, v)), Picked(inputs, PlacesOf(inputs, w))>>
    <3>1. v # w /\ w >= v + n /\ n \in Nat /\ AreList(inputs, n)
      BY <2>2, <2>5 DEF AreList
    <3> QED BY ONLY <2>6, <2>7, <3>1, TwoSizes
  <2> QED BY <2>8 DEF inputs, PlacesOf
<1> QED BY <1>1, <1>2, <1>3, PTL DEF JobSpec

-----------------------------------------------------------------------------
(* Tasks that are all alike.                                               *)
TaskRead(t) ==
    /\ t.counters \in [CounterNames -> Nat]
    /\ t.time \in [{"total", "shuffle", "sort"} -> Nat]

AllOf(tasks, n, t) ==
    /\ n \in Nat \ {0} /\ TaskRead(t)
    /\ tasks = [i \in 1 .. n |-> tasks[i]]
    /\ \E k \in Nat \ {0} : Visited(tasks) = [i \in 1 .. k |-> t]

Same(x, k) == [i \in 1 .. k |-> x]

LEMMA MeanOfSame ==
    ASSUME NEW x \in Int, NEW k \in Nat \ {0}
    PROVE  Mean(Same(x, k)) = x
<1> DEFINE values == Same(x, k)
<1>1. values = [i \in 1 .. k |-> values[i]] /\ \A i \in 1 .. k : values[i] = x
  BY DEF Same
<1> HIDE DEF values
<1>2. Mean(values) = x
  BY <1>1, MeanOfOne
<1> QED BY <1>2 DEF values

LEMMA TotalOfSame ==
    ASSUME NEW x \in Nat, NEW k \in Nat \ {0}
    PROVE  Total(Same(x, k)) = x * k
<1> DEFINE values == Same(x, k)
           A == 1 .. k
<1>1. /\ k \in Nat /\ DOMAIN values = 1 .. k /\ A \in SUBSET (1 .. k) /\ x \in Int
      /\ \A i \in 1 .. k : values[i] = IF i \in A THEN x ELSE x
  BY DEF Same
<1>2. Cardinality(A) = k
  BY PlacesCounted
<1> HIDE DEF values, A
<1>3. Total(values) = x * Cardinality(A) + x * (k - Cardinality(A))
  BY ONLY <1>1, TotalOfTwo
<1>4. Total(values) = x * k + x * (k - k)
  BY ONLY <1>2, <1>3
<1>5. x * k + x * (k - k) = x * k
  OBVIOUS
<1> QED BY <1>4, <1>5 DEF values

LEMMA MedianOfSame ==
    ASSUME NEW x \in Int, NEW k \in Nat \ {0}
    PROVE  Median(Same(x, k)) = x
<1> DEFINE values == Same(x, k)
           upTo(v) == Cardinality({i \in DOMAIN values : values[i] <= v})
           below(v) == Cardinality({i \in DOMAIN values : values[i] < v})
           sorted(j) == CHOOSE v \in ToSet(values) : below(v) < j /\ j <= upTo(v)
           middle == Len(values) \div 2
<1>1. DOMAIN values = 1 .. k /\ Len(values) = k /\ \A i \in 1 .. k : values[i] = x
  BY DEF Same
<1>2. ToSet(values) = {x}
  BY <1>1 DEF ToSet
<1>3. below(x) = 0 /\ upTo(x) = k
  <2>1. {i \in DOMAIN values : values[i] < x} = {} /\ {i \in DOMAIN values : values[i] <= x} = 1 .. k
    BY <1>1
  <2> QED BY <2>1, FS_EmptySet, PlacesCounted
<1>4. Median(values) = IF Len(values) % 2 = 0 THEN (sorted(middle) + sorted(middle + 1)) \div 2
                       ELSE sorted(middle + 1)
  BY DEF Median
<1> HIDE DEF values, upTo, below
<1>5. ASSUME NEW j \in 1 .. k PROVE sorted(j) = x
  <2>1. \E v \in ToSet(values) : below(v) < j /\ j <= upTo(v)
    BY <1>2, <1>3
  <2>2. sorted(j) \in ToSet(values)
    <3> HIDE DEF upTo, below
    <3> QED BY ONLY <2>1
  <2> QED BY <1>2, <2>2
<1> HIDE DEF sorted
<1>6. CASE k % 2 = 0
  <2>1. middle \in 1 .. k /\ middle + 1 \in 1 .. k
    BY <1>1, <1>6
  <2>2. sorted(middle) = x /\ sorted(middle + 1) = x
    BY <1>5, <2>1
  <2>3. (x + x) \div 2 = x
    OBVIOUS
  <2> QED BY <1>1, <1>4, <1>6, <2>2, <2>3 DEF values
<1>7. CASE k % 2 # 0
  <2>1. middle + 1 \in 1 .. k
    BY <1>1, <1>7
  <2>2. sorted(middle + 1) = x
    BY <1>5, <2>1
  <2> QED BY <1>1, <1>4, <1>7, <2>2 DEF values
<1> QED BY <1>6, <1>7

(* No first guess divides sizes that are the same.                         *)
LEMMA GroupsOfSame ==
    ASSUME NEW x \in Nat, NEW k \in Nat \ {0}
    PROVE  TwoGroups(Same(x, k)) = <<<<>>, Same(x, k)>>
<1> DEFINE values == Same(x, k)
<1>1. DOMAIN values = 1 .. k /\ values = [i \in 1 .. k |-> values[i]] /\ \A i \in 1 .. k : values[i] = x
  BY DEF Same
<1>2. Mean(values) = x
  BY MeanOfSame
<1> HIDE DEF values
<1>3. TwoMeans(values, x) = <<<<>>, values>>
  <2>1. {i \in DOMAIN values : values[i] < x} = {} /\ {i \in DOMAIN values : values[i] >= x} = 1 .. k
    BY <1>1
  <2>2. Picked(values, 1 .. k) = values
    BY <1>1, PickedAll
  <2> QED BY <2>1, <2>2, PickedNone DEF TwoMeans
<1>4. NewMiddle(<<<<>>, values>>) = x
  BY <1>2 DEF NewMiddle, Mean
<1>5. TwoGroups(values) = <<<<>>, values>>
  BY <1>2, <1>3, <1>4, GroupsOf
<1> QED BY <1>5 DEF values

(* What the heuristics make of tasks that are alike.                       *)
LEMMA AllAlike ==
    ASSUME NEW tasks, NEW n, NEW t, AllOf(tasks, n, t)
    PROVE  /\ Len(tasks) = n /\ tasks # <<>>
           /\ \E k \in Nat \ {0} :
                 /\ \A c \in CounterNames : CounterValues(tasks, c) = Same(t.counters[c], k)
                 /\ \A p \in {"total", "shuffle", "sort"} : Times(tasks, p) = Same(t.time[p], k)
           /\ ~MissesCounters(tasks)
<1>1. PICK k \in Nat \ {0} : Visited(tasks) = [i \in 1 .. k |-> t]
  BY DEF AllOf
<1>2. Len(tasks) = n /\ tasks # <<>>
  BY DEF AllOf
<1>3. \A c \in CounterNames : CounterValues(tasks, c) = Same(t.counters[c], k)
  BY <1>1 DEF CounterValues, Same
<1>4. \A p \in {"total", "shuffle", "sort"} : Times(tasks, p) = Same(t.time[p], k)
  BY <1>1 DEF Times, Same
<1>5. ~MissesCounters(tasks)
  <2>1. t.counters # NoCounters
    <3>1. DOMAIN t.counters = CounterNames /\ "gc" \in CounterNames /\ "gc" \notin DOMAIN NoCounters
      BY DEF AllOf, TaskRead, CounterNames, NoCounters
    <3> QED BY <3>1
  <2>2. \A i \in DOMAIN Visited(tasks) : Visited(tasks)[i].counters = t.counters
    BY <1>1
  <2> QED BY <2>1, <2>2 DEF MissesCounters
<1> QED BY <1>2, <1>3, <1>4, <1>5

LEMMA AveragesAlike ==
    ASSUME NEW tasks, NEW n, NEW t, AllOf(tasks, n, t)
    PROVE  /\ \A c \in CounterNames : Mean(CounterValues(tasks, c)) = t.counters[c]
           /\ \A p \in {"total", "shuffle", "sort"} : Mean(Times(tasks, p)) = t.time[p]
           /\ Mean(RunTimes(tasks)) = t.time["total"]
           /\ Median(RunTimes(tasks)) = t.time["total"]
<1>1. PICK k \in Nat \ {0} :
         /\ \A c \in CounterNames : CounterValues(tasks, c) = Same(t.counters[c], k)
         /\ \A p \in {"total", "shuffle", "sort"} : Times(tasks, p) = Same(t.time[p], k)
  BY AllAlike
<1>2. /\ \A c \in CounterNames : t.counters[c] \in Int
      /\ \A p \in {"total", "shuffle", "sort"} : t.time[p] \in Int
  BY DEF AllOf, TaskRead
<1>3. \A c \in CounterNames : Mean(CounterValues(tasks, c)) = t.counters[c]
  BY <1>1, <1>2, MeanOfSame
<1>4. \A p \in {"total", "shuffle", "sort"} : Mean(Times(tasks, p)) = t.time[p]
  BY <1>1, <1>2, MeanOfSame
<1>5. Median(RunTimes(tasks)) = t.time["total"]
  BY <1>1, <1>2, MedianOfSame DEF RunTimes
<1> QED BY <1>3, <1>4, <1>5 DEF RunTimes

LEMMA Cancel ==
    ASSUME NEW x \in Nat, NEW o \in Nat \ {0}, NEW k \in Nat \ {0}
    PROVE  (x * k) \div (o * k) = x \div o
<1> DEFINE q == x \div o
<1>1. q \in Int /\ o * q <= x /\ x + 1 <= o * (q + 1)
  OBVIOUS
<1> HIDE DEF q
<1>2. (o * q) * k <= x * k /\ (x + 1) * k <= (o * (q + 1)) * k
  BY <1>1
<1>3. o * k \in Nat \ {0} /\ x * k \in Int
  OBVIOUS
<1>4. q * (o * k) <= x * k /\ x * k < (q + 1) * (o * k)
  BY <1>1, <1>2
<1>5. \A y \in Int, z \in Nat \ {0}, p \in Int : p * z <= y /\ y < (p + 1) * z => y \div z = p
  OBVIOUS
<1>6. (x * k) \div (o * k) = q
  BY <1>1, <1>3, <1>4, <1>5
<1> QED BY <1>6 DEF q

(* Two lists of tasks that are alike give every heuristic the same.        *)
LEMMA SkewAlike ==
    ASSUME NEW t, NEW n, NEW tasks, AllOf(tasks, n, t), NEW more, AllOf(more, n, t), NEW h
    PROVE  DataSkew(h, tasks) = DataSkew(h, more)
<1>1. ASSUME NEW list, AllOf(list, n, t)
      PROVE  /\ Mean(TwoGroups(Inputs(list))[1]) = 0 /\ Len(TwoGroups(Inputs(list))[1]) = 0
             /\ Mean(TwoGroups(Inputs(list))[2]) = t.counters["input"]
  <2>1. PICK k \in Nat \ {0} : \A c \in CounterNames : CounterValues(list, c) = Same(t.counters[c], k)
    BY <1>1, AllAlike
  <2>2. "input" \in CounterNames /\ t.counters["input"] \in Nat /\ t.counters["input"] \in Int
    BY <1>1 DEF AllOf, TaskRead, CounterNames
  <2>3. TwoGroups(Inputs(list)) = <<<<>>, Same(t.counters["input"], k)>>
    BY <2>1, <2>2, GroupsOfSame DEF Inputs
  <2>4. Mean(Same(t.counters["input"], k)) = t.counters["input"]
    BY <2>2, MeanOfSame
  <2> QED BY <2>3, <2>4 DEF Mean
<1> QED BY <1>1 DEF DataSkew

LEMMA AveragedAlike ==
    ASSUME NEW t, NEW n, NEW tasks, AllOf(tasks, n, t), NEW more, AllOf(more, n, t), NEW h,
           NEW container
    PROVE  /\ GC(h, tasks) = GC(h, more)
           /\ MapperTime(h, tasks) = MapperTime(h, more)
           /\ ReducerTime(h, tasks) = ReducerTime(h, more)
           /\ Memory(h, tasks, container) = Memory(h, more, container)
<1>1. ASSUME NEW list, AllOf(list, n, t)
      PROVE  /\ Len(list) = n /\ list # <<>>
             /\ Mean(CounterValues(list, "gc")) = t.counters["gc"]
             /\ Mean(CounterValues(list, "cpu")) = t.counters["cpu"]
             /\ Mean(CounterValues(list, "memory")) = t.counters["memory"]
             /\ Mean(RunTimes(list)) = t.time["total"]
             /\ ~MissesCounters(list)
  BY <1>1, AllAlike, AveragesAlike DEF CounterNames
<1>2. GC(h, tasks) = GC(h, more)
  BY <1>1 DEF GC
<1>3. MapperTime(h, tasks) = MapperTime(h, more) /\ ReducerTime(h, tasks) = ReducerTime(h, more)
  BY <1>1 DEF MapperTime, ReducerTime
<1>4. Memory(h, tasks, container) = Memory(h, more, container)
  BY <1>1 DEF Memory
<1> QED BY <1>2, <1>3, <1>4

LEMMA SpeedAlike ==
    ASSUME NEW t, NEW n, NEW tasks, AllOf(tasks, n, t), NEW more, AllOf(more, n, t), NEW h
    PROVE  MapperSpeed(h, tasks) = MapperSpeed(h, more)
<1> DEFINE speeds(list) == [i \in DOMAIN RunTimes(list) |->
                               (Second * Inputs(list)[i]) \div RunTimes(list)[i]]
           speed == (Second * t.counters["input"]) \div t.time["total"]
<1>1. ASSUME NEW list, AllOf(list, n, t)
      PROVE  /\ list # <<>>
             /\ 0 \in ToSet(RunTimes(list)) <=> t.time["total"] = 0
             /\ t.time["total"] # 0 => Median(speeds(list)) = speed
             /\ Median(RunTimes(list)) = t.time["total"]
  <2>1. PICK k \in Nat \ {0} :
           /\ \A c \in CounterNames : CounterValues(list, c) = Same(t.counters[c], k)
           /\ \A p \in {"total", "shuffle", "sort"} : Times(list, p) = Same(t.time[p], k)
    BY <1>1, AllAlike
  <2>2. Inputs(list) = Same(t.counters["input"], k) /\ RunTimes(list) = Same(t.time["total"], k)
    BY <2>1 DEF Inputs, RunTimes, CounterNames
  <2>3. ToSet(RunTimes(list)) = {t.time["total"]}
    BY <2>2 DEF ToSet, Same
  <2>4. speeds(list) = Same(speed, k)
    BY <2>2 DEF Same
  <2>5. t.counters["input"] \in Nat /\ t.time["total"] \in Nat /\ Second \in Nat
    BY <1>1, HeuristicsAssumption DEF AllOf, TaskRead, CounterNames
  <2>6. t.time["total"] # 0 => speed \in Int
    <3>1. Second * t.counters["input"] \in Int
      BY <2>5
    <3> QED BY <2>5, <3>1
  <2> HIDE DEF speeds, speed
  <2>7. t.time["total"] # 0 => Median(speeds(list)) = speed
    BY <2>4, <2>6, MedianOfSame
  <2> QED BY <1>1, <2>3, <2>7, AllAlike, AveragesAlike
<1>2. CASE t.time["total"] = 0
  BY <1>1, <1>2 DEF MapperSpeed
<1>3. CASE t.time["total"] # 0
  <2>1. \A list : MapperSpeed(h, list) =
            IF 0 \in ToSet(RunTimes(list)) THEN Throws
            ELSE SeverityMin(Descending((IF list = <<>> THEN 0 ELSE Median(speeds(list))) * Parts,
                                        Limits(<<h, "disk_speed">>)),
                             Ascending(IF list = <<>> THEN 0 ELSE Median(RunTimes(list)),
                                       Limits(<<h, "runtime">>)))
    BY DEF MapperSpeed
  <2> HIDE DEF speeds, speed
  <2>2. \A list : AllOf(list, n, t) => MapperSpeed(h, list) =
            SeverityMin(Descending(speed * Parts, Limits(<<h, "disk_speed">>)),
                        Ascending(t.time["total"], Limits(<<h, "runtime">>)))
    BY <1>1, <1>3, <2>1
  <2> QED BY <2>2
<1> QED BY <1>2, <1>3

LEMMA SpillAlike ==
    ASSUME NEW t, NEW n, NEW tasks, AllOf(tasks, n, t), NEW more, AllOf(more, n, t), NEW h
    PROVE  MapperSpill(h, tasks) = MapperSpill(h, more)
<1> DEFINE s == t.counters["spilled"]
           o == t.counters["output"]
<1>1. ASSUME NEW list, AllOf(list, n, t)
      PROVE  MapperSpill(h, list) =
                SeverityMin(IF s = 0 THEN Ascending(0, Limits(<<h, "spill">>))
                            ELSE IF o = 0 THEN CRITICAL
                            ELSE Ascending((s * Parts) \div o, Limits(<<h, "spill">>)),
                            Ascending(n, Limits(<<h, "num_tasks">>)))
  <2>1. PICK k \in Nat \ {0} : \A c \in CounterNames : CounterValues(list, c) = Same(t.counters[c], k)
    BY <1>1, AllAlike
  <2>2. s \in Nat /\ o \in Nat /\ Parts \in Nat /\ Len(list) = n
    <3>1. Len(list) = n
      BY <1>1, AllAlike
    <3> QED BY <1>1, <3>1, HeuristicsAssumption DEF AllOf, TaskRead, CounterNames
  <2> HIDE DEF s, o
  <2>3. Total(CounterValues(list, "spilled")) = s * k /\ Total(CounterValues(list, "output")) = o * k
    BY <2>1, <2>2, TotalOfSame DEF CounterNames, s, o
  <2>4. (s * k = 0 <=> s = 0) /\ (o * k = 0 <=> o = 0)
    BY <2>2
  <2>5. o # 0 => ((s * k) * Parts) \div (o * k) = (s * Parts) \div o
    <3>1. (s * k) * Parts = (s * Parts) * k /\ s * Parts \in Nat
      BY <2>2
    <3> QED BY <2>2, <3>1, Cancel
  <2> QED BY <2>2, <2>3, <2>4, <2>5 DEF MapperSpill
<1> QED BY <1>1

LEMMA SortAlike ==
    ASSUME NEW t, NEW n, NEW tasks, AllOf(tasks, n, t), NEW more, AllOf(more, n, t), NEW h
    PROVE  ShuffleSort(h, tasks) = ShuffleSort(h, more)
<1> DEFINE rest == t.time["total"] - t.time["shuffle"] - t.time["sort"]
           codes(list) == [i \in DOMAIN RunTimes(list) |->
                              RunTimes(list)[i] - Times(list, "shuffle")[i] - Times(list, "sort")[i]]
<1>1. ASSUME NEW list, AllOf(list, n, t)
      PROVE  /\ Mean(codes(list)) = rest
             /\ Mean(Times(list, "shuffle")) = t.time["shuffle"]
             /\ Mean(Times(list, "sort")) = t.time["sort"]
  <2>1. PICK k \in Nat \ {0} : \A p \in {"total", "shuffle", "sort"} : Times(list, p) = Same(t.time[p], k)
    BY <1>1, AllAlike
  <2>2. codes(list) = Same(rest, k)
    BY <2>1 DEF Same, RunTimes
  <2>3. rest \in Int
    BY <1>1 DEF AllOf, TaskRead
  <2> HIDE DEF codes, rest
  <2>4. Mean(codes(list)) = rest
    BY <2>2, <2>3, MeanOfSame
  <2> QED BY <1>1, <2>4, AveragesAlike
<1>2. \A list : ShuffleSort(h, list) =
         SeverityMax(ShuffleSortSeverity(h, Mean(Times(list, "shuffle")), Mean(codes(list))),
                     ShuffleSortSeverity(h, Mean(Times(list, "sort")), Mean(codes(list))))
  BY DEF ShuffleSort
<1> HIDE DEF codes, rest
<1> QED BY <1>1, <1>2

(* The sample of a kind of tasks that are alike, and all of them.          *)
LEMMA KindAlike ==
    ASSUME SampleInv, Listed, KindRead("mappers"), KindRead("reducers"),
           pc \in {"heuristics", "sum", "done"}, NEW kind \in Kinds,
           Alike(Succeeded(kind = "mappers"))
    PROVE  LET every == AllTasks(Succeeded(kind = "mappers"))
           IN  \/ data[kind] = <<>> /\ every = <<>>
               \/ \E n, t : AllOf(data[kind], n, t) /\ AllOf(every, n, t)
<1> DEFINE ids == Succeeded(kind = "mappers")
           tasks == data[kind]
           every == AllTasks(ids)
           n == Cardinality(ids)
<1>1. IsFiniteSet(ids) /\ n \in Nat /\ ids \in SUBSET Nat /\ ids \subseteq DOMAIN job.tasks
  <2>1. IsFiniteSet(ids)
    BY SucceededFinite DEF SampleInv
  <2>2. DOMAIN job.tasks = 1 .. Len(job.tasks) /\ Len(job.tasks) \in Nat
    BY AnalysisAssumption DEF SampleInv
  <2> QED BY <2>1, <2>2, FS_CardinalityType DEF Succeeded
<1>2. /\ DOMAIN tasks = 1 .. n /\ tasks = [i \in 1 .. n |-> tasks[i]]
      /\ \A i \in DOMAIN tasks : tasks[i].sampled <=> i <= MaxSample
      /\ \A i \in DOMAIN tasks : tasks[i].sampled => \E id \in ids : tasks[i] = SampledTask(id)
  <2>1. PICK m \in Nat : ReadSoFar(kind, m)
    BY DEF SampleInv
  <2>2. tasks = [i \in DOMAIN order[kind] |-> IF i <= m THEN SampledTask(order[kind][i]) ELSE Unread]
    BY <2>1 DEF ReadSoFar
  <2>3. DOMAIN order[kind] = 1 .. n
    BY <1>1, Listing DEF SampleInv
  <2>4. tasks = [i \in 1 .. n |-> tasks[i]] /\ DOMAIN tasks = 1 .. n
    BY <2>2, <2>3
  <2>5. data.succeeded
    BY DEF Listed
  <2>6. SampleFaithful
    BY SampleShown
  <2>7. /\ \A i \in DOMAIN tasks : tasks[i].sampled <=> i <= MaxSample
        /\ \E source \in [{i \in DOMAIN tasks : tasks[i].sampled} -> ids] :
              \A i \in DOMAIN source : tasks[i] = SampledTask(source[i])
    <3>1. /\ \A i \in DOMAIN data[kind] : data[kind][i].sampled <=> i <= MaxSample
          /\ \E source \in [{i \in DOMAIN data[kind] : data[kind][i].sampled}
                              -> Succeeded(kind = "mappers")] :
                \A i \in DOMAIN source : data[kind][i] = SampledTask(source[i])
      <4> HIDE DEF ids, tasks
      <4> USE <2>5, <2>6
      <4>1. kind \in {"mappers", "reducers"} /\ pc \in {"heuristics", "sum", "done"}
        BY DEF Kinds
      <4>2. /\ \A i \in DOMAIN data[kind] : data[kind][i].sampled <=> i <= MaxSample
            /\ \E source \in [{i \in DOMAIN data[kind] : data[kind][i].sampled}
                                -> Succeeded(kind = "mappers")] :
                  /\ \A i, j \in DOMAIN source : source[i] = source[j] => i = j
                  /\ \A i \in DOMAIN source : data[kind][i] = SampledTask(source[i])
        BY <4>1, Zenon DEF SampleFaithful
      <4> QED BY ONLY <4>2, Zenon
    <3> QED BY <3>1
  <2> HIDE DEF tasks, ids
  <2> QED BY <2>4, <2>7
<1>3. /\ every = [i \in 1 .. n |-> every[i]]
      /\ \A i \in 1 .. n : \E id \in ids : every[i] = SampledTask(id)
  <2> DEFINE list == [id \in DOMAIN job.tasks |-> SampledTask(id)]
  <2>1. every = Picked(list, ids)
    BY DEF AllTasks
  <2>2. PICK at \in [1 .. n -> ids] : \A any : Picked(any, ids) = [k \in 1 .. n |-> any[at[k]]]
    <3> HIDE DEF ids
    <3> QED BY ONLY <1>1, PickedPlaces
  <2>3. every = [k \in 1 .. n |-> list[at[k]]]
    BY <2>1, <2>2
  <2>4. \A k \in 1 .. n : list[at[k]] = SampledTask(at[k]) /\ at[k] \in ids
    BY <1>1, <2>2
  <2> HIDE DEF list, every, ids
  <2> QED BY <2>3, <2>4
<1>4. CASE n = 0
  <2> HIDE DEF tasks, every
  <2>1. tasks = <<>> /\ every = <<>>
    BY <1>2, <1>3, <1>4
  <2> QED BY <2>1 DEF tasks, every
<1>5. CASE n # 0
  <2>1. PICK one \in ids : TRUE
    BY <1>1, <1>5, FS_EmptySet
  <2> DEFINE t == SampledTask(one)
  <2>2. \A id \in ids : SampledTask(id) = t
    BY <2>1 DEF Alike
  <2>3. TaskRead(t) /\ t.sampled = TRUE
    <3>1. one \in DOMAIN job.tasks /\ job \in Jobs
      BY <1>1, <2>1 DEF SampleInv
    <3>2. /\ job.tasks[one].counters \in [CounterNames -> Nat]
          /\ job.tasks[one].time \in Nat /\ job.tasks[one].shuffle \in Nat /\ job.tasks[one].sort \in Nat
      BY <3>1, AnalysisAssumption
    <3>3. t.time \in [{"total", "shuffle", "sort"} -> Nat]
      BY <3>2 DEF SampledTask
    <3> QED BY <3>2, <3>3 DEF TaskRead, SampledTask
  <2> HIDE DEF tasks, every, t, ids
  <2>4. Visited(every) = [i \in 1 .. n |-> t]
    <3>1. \A i \in 1 .. n : every[i] = t
      BY <1>3, <2>2
    <3>2. {i \in DOMAIN every : every[i].sampled} = 1 .. n
      BY <1>3, <2>3, <3>1
    <3>3. Picked(every, 1 .. n) = every
      BY <1>1, <1>3, PickedAll
    <3> QED BY <1>3, <3>1, <3>2, <3>3 DEF Visited
  <2>5. \E k \in Nat \ {0} : Visited(tasks) = [i \in 1 .. k |-> t]
    <3> DEFINE D == {i \in DOMAIN tasks : tasks[i].sampled}
               k == Cardinality(D)
    <3>1. /\ k \in Nat /\ DOMAIN Visited(tasks) = 1 .. k
          /\ \A i \in 1 .. k : \E j \in D : Visited(tasks)[i] = tasks[j]
          /\ IsFiniteSet(D)
      BY <1>1, <1>2, VisitedTasks
    <3>2. 1 \in D
      BY <1>1, <1>2, <1>5, AnalysisAssumption
    <3>3. \A j \in D : tasks[j] = t
      BY <1>2, <2>2
    <3>4. Visited(tasks) = [i \in 1 .. k |-> Visited(tasks)[i]]
      BY <3>1 DEF Visited, Picked
    <3> HIDE DEF D
    <3>5. k # 0
      BY <3>1, <3>2, FS_EmptySet
    <3> QED BY <3>1, <3>3, <3>4, <3>5
  <2>6. AllOf(tasks, n, t)
    BY <1>1, <1>2, <1>5, <2>3, <2>5 DEF AllOf
  <2>7. AllOf(every, n, t)
    BY <1>1, <1>3, <1>5, <2>3, <2>4 DEF AllOf
  <2> QED BY <2>6, <2>7 DEF tasks, every, ids
<1> QED BY <1>4, <1>5

(* Alike or none: a heuristic says the same of both lists.                 *)
Match(tasks, more) ==
    \/ tasks = <<>> /\ more = <<>>
    \/ \E n, t : AllOf(tasks, n, t) /\ AllOf(more, n, t)

LEMMA SeverityAlike ==
    ASSUME NEW d, NEW e, d.succeeded, e.succeeded, d.memory = e.memory,
           Match(d.mappers, e.mappers), Match(d.reducers, e.reducers),
           NEW h \in MapperHeuristics \cup ReducerHeuristics
    PROVE  /\ Severity(h, d) = Severity(h, e)
           /\ Score(h, d) = Score(h, e)
<1>1. ASSUME NEW tasks, NEW more, Match(tasks, more), NEW container, NEW k
      PROVE  /\ DataSkew(k, tasks) = DataSkew(k, more)
             /\ GC(k, tasks) = GC(k, more)
             /\ MapperTime(k, tasks) = MapperTime(k, more)
             /\ ReducerTime(k, tasks) = ReducerTime(k, more)
             /\ Memory(k, tasks, container) = Memory(k, more, container)
             /\ MapperSpeed(k, tasks) = MapperSpeed(k, more)
             /\ MapperSpill(k, tasks) = MapperSpill(k, more)
             /\ ShuffleSort(k, tasks) = ShuffleSort(k, more)
             /\ MissesCounters(tasks) <=> MissesCounters(more)
             /\ Len(tasks) = Len(more)
  <2>1. CASE tasks = more
    BY <2>1
  <2>2. CASE \E n, t : AllOf(tasks, n, t) /\ AllOf(more, n, t)
    <3>1. PICK n, t : AllOf(tasks, n, t) /\ AllOf(more, n, t)
      BY <2>2
    <3>2. /\ Len(tasks) = n /\ Len(more) = n
          /\ ~MissesCounters(tasks) /\ ~MissesCounters(more)
      BY <3>1, AllAlike
    <3>3. DataSkew(k, tasks) = DataSkew(k, more)
      BY <3>1, SkewAlike
    <3>4. MapperSpeed(k, tasks) = MapperSpeed(k, more)
      BY <3>1, SpeedAlike
    <3>5. MapperSpill(k, tasks) = MapperSpill(k, more)
      BY <3>1, SpillAlike
    <3>6. ShuffleSort(k, tasks) = ShuffleSort(k, more)
      BY <3>1, SortAlike
    <3> QED BY <3>1, <3>2, <3>3, <3>4, <3>5, <3>6, AveragedAlike
  <2> QED BY <1>1, <2>1, <2>2 DEF Match
<1>2. h # "Exception"
  BY DEF MapperHeuristics, ReducerHeuristics
<1>3. Match(TasksOf(h, d), TasksOf(h, e))
  BY DEF TasksOf
<1>4. /\ MissesCounters(TasksOf(h, d)) <=> MissesCounters(TasksOf(h, e))
      /\ Len(TasksOf(h, d)) = Len(TasksOf(h, e))
  BY <1>1, <1>3
<1>5. OfMappers(h, d) = OfMappers(h, e)
  <2>1. /\ DataSkew(h, d.mappers) = DataSkew(h, e.mappers)
        /\ GC(h, d.mappers) = GC(h, e.mappers)
        /\ MapperTime(h, d.mappers) = MapperTime(h, e.mappers)
        /\ MapperSpeed(h, d.mappers) = MapperSpeed(h, e.mappers)
        /\ MapperSpill(h, d.mappers) = MapperSpill(h, e.mappers)
        /\ Memory(h, d.mappers, d.memory.map) = Memory(h, e.mappers, e.memory.map)
    BY <1>1
  <2> QED BY ONLY <2>1 DEF OfMappers
<1>6. OfReducers(h, d) = OfReducers(h, e)
  <2>1. /\ DataSkew(h, d.reducers) = DataSkew(h, e.reducers)
        /\ GC(h, d.reducers) = GC(h, e.reducers)
        /\ ReducerTime(h, d.reducers) = ReducerTime(h, e.reducers)
        /\ ShuffleSort(h, d.reducers) = ShuffleSort(h, e.reducers)
        /\ Memory(h, d.reducers, d.memory.reduce) = Memory(h, e.reducers, e.memory.reduce)
    BY <1>1
  <2> QED BY ONLY <2>1 DEF OfReducers
<1>7. Severity(h, d) = Severity(h, e)
  BY <1>2, <1>4, <1>5, <1>6 DEF Severity
<1> QED BY <1>2, <1>4, <1>7 DEF Score

(* If the tasks of a job are alike, the sample makes no difference.        *)
THEOREM SamplesAreNeutral == JobSpec => []SamplingNeutral
<1>1. JobInit => SampleInv
  BY SampleInit DEF JobInit
<1>2. SampleInv /\ [JobNext]_<<appType, row, info, mapReduceState, sparkState>> => SampleInv'
  BY SampleNext, JobSteps
<1>3. SampleInv => SamplingNeutral
  <2> DEFINE all == [data EXCEPT !.mappers = AllTasks(Succeeded(TRUE)),
                                 !.reducers = AllTasks(Succeeded(FALSE))]
  <2> SUFFICES ASSUME SampleInv, pc = "done", data.succeeded,
                      Alike(Succeeded(TRUE)), Alike(Succeeded(FALSE)),
                      NEW h \in MapperHeuristics \cup ReducerHeuristics
               PROVE  Severity(h, data) = Severity(h, all) /\ Score(h, data) = Score(h, all)
    BY DEF SamplingNeutral
  <2>1. Listed /\ KindRead("mappers") /\ KindRead("reducers")
    BY DEF Listed, KindRead
  <2>2. /\ ("mappers" = "mappers") = TRUE /\ ("reducers" = "mappers") = FALSE
        /\ "mappers" \in Kinds /\ "reducers" \in Kinds
    BY DEF Kinds
  <2>3. /\ all.succeeded = data.succeeded /\ all.memory = data.memory
        /\ all.mappers = AllTasks(Succeeded(TRUE)) /\ all.reducers = AllTasks(Succeeded(FALSE))
        /\ data.mappers = data["mappers"] /\ data.reducers = data["reducers"]
    BY DEF SampleInv, NoData
  <2> HIDE DEF all
  <2>4. Match(data["mappers"], AllTasks(Succeeded(TRUE)))
    BY <2>1, <2>2, KindAlike DEF Match
  <2>5. Match(data["reducers"], AllTasks(Succeeded(FALSE)))
    BY <2>1, <2>2, KindAlike DEF Match
  <2> QED BY <2>3, <2>4, <2>5, SeverityAlike
<1> QED BY <1>1, <1>2, <1>3, PTL DEF JobSpec
-----------------------------------------------------------------------------
(* Spark.  The operators of its module are those of this one.              *)
LEMMA SameOperators ==
    /\ \A S : Spark!Max(S) = Max(S)
    /\ \A f : Spark!HeldMemory(f) = SumFunction(f) /\ Spark!SumFunction(f) = SumFunction(f)
    /\ \A S : Spark!IsFiniteSet(S) = IsFiniteSet(S)
    /\ \A S : Spark!Cardinality(S) = Cardinality(S)
    /\ \A S : Spark!SetToSeqs(S) = SetToSeqs(S)
    /\ \A list : Spark!ToSet(list) = ToSet(list)
    /\ \A f, S : Spark!Restrict(f, S) = [x \in S |-> f[x]]
<1>1. \A S : Spark!Max(S) = Max(S)
  BY DEF Spark!Max, Max
<1>2. \A f : Spark!SumFunction(f) = SumFunction(f)
  BY Zenon DEF Spark!SumFunction, SumFunction, Spark!SumFunctionOnSet, SumFunctionOnSet,
               Spark!FoldFunctionOnSet, FoldFunctionOnSet, Spark!MapThenFoldSet, MapThenFoldSet
<1>3. \A S : Spark!IsFiniteSet(S) = IsFiniteSet(S)
  BY DEF Spark!IsFiniteSet, IsFiniteSet
<1>4. \A S : Spark!Cardinality(S) = Cardinality(S)
  BY Zenon DEF Spark!Cardinality, Cardinality
<1>5. \A S : Spark!SetToSeqs(S) = SetToSeqs(S)
  BY <1>4 DEF Spark!SetToSeqs, SetToSeqs
<1>6. \A list : Spark!ToSet(list) = ToSet(list)
  BY DEF Spark!ToSet, ToSet
<1>7. \A f, S : Spark!Restrict(f, S) = [x \in S |-> f[x]]
  BY DEF Spark!Restrict
<1> QED BY <1>1, <1>2, <1>3, <1>4, <1>5, <1>6, <1>7 DEF Spark!HeldMemory

(* The last of some places, 0 if there are none.                           *)
LatestOf(places) == Max({0} \cup places)

(* The last of some numbers up to n is one of them, and n if n is.         *)
LEMMA LastPlace ==
    ASSUME NEW n \in Nat, NEW places \in SUBSET (1 .. n)
    PROVE  /\ LatestOf(places) \in {0} \cup places
           /\ n \in places => LatestOf(places) = n
<1> DEFINE T == {0} \cup places
<1>1. T \in SUBSET Nat /\ T # {} /\ T \subseteq 0 .. n
  OBVIOUS
<1>2. IsFiniteSet(T)
  <2>1. 0 \in Int /\ n \in Int
    OBVIOUS
  <2>2. IsFiniteSet(0 .. n)
    BY <2>1, FS_Interval
  <2> QED BY <1>1, <2>2, FS_Subset
<1>3. T = {0} \cup places
  OBVIOUS
<1> HIDE DEF T
<1>4. Max(T) \in T /\ \A y \in T : y <= Max(T)
  BY <1>1, <1>2, Extremes
<1>5. n \in T => Max(T) = n
  <2>1. Max(T) \in 0 .. n
    BY <1>1, <1>4
  <2>2. n \in T => n <= Max(T)
    BY <1>4
  <2> QED BY <2>1, <2>2
<1>6. LatestOf(places) = Max(T)
  BY <1>3 DEF LatestOf
<1> QED BY <1>3, <1>4, <1>5, <1>6

(* What a list of events says of an executor, and of a block on it, after  *)
(* the first k of them.                                                    *)
Registrations(list, k, e) ==
    {i \in 1 .. k : list[i].kind \in {"added", "removed"} /\ list[i].executor = e}

Registered(list, k, e) ==
    LET last == LatestOf(Registrations(list, k, e)) IN last # 0 /\ list[last].kind = "added"

ChangesTo(list, k, e, b) == {i \in 1 .. k : Spark!Changes(list[i], e, b)}

SizeIn(list, k, e, b) ==
    LET last == LatestOf(ChangesTo(list, k, e, b))
    IN  IF last # 0 /\ list[last].kind = "task" THEN list[last].updates[b] ELSE 0

MemoryIn(list, k, e) ==
    IF Registered(list, k, e) THEN SumFunction([b \in Spark!Blocks |-> SizeIn(list, k, e, b)])
    ELSE 0

(* Those of PeakReported are these, over the log.                          *)
LEMMA OverLog ==
    /\ \A k, e : Spark!RegisteredAfter(k, e) = Registered(log, k, e)
    /\ \A k, e, b : Spark!SizeAfter(k, e, b) = SizeIn(log, k, e, b)
    /\ \A k, e : Spark!MemoryAfter(k, e) = MemoryIn(log, k, e)
<1>1. \A k, e : Spark!RegisteredAfter(k, e) = Registered(log, k, e)
  BY SameOperators DEF Spark!RegisteredAfter, Registered, Registrations, LatestOf
<1>2. \A k, e, b : Spark!SizeAfter(k, e, b) = SizeIn(log, k, e, b)
  BY SameOperators DEF Spark!SizeAfter, SizeIn, ChangesTo, LatestOf
<1>3. \A k, e : Spark!MemoryAfter(k, e) = MemoryIn(log, k, e)
  <2> SUFFICES ASSUME NEW k, NEW e PROVE Spark!MemoryAfter(k, e) = MemoryIn(log, k, e)
    OBVIOUS
  <2>1. [b \in Spark!Blocks |-> Spark!SizeAfter(k, e, b)] = [b \in Spark!Blocks |-> SizeIn(log, k, e, b)]
    BY <1>2
  <2> QED BY <1>1, <2>1, SameOperators DEF Spark!MemoryAfter, MemoryIn
<1> QED BY <1>1, <1>2, <1>3

(* An event that is added to a list changes nothing of what was before,    *)
(* and of what is after it only what it says.                              *)
LEMMA RegisteredBefore ==
    ASSUME NEW n \in Nat, NEW list, NEW more, NEW e, \A i \in 1 .. n : more[i] = list[i],
           NEW k \in 0 .. n
    PROVE  Registered(more, k, e) = Registered(list, k, e)
<1>1. Registrations(more, k, e) = Registrations(list, k, e)
  BY DEF Registrations
<1>2. Registrations(list, k, e) \in SUBSET (1 .. n)
  BY DEF Registrations
<1>3. LatestOf(Registrations(list, k, e)) \in {0} \cup Registrations(list, k, e)
  BY <1>2, LastPlace
<1>4. LatestOf(Registrations(list, k, e)) # 0 =>
         more[LatestOf(Registrations(list, k, e))] = list[LatestOf(Registrations(list, k, e))]
  BY <1>2, <1>3
<1> QED BY <1>1, <1>4 DEF Registered

(* One more event changes the registration only of its executor.           *)
LEMMA RegisteredNext ==
    ASSUME NEW n \in Nat, NEW m \in Nat, NEW list, NEW more, NEW e,
           m = n + 1, \A i \in 1 .. n : more[i] = list[i]
    PROVE  Registered(more, m, e) <=>
              IF more[m].kind \in {"added", "removed"} /\ more[m].executor = e
              THEN more[m].kind = "added" ELSE Registered(list, n, e)
<1>1. CASE more[m].kind \in {"added", "removed"} /\ more[m].executor = e
  <2> DEFINE places == Registrations(more, m, e)
  <2>1. m \in places /\ places \in SUBSET (1 .. m)
    BY <1>1 DEF Registrations
  <2>2. LatestOf(places) = m
    BY <2>1, LastPlace
  <2>3. Registered(more, m, e) <=> (m # 0 /\ more[m].kind = "added")
    BY <2>2 DEF Registered
  <2> QED BY <1>1, <2>3
<1>2. CASE ~(more[m].kind \in {"added", "removed"} /\ more[m].executor = e)
  <2>1. Registrations(more, m, e) = Registrations(more, n, e)
    BY <1>2 DEF Registrations
  <2>2. Registered(more, m, e) <=> Registered(more, n, e)
    BY <2>1 DEF Registered
  <2>3. Registered(more, n, e) = Registered(list, n, e)
    BY RegisteredBefore
  <2> QED BY <1>2, <2>2, <2>3
<1> QED BY <1>1, <1>2

(* Events that come later do not change what earlier ones left.            *)
LEMMA SizeBefore ==
    ASSUME NEW n \in Nat, NEW list, NEW more, NEW e, NEW b, \A i \in 1 .. n : more[i] = list[i],
           NEW k \in 0 .. n
    PROVE  SizeIn(more, k, e, b) = SizeIn(list, k, e, b)
<1>1. ChangesTo(more, k, e, b) = ChangesTo(list, k, e, b)
  <2>1. \A i \in 1 .. k : more[i] = list[i]
    OBVIOUS
  <2> QED BY ONLY <2>1 DEF ChangesTo
<1>2. ChangesTo(list, k, e, b) \in SUBSET (1 .. n)
  BY DEF ChangesTo
<1>3. LatestOf(ChangesTo(list, k, e, b)) \in {0} \cup ChangesTo(list, k, e, b)
  BY <1>2, LastPlace
<1>4. LatestOf(ChangesTo(list, k, e, b)) # 0 =>
         more[LatestOf(ChangesTo(list, k, e, b))] = list[LatestOf(ChangesTo(list, k, e, b))]
  BY <1>2, <1>3
<1> QED BY <1>1, <1>4 DEF SizeIn

(* One more event changes the size only of the blocks it is about.         *)
LEMMA SizeNext ==
    ASSUME NEW n \in Nat, NEW m \in Nat, NEW list, NEW more, NEW e, NEW b,
           m = n + 1, \A i \in 1 .. n : more[i] = list[i]
    PROVE  SizeIn(more, m, e, b) =
              IF Spark!Changes(more[m], e, b)
              THEN IF more[m].kind = "task" THEN more[m].updates[b] ELSE 0
              ELSE SizeIn(list, n, e, b)
<1>1. CASE Spark!Changes(more[m], e, b)
  <2> DEFINE places == ChangesTo(more, m, e, b)
  <2>1. m \in places /\ places \in SUBSET (1 .. m)
    BY <1>1 DEF ChangesTo
  <2>2. LatestOf(places) = m
    BY <2>1, LastPlace
  <2>3. SizeIn(more, m, e, b) =
           IF m # 0 /\ more[m].kind = "task" THEN more[m].updates[b] ELSE 0
    BY <2>2 DEF SizeIn
  <2> QED BY <1>1, <2>3
<1>2. CASE ~Spark!Changes(more[m], e, b)
  <2>1. ChangesTo(more, m, e, b) = ChangesTo(more, n, e, b)
    BY <1>2 DEF ChangesTo
  <2>2. SizeIn(more, m, e, b) = SizeIn(more, n, e, b)
    BY <2>1 DEF SizeIn
  <2>3. SizeIn(more, n, e, b) = SizeIn(list, n, e, b)
    BY SizeBefore
  <2> QED BY <1>2, <2>2, <2>3
<1> QED BY <1>1, <1>2

(* Of one more number the greatest is that one or the one of before.       *)
LEMMA GreatestNext ==
    ASSUME NEW n \in Nat, NEW f, \A k \in 0 .. n + 1 : f[k] \in Nat
    PROVE  LET most == Max({f[k] : k \in 0 .. n})
           IN  /\ most \in Nat /\ \A k \in 0 .. n : f[k] <= most
               /\ Max({f[k] : k \in 0 .. n + 1}) = IF f[n + 1] > most THEN f[n + 1] ELSE most
<1> DEFINE S == {f[k] : k \in 0 .. n}
           T == {f[k] : k \in 0 .. n + 1}
<1>1. S \in SUBSET Nat /\ T \in SUBSET Nat /\ f[0] \in S /\ f[0] \in T
  OBVIOUS
<1>2. IsFiniteSet(S) /\ IsFiniteSet(T)
  <2>1. 0 \in Int /\ n \in Int /\ n + 1 \in Int
    OBVIOUS
  <2>2. IsFiniteSet(0 .. n) /\ IsFiniteSet(0 .. n + 1)
    BY <2>1, FS_Interval
  <2> QED BY <2>2, ImageFinite
<1>3. T = S \cup {f[n + 1]}
  OBVIOUS
<1>4. \A k \in 0 .. n : f[k] \in S
  OBVIOUS
<1> HIDE DEF S, T
<1>5. Max(S) \in S /\ \A y \in S : y <= Max(S)
  BY <1>1, <1>2, Extremes
<1>6. Max(T) \in T /\ \A y \in T : y <= Max(T)
  BY <1>1, <1>2, Extremes
<1>7. f[n + 1] \in Nat
  OBVIOUS
<1>8. Max(T) = IF f[n + 1] > Max(S) THEN f[n + 1] ELSE Max(S)
  BY <1>1, <1>3, <1>5, <1>6, <1>7
<1> QED BY <1>1, <1>4, <1>5, <1>8 DEF S, T


-----------------------------------------------------------------------------
(* What the listener keeps of a log is what the log says: of each executor *)
(* whether it is registered, of each block on one that is its size, and of *)
(* each executor the most memory it held so far.                           *)
LogEvents ==
    {[kind |-> kind, executor |-> e] : kind \in {"added", "removed"}, e \in DOMAIN app.storage}
    \cup {[kind |-> "unpersisted", rdd |-> rdd] : rdd \in app.rdds}
    \cup {[kind |-> "task", executor |-> t.executor, updates |-> t.updates] : t \in app.tasks}

StatusInv ==
    /\ app \in Applications
    /\ log \in Seq(LogEvents)
    /\ DOMAIN status \subseteq DOMAIN app.storage /\ DOMAIN peak \subseteq DOMAIN app.storage
    /\ \A e \in DOMAIN app.storage : e \in DOMAIN status <=> Registered(log, Len(log), e)
    /\ \A e \in DOMAIN status :
          /\ DOMAIN status[e] \subseteq Spark!Blocks
          /\ \A b \in Spark!Blocks :
                SizeIn(log, Len(log), e, b) = IF b \in DOMAIN status[e] THEN status[e][b] ELSE 0

PeakInv ==
    /\ StatusInv
    /\ \A e \in DOMAIN app.storage :
          Spark!MemUsed(e) = Max({MemoryIn(log, k, e) : k \in 0 .. Len(log)})

(* The applications have finitely many tasks, and sizes are numbers.       *)
LEMMA BlocksFinite ==
    ASSUME app \in Applications
    PROVE  /\ IsFiniteSet(Spark!Blocks)
           /\ \A t \in app.tasks : /\ DOMAIN t.updates \subseteq Spark!Blocks
                                   /\ \A b \in DOMAIN t.updates : t.updates[b] \in Nat
<1>1. /\ IsFiniteSet(app.tasks)
      /\ \A t \in app.tasks :
            IsFiniteSet(DOMAIN t.updates) /\ \A b \in DOMAIN t.updates : t.updates[b] \in Nat
  BY JobAssumption, SameOperators DEF Spark!SparkAssumption
<1> DEFINE domain == [t \in app.tasks |-> DOMAIN t.updates]
           domains == {domain[t] : t \in app.tasks}
<1>2. IsFiniteSet(domains)
  <2> HIDE DEF domain
  <2> QED BY <1>1, ImageFinite
<1>3. domains = {DOMAIN t.updates : t \in app.tasks}
  OBVIOUS
<1>4. \A d \in domains : IsFiniteSet(d)
  BY <1>1
<1>5. IsFiniteSet(UNION domains)
  <2> HIDE DEF domains
  <2> QED BY <1>2, <1>4, FS_UNION
<1>6. Spark!Blocks = UNION domains
  BY <1>3 DEF Spark!Blocks
<1> QED BY <1>1, <1>3, <1>5, <1>6

(* Sizes of blocks are numbers.                                            *)
LEMMA SizeNat ==
    ASSUME StatusInv, NEW k \in 0 .. Len(log), NEW e, NEW b \in Spark!Blocks
    PROVE  SizeIn(log, k, e, b) \in Nat
<1> DEFINE places == ChangesTo(log, k, e, b)
           last == LatestOf(places)
<1>1. Len(log) \in Nat /\ \A i \in 1 .. Len(log) : log[i] \in LogEvents
  BY DEF StatusInv
<1>2. k \in Nat /\ places \in SUBSET (1 .. k)
  BY <1>1 DEF ChangesTo
<1>3. last \in {0} \cup places
  BY <1>2, LastPlace
<1> HIDE DEF last
<1>4. CASE last # 0 /\ log[last].kind = "task"
  <2>1. last \in 1 .. k /\ Spark!Changes(log[last], e, b)
    BY <1>3, <1>4 DEF ChangesTo
  <2>2. log[last] \in LogEvents
    BY <1>1, <1>2, <2>1
  <2>3. PICK t \in app.tasks : log[last].updates = t.updates
    BY <1>4, <2>2 DEF LogEvents
  <2>4. b \in DOMAIN log[last].updates
    BY <1>4, <2>1 DEF Spark!Changes
  <2>5. log[last].updates[b] \in Nat
    BY <2>3, <2>4, BlocksFinite DEF StatusInv
  <2> QED BY <1>4, <2>5 DEF SizeIn, last
<1>5. CASE ~(last # 0 /\ log[last].kind = "task")
  BY <1>5 DEF SizeIn, last
<1> QED BY <1>4, <1>5

(* What the blocks of an executor take is a number.                        *)
LEMMA MemoryNat ==
    ASSUME StatusInv, NEW k \in 0 .. Len(log), NEW e
    PROVE  MemoryIn(log, k, e) \in Nat
<1> DEFINE size == [b \in Spark!Blocks |-> SizeIn(log, k, e, b)]
<1>1. IsFiniteSet(Spark!Blocks)
  BY BlocksFinite DEF StatusInv
<1>2. size \in [Spark!Blocks -> Nat]
  BY SizeNat
<1>3. SumFunction(size) \in Nat
  <2>1. DOMAIN size \subseteq Spark!Blocks
        /\ \A b \in Spark!Blocks : size[b] = IF b \in DOMAIN size THEN size[b] ELSE 0
    OBVIOUS
  <2> HIDE DEF size
  <2> QED BY <1>1, <1>2, <2>1, SumExtended
<1> QED BY <1>3 DEF MemoryIn

(* What an executor holds now.                                             *)
LEMMA HeldNow ==
    StatusInv =>
        \A e \in DOMAIN app.storage :
            /\ MemoryIn(log, Len(log), e) \in Nat
            /\ MemoryIn(log, Len(log), e) =
                  IF e \in DOMAIN status THEN Spark!HeldMemory(status[e]) ELSE 0
<1> SUFFICES ASSUME StatusInv, NEW e \in DOMAIN app.storage
             PROVE  /\ MemoryIn(log, Len(log), e) \in Nat
                    /\ MemoryIn(log, Len(log), e) =
                          IF e \in DOMAIN status THEN Spark!HeldMemory(status[e]) ELSE 0
  OBVIOUS
<1>1. Len(log) \in 0 .. Len(log)
  BY DEF StatusInv
<1>2. MemoryIn(log, Len(log), e) \in Nat
  BY <1>1, MemoryNat
<1>3. CASE e \notin DOMAIN status
  BY <1>2, <1>3 DEF MemoryIn, StatusInv
<1>4. CASE e \in DOMAIN status
  <2> DEFINE size == [b \in Spark!Blocks |-> SizeIn(log, Len(log), e, b)]
             part == status[e]
  <2>1. IsFiniteSet(Spark!Blocks)
    BY BlocksFinite DEF StatusInv
  <2>2. size \in [Spark!Blocks -> Nat]
    BY <1>1, SizeNat
  <2>3. DOMAIN part \subseteq Spark!Blocks
        /\ \A b \in Spark!Blocks : size[b] = IF b \in DOMAIN part THEN part[b] ELSE 0
    BY <1>4 DEF StatusInv
  <2>4. Registered(log, Len(log), e)
    BY <1>4 DEF StatusInv
  <2>5. SumFunction(size) = SumFunction(part)
    <3> HIDE DEF size, part
    <3> QED BY <2>1, <2>2, <2>3, SumExtended
  <2> QED BY <1>2, <1>4, <2>4, <2>5, SameOperators DEF MemoryIn
<1> QED BY <1>3, <1>4

(* The log with one more event.                                            *)
LEMMA AfterEvent ==
    ASSUME StatusInv, app' = app, NEW event, event \in LogEvents, log' = Append(log, event)
    PROVE  /\ Len(log) \in Nat /\ Len(log') = Len(log) + 1
           /\ log' \in Seq(LogEvents')
           /\ \A e : \A k \in 0 .. Len(log) : MemoryIn(log, k, e)' = MemoryIn(log, k, e)
           /\ \A e : Registered(log', Len(log) + 1, e) <=>
                         IF event.kind \in {"added", "removed"} /\ event.executor = e
                         THEN event.kind = "added" ELSE Registered(log, Len(log), e)
           /\ \A e, b : SizeIn(log', Len(log) + 1, e, b) =
                           IF Spark!Changes(event, e, b)
                           THEN IF event.kind = "task" THEN event.updates[b] ELSE 0
                           ELSE SizeIn(log, Len(log), e, b)
<1> PICK n \in Nat : n = Len(log)
  BY DEF StatusInv
<1> PICK m \in Nat : m = n + 1
  OBVIOUS
<1> PICK list, more : list = log /\ more = log'
  OBVIOUS
<1>1. Len(log') = m
  BY DEF StatusInv
<1>2. LogEvents' = LogEvents
  BY DEF LogEvents
<1>3. log' \in Seq(LogEvents')
  BY <1>2 DEF StatusInv
<1>4. more[m] = event
  BY DEF StatusInv
<1>5. n \in Nat /\ m \in Nat /\ m = n + 1 /\ \A i \in 1 .. n : more[i] = list[i]
  BY DEF StatusInv
<1>6. \A e : \A k \in 0 .. n : Registered(more, k, e) = Registered(list, k, e)
  BY ONLY <1>5, RegisteredBefore
<1>7. \A e, b : \A k \in 0 .. n : SizeIn(more, k, e, b) = SizeIn(list, k, e, b)
  BY ONLY <1>5, SizeBefore
<1>8. \A e : Registered(more, m, e) <=>
                IF more[m].kind \in {"added", "removed"} /\ more[m].executor = e
                THEN more[m].kind = "added" ELSE Registered(list, n, e)
  BY ONLY <1>5, RegisteredNext
<1>9. \A e, b : SizeIn(more, m, e, b) =
                   IF Spark!Changes(more[m], e, b)
                   THEN IF more[m].kind = "task" THEN more[m].updates[b] ELSE 0
                   ELSE SizeIn(list, n, e, b)
  BY ONLY <1>5, SizeNext
<1>10. ASSUME NEW e, NEW k \in 0 .. n PROVE MemoryIn(log, k, e)' = MemoryIn(log, k, e)
  <2>1. Spark!Blocks' = Spark!Blocks
    BY DEF Spark!Blocks
  <2>2. [b \in Spark!Blocks |-> SizeIn(more, k, e, b)] = [b \in Spark!Blocks |-> SizeIn(list, k, e, b)]
    BY <1>7
  <2>3. Registered(more, k, e) = Registered(list, k, e)
    BY <1>6
  <2>4. MemoryIn(log, k, e)' =
           IF Registered(more, k, e) THEN SumFunction([b \in Spark!Blocks |-> SizeIn(more, k, e, b)])
           ELSE 0
    BY <2>1 DEF MemoryIn
  <2> QED BY <2>2, <2>3, <2>4 DEF MemoryIn
<1> QED BY <1>1, <1>3, <1>4, <1>8, <1>9, <1>10


(* The four kinds of events.                                               *)
LEMMA AddedNext ==
    ASSUME StatusInv, Spark!BlockManagerAdded
    PROVE  StatusInv' /\ peak' = peak /\ \E event \in LogEvents : log' = Append(log, event)
<1>1. PICK e \in DOMAIN app.storage :
         /\ log' = Append(log, [kind |-> "added", executor |-> e])
         /\ app' = app /\ peak' = peak /\ status' = Spark!With(status, e, Spark!None)
  BY DEF Spark!BlockManagerAdded, Spark!Replay
<1> DEFINE event == [kind |-> "added", executor |-> e]
           n == Len(log)
<1>2. event \in LogEvents
  BY DEF LogEvents
<1>3. /\ n \in Nat /\ Len(log') = n + 1 /\ log' \in Seq(LogEvents')
      /\ \A x : Registered(log', n + 1, x) <=> x = e \/ Registered(log, n, x)
      /\ \A x, b : SizeIn(log', n + 1, x, b) = IF x = e THEN 0 ELSE SizeIn(log, n, x, b)
  BY <1>1, <1>2, AfterEvent DEF Spark!Changes
<1>4. /\ DOMAIN status' = DOMAIN status \cup {e}
      /\ \A x \in DOMAIN status' : status'[x] = IF x = e THEN <<>> ELSE status[x]
  BY <1>1 DEF Spark!With, Spark!Over, Spark!None
<1>5. Spark!Blocks' = Spark!Blocks
  BY <1>1 DEF Spark!Blocks
<1> HIDE DEF n, event
<1>6. StatusInv'
  BY <1>1, <1>3, <1>4, <1>5 DEF StatusInv, n
<1> QED BY <1>1, <1>2, <1>6 DEF event

(* A removed executor takes its blocks with it.                            *)
LEMMA RemovedNext ==
    ASSUME StatusInv, Spark!BlockManagerRemoved
    PROVE  StatusInv' /\ peak' = peak /\ \E event \in LogEvents : log' = Append(log, event)
<1>1. PICK e \in DOMAIN status :
         /\ log' = Append(log, [kind |-> "removed", executor |-> e])
         /\ app' = app /\ peak' = peak /\ status' = Spark!Without(status, {e})
  BY DEF Spark!BlockManagerRemoved, Spark!Replay
<1> DEFINE event == [kind |-> "removed", executor |-> e]
           n == Len(log)
<1>2. event \in LogEvents
  BY DEF LogEvents, StatusInv
<1>3. /\ n \in Nat /\ Len(log') = n + 1 /\ log' \in Seq(LogEvents')
      /\ \A x : Registered(log', n + 1, x) <=> x # e /\ Registered(log, n, x)
      /\ \A x, b : SizeIn(log', n + 1, x, b) = IF x = e THEN 0 ELSE SizeIn(log, n, x, b)
  BY <1>1, <1>2, AfterEvent DEF Spark!Changes
<1>4. /\ DOMAIN status' = DOMAIN status \ {e}
      /\ \A x \in DOMAIN status' : status'[x] = status[x]
  BY <1>1, SameOperators DEF Spark!Without
<1>5. Spark!Blocks' = Spark!Blocks
  BY <1>1 DEF Spark!Blocks
<1> HIDE DEF n, event
<1>6. StatusInv'
  <2>1. \A x \in DOMAIN app.storage : x \in DOMAIN status' <=> Registered(log', n + 1, x)
    BY <1>3, <1>4 DEF StatusInv, n
  <2>2. \A x \in DOMAIN status' :
           /\ DOMAIN status'[x] \subseteq Spark!Blocks
           /\ \A b \in Spark!Blocks :
                 SizeIn(log', n + 1, x, b) = IF b \in DOMAIN status'[x] THEN status'[x][b] ELSE 0
    BY <1>3, <1>4 DEF StatusInv, n
  <2>3. DOMAIN status' \subseteq DOMAIN app.storage /\ DOMAIN peak \subseteq DOMAIN app.storage
    BY <1>4 DEF StatusInv
  <2>4. app' \in Applications /\ app' = app /\ DOMAIN peak' \subseteq DOMAIN app.storage
    BY <1>1, <2>3 DEF StatusInv
  <2> QED BY <1>3, <1>5, <2>1, <2>2, <2>3, <2>4 DEF StatusInv
<1> QED BY <1>1, <1>2, <1>6 DEF event

(* updateUsedMem.                                                          *)
LEMMA UsedMemIs ==
    ASSUME StatusInv, NEW new, DOMAIN new \subseteq DOMAIN app.storage,
           peak' = Spark!UsedMem(new)
    PROVE  /\ DOMAIN peak' \subseteq DOMAIN app.storage
           /\ \A e \in DOMAIN app.storage :
                 Spark!MemUsed(e)' =
                    IF e \in DOMAIN new /\ Spark!HeldMemory(new[e]) > Spark!MemUsed(e)
                    THEN Spark!HeldMemory(new[e]) ELSE Spark!MemUsed(e)
BY DEF StatusInv, Spark!UsedMem, Spark!MemUsed

(* An unpersisted set of blocks is gone from all executors.                *)
LEMMA UnpersistedNext ==
    ASSUME StatusInv, Spark!UnpersistRdd
    PROVE  /\ StatusInv' /\ peak' = Spark!UsedMem(status')
           /\ \E event \in LogEvents : log' = Append(log, event)
<1>1. PICK rdd \in app.rdds :
         /\ log' = Append(log, [kind |-> "unpersisted", rdd |-> rdd])
         /\ app' = app /\ peak' = Spark!UsedMem(status')
         /\ status' = [e \in DOMAIN status |-> Spark!WithoutRdd(status[e], rdd)]
  BY DEF Spark!UnpersistRdd, Spark!Replay
<1> DEFINE event == [kind |-> "unpersisted", rdd |-> rdd]
           n == Len(log)
<1>2. event \in LogEvents
  BY DEF LogEvents
<1>3. /\ n \in Nat /\ Len(log') = n + 1 /\ log' \in Seq(LogEvents')
      /\ \A x : Registered(log', n + 1, x) <=> Registered(log, n, x)
      /\ \A x, b : SizeIn(log', n + 1, x, b) = IF rdd = b[1] THEN 0 ELSE SizeIn(log, n, x, b)
  BY <1>1, <1>2, AfterEvent DEF Spark!Changes
<1>4. /\ DOMAIN status' = DOMAIN status
      /\ \A x \in DOMAIN status :
            /\ DOMAIN status'[x] = {b \in DOMAIN status[x] : b[1] # rdd}
            /\ \A b \in DOMAIN status'[x] : status'[x][b] = status[x][b]
  BY <1>1, SameOperators DEF Spark!WithoutRdd, Spark!Without
<1>5. Spark!Blocks' = Spark!Blocks
  BY <1>1 DEF Spark!Blocks
<1>6. DOMAIN peak' \subseteq DOMAIN app.storage
  BY <1>1, <1>4, UsedMemIs DEF StatusInv
<1> HIDE DEF n, event
<1>7. StatusInv'
  <2>1. \A x \in DOMAIN app.storage : x \in DOMAIN status' <=> Registered(log', n + 1, x)
    BY <1>3, <1>4 DEF StatusInv, n
  <2>2. \A x \in DOMAIN status' :
           /\ DOMAIN status'[x] \subseteq Spark!Blocks
           /\ \A b \in Spark!Blocks :
                 SizeIn(log', n + 1, x, b) = IF b \in DOMAIN status'[x] THEN status'[x][b] ELSE 0
    BY <1>3, <1>4 DEF StatusInv, n
  <2>3. DOMAIN status' \subseteq DOMAIN app.storage
    BY <1>4 DEF StatusInv
  <2> QED BY <1>1, <1>3, <1>5, <1>6, <2>1, <2>2, <2>3 DEF StatusInv
<1> QED BY <1>1, <1>2, <1>7 DEF event

(* The end of a task puts its blocks where the log says, if any.           *)
LEMMA TaskEndNext ==
    ASSUME StatusInv, Spark!TaskEnd
    PROVE  /\ StatusInv'
           /\ \/ peak' = Spark!UsedMem(status')
              \/ peak' = peak /\ \A x \in DOMAIN app.storage : 
                                    MemoryIn(log, Len(log), x)' = MemoryIn(log, Len(log), x)
           /\ \E event \in LogEvents : log' = Append(log, event)
<1>1. PICK task \in app.tasks :
         /\ log' = Append(log, [kind |-> "task", executor |-> task.executor, updates |-> task.updates])
         /\ app' = app
         /\ status' = IF task.executor \in DOMAIN status
                      THEN [status EXCEPT ![task.executor] = Spark!Updated(@, task.updates)]
                      ELSE status
         /\ peak' = IF task.updates = Spark!None THEN peak ELSE Spark!UsedMem(status')
  BY DEF Spark!TaskEnd, Spark!Replay
<1> DEFINE event == [kind |-> "task", executor |-> task.executor, updates |-> task.updates]
           n == Len(log)
<1>2. event \in LogEvents
  BY DEF LogEvents
<1>3. /\ n \in Nat /\ Len(log') = n + 1 /\ log' \in Seq(LogEvents')
      /\ \A x : Registered(log', n + 1, x) <=> Registered(log, n, x)
      /\ \A x, b : SizeIn(log', n + 1, x, b) =
                      IF x = task.executor /\ b \in DOMAIN task.updates
                      THEN task.updates[b] ELSE SizeIn(log, n, x, b)
  BY <1>1, <1>2, AfterEvent DEF Spark!Changes
<1>4. /\ DOMAIN status' = DOMAIN status
      /\ \A x \in DOMAIN status :
            status'[x] = IF x = task.executor THEN Spark!Updated(status[x], task.updates)
                         ELSE status[x]
  BY <1>1
<1>5. ASSUME NEW blocks, NEW updates
      PROVE  /\ DOMAIN Spark!Updated(blocks, updates) \subseteq DOMAIN blocks \cup DOMAIN updates
             /\ \A b : (IF b \in DOMAIN Spark!Updated(blocks, updates)
                        THEN Spark!Updated(blocks, updates)[b] ELSE 0)
                         = (IF b \in DOMAIN updates THEN updates[b]
                            ELSE IF b \in DOMAIN blocks THEN blocks[b] ELSE 0)
  BY SameOperators DEF Spark!Updated, Spark!Without, Spark!Over
<1>6. Spark!Blocks' = Spark!Blocks /\ DOMAIN task.updates \subseteq Spark!Blocks
  BY <1>1, BlocksFinite DEF Spark!Blocks, StatusInv
<1>7. DOMAIN peak' \subseteq DOMAIN app.storage
  BY <1>1, <1>4, UsedMemIs DEF StatusInv
<1>8. ASSUME task.updates = Spark!None, NEW x \in DOMAIN app.storage
      PROVE  MemoryIn(log, Len(log), x)' = MemoryIn(log, Len(log), x)
  <2>1. DOMAIN task.updates = {}
    BY <1>8 DEF Spark!None
  <2>2. [b \in Spark!Blocks |-> SizeIn(log', n + 1, x, b)] = [b \in Spark!Blocks |-> SizeIn(log, n, x, b)]
    BY <1>3, <2>1
  <2>3. MemoryIn(log, Len(log), x)' =
           IF Registered(log', n + 1, x)
           THEN SumFunction([b \in Spark!Blocks |-> SizeIn(log', n + 1, x, b)]) ELSE 0
    BY <1>3, <1>6 DEF MemoryIn
  <2> QED BY <1>3, <2>2, <2>3 DEF MemoryIn
<1> HIDE DEF n, event
<1>9. StatusInv'
  <2>1. ASSUME NEW x \in DOMAIN status'
        PROVE  /\ DOMAIN status'[x] \subseteq Spark!Blocks
               /\ \A b \in Spark!Blocks :
                     SizeIn(log', n + 1, x, b) = IF b \in DOMAIN status'[x] THEN status'[x][b] ELSE 0
    <3>1. CASE x = task.executor
      BY <1>3, <1>4, <1>5, <1>6, <3>1 DEF StatusInv, n
    <3>2. CASE x # task.executor
      BY <1>3, <1>4, <3>2 DEF StatusInv, n
    <3> QED BY <3>1, <3>2
  <2>2. \A x \in DOMAIN app.storage : x \in DOMAIN status' <=> Registered(log', n + 1, x)
    BY <1>3, <1>4 DEF StatusInv, n
  <2>3. DOMAIN status' \subseteq DOMAIN app.storage
    BY <1>4 DEF StatusInv
  <2>4. app' \in Applications /\ app' = app /\ DOMAIN peak' \subseteq DOMAIN app.storage
    BY <1>1, <1>7 DEF StatusInv
  <2> QED BY <1>3, <1>6, <2>1, <2>2, <2>3, <2>4 DEF StatusInv
<1> QED BY <1>1, <1>2, <1>8, <1>9 DEF event


(* What is held is the sum over the blocks the log left.                   *)
LEMMA HeldAfter ==
    ASSUME StatusInv'
    PROVE  \A e \in DOMAIN app'.storage :
              /\ MemoryIn(log, Len(log), e)' \in Nat
              /\ MemoryIn(log, Len(log), e)' =
                    IF e \in DOMAIN status' THEN Spark!HeldMemory(status'[e]) ELSE 0
<1>1. StatusInv'
  OBVIOUS
<1>2. (\A e \in DOMAIN app.storage :
          /\ MemoryIn(log, Len(log), e) \in Nat
          /\ MemoryIn(log, Len(log), e) =
                IF e \in DOMAIN status THEN Spark!HeldMemory(status[e]) ELSE 0)'
  BY <1>1, HeldNow, PTL
<1> QED BY <1>2

(* The most memory held so far.                                            *)
LEMMA PeakNext ==
    ASSUME PeakInv, StatusInv', app' = app, NEW event \in LogEvents, log' = Append(log, event),
           \A e \in DOMAIN app.storage :
              Spark!MemUsed(e)' = IF MemoryIn(log, Len(log), e)' > Spark!MemUsed(e)
                                  THEN MemoryIn(log, Len(log), e)' ELSE Spark!MemUsed(e)
    PROVE  PeakInv'
<1>1. SUFFICES ASSUME NEW e \in DOMAIN app.storage
               PROVE  Spark!MemUsed(e)' = Max({MemoryIn(log, k, e)' : k \in 0 .. Len(log')})
  <2>1. ASSUME NEW e \in DOMAIN app.storage
        PROVE  {MemoryIn(log, k, e) : k \in 0 .. Len(log)}' = {MemoryIn(log, k, e)' : k \in 0 .. Len(log')}
    OBVIOUS
  <2> QED BY <2>1 DEF PeakInv
<1> PICK n \in Nat : n = Len(log)
  BY DEF PeakInv, StatusInv
<1>2. Len(log') = n + 1 /\ \A k \in 0 .. n : MemoryIn(log, k, e)' = MemoryIn(log, k, e)
  BY AfterEvent DEF PeakInv
<1>3. \A k \in 0 .. n : MemoryIn(log, k, e) \in Nat
  BY MemoryNat DEF PeakInv
<1>4. MemoryIn(log, Len(log), e)' \in Nat
  BY HeldAfter
<1> DEFINE f == [k \in 0 .. n + 1 |-> MemoryIn(log, k, e)']
<1>5. f[n + 1] = MemoryIn(log, Len(log), e)'
  BY <1>2
<1>6. \A k \in 0 .. n : f[k] = MemoryIn(log, k, e)
  BY <1>2
<1>7. \A k \in 0 .. n + 1 : f[k] \in Nat
  <2>1. \A k \in 0 .. n + 1 : k = n + 1 \/ k \in 0 .. n
    OBVIOUS
  <2> HIDE DEF f
  <2> QED BY <1>3, <1>4, <1>5, <1>6, <2>1
<1>8. {f[k] : k \in 0 .. n + 1} = {MemoryIn(log, k, e)' : k \in 0 .. Len(log')}
  BY <1>2
<1>9. {f[k] : k \in 0 .. n} = {MemoryIn(log, k, e) : k \in 0 .. Len(log)}
  BY <1>6
<1> HIDE DEF f
<1>10. Max({f[k] : k \in 0 .. n + 1}) =
          IF f[n + 1] > Max({f[k] : k \in 0 .. n}) THEN f[n + 1] ELSE Max({f[k] : k \in 0 .. n})
  BY <1>7, GreatestNext
<1>11. Spark!MemUsed(e) = Max({f[k] : k \in 0 .. n})
  BY <1>9 DEF PeakInv
<1> QED BY <1>1, <1>5, <1>8, <1>10, <1>11

(* Nobody holds more than the most held so far.                            *)
LEMMA HeldBelow ==
    ASSUME PeakInv, NEW e \in DOMAIN app.storage
    PROVE  Spark!MemUsed(e) \in Nat /\ MemoryIn(log, Len(log), e) <= Spark!MemUsed(e)
<1> PICK n \in Nat : n = Len(log)
  BY DEF PeakInv, StatusInv
<1> DEFINE f == [k \in 0 .. n |-> MemoryIn(log, k, e)]
           S == {f[k] : k \in 0 .. n}
<1>1. \A k \in 0 .. n : f[k] \in Nat
  BY MemoryNat DEF PeakInv
<1>2. S \in SUBSET Nat /\ f[n] \in S /\ f[n] = MemoryIn(log, Len(log), e)
  BY <1>1
<1>3. IsFiniteSet(S)
  <2>1. 0 \in Int /\ n \in Int
    OBVIOUS
  <2>2. IsFiniteSet(0 .. n)
    BY <2>1, FS_Interval
  <2> HIDE DEF f
  <2> QED BY <2>2, ImageFinite
<1>4. S = {MemoryIn(log, k, e) : k \in 0 .. Len(log)}
  OBVIOUS
<1> HIDE DEF S, f
<1>5. Max(S) \in S /\ \A y \in S : y <= Max(S)
  BY <1>2, <1>3, Extremes
<1> QED BY <1>2, <1>4, <1>5 DEF PeakInv

(* One more event raises a peak to what is held if that is more.           *)
LEMMA PeakEvent ==
    ASSUME PeakInv,
           \/ Spark!BlockManagerAdded \/ Spark!BlockManagerRemoved
           \/ Spark!UnpersistRdd \/ Spark!TaskEnd
    PROVE  PeakInv'
<1>1. StatusInv /\ app' = app
  <2>1. \A event : Spark!Replay(event) => app' = app
    BY DEF Spark!Replay
  <2> QED BY <2>1 DEF PeakInv, Spark!BlockManagerAdded, Spark!BlockManagerRemoved,
                      Spark!UnpersistRdd, Spark!TaskEnd
<1>2. /\ StatusInv'
      /\ \E event \in LogEvents : log' = Append(log, event)
  BY <1>1, AddedNext, RemovedNext, UnpersistedNext, TaskEndNext
<1>3. \A e \in DOMAIN app.storage :
         /\ MemoryIn(log, Len(log), e)' \in Nat
         /\ MemoryIn(log, Len(log), e)' =
               IF e \in DOMAIN status' THEN Spark!HeldMemory(status'[e]) ELSE 0
  BY <1>1, <1>2, HeldAfter
<1>4. \A e \in DOMAIN app.storage :
         Spark!MemUsed(e) \in Nat /\ MemoryIn(log, Len(log), e) <= Spark!MemUsed(e)
  BY HeldBelow
<1>5. CASE peak' = Spark!UsedMem(status')
  <2>1. \A e \in DOMAIN app.storage :
           Spark!MemUsed(e)' = IF MemoryIn(log, Len(log), e)' > Spark!MemUsed(e)
                               THEN MemoryIn(log, Len(log), e)' ELSE Spark!MemUsed(e)
    <3>1. DOMAIN status' \subseteq DOMAIN app.storage
      BY <1>1, <1>2 DEF StatusInv
    <3> QED BY <1>1, <1>3, <1>4, <1>5, <3>1, UsedMemIs
  <2> QED BY <1>1, <1>2, <2>1, PeakNext
<1>6. CASE /\ peak' = peak
           /\ \A e \in DOMAIN app.storage :
                 MemoryIn(log, Len(log), e)' <= Spark!MemUsed(e)
  <2>1. \A e \in DOMAIN app.storage :
           Spark!MemUsed(e)' = IF MemoryIn(log, Len(log), e)' > Spark!MemUsed(e)
                               THEN MemoryIn(log, Len(log), e)' ELSE Spark!MemUsed(e)
    <3>1. \A e : Spark!MemUsed(e)' = Spark!MemUsed(e)
      BY <1>6 DEF Spark!MemUsed
    <3> QED BY <1>3, <1>4, <1>6, <3>1
  <2> QED BY <1>1, <1>2, <2>1, PeakNext
<1>7. CASE Spark!BlockManagerAdded \/ Spark!BlockManagerRemoved
  <2>1. peak' = peak
    BY <1>1, <1>7, AddedNext, RemovedNext
  <2>2. ASSUME NEW e \in DOMAIN app.storage
        PROVE  MemoryIn(log, Len(log), e)' <= Spark!MemUsed(e)
    <3>1. MemoryIn(log, Len(log), e)' \in {0, MemoryIn(log, Len(log), e)}
      <4>1. \/ e \notin DOMAIN status'
            \/ status'[e] = Spark!None
            \/ e \in DOMAIN status /\ status'[e] = status[e]
        BY <1>7, SameOperators DEF Spark!BlockManagerAdded, Spark!BlockManagerRemoved, Spark!With,
                    Spark!Over, Spark!Without
      <4>2. SumFunction(Spark!None) = 0
        <5>1. IsFiniteSet({}) /\ DOMAIN Spark!None = {}
          BY FS_EmptySet DEF Spark!None
        <5>2. Weight(Spark!None, {}) = 0
          BY WeightEmpty
        <5>3. Weighted(Spark!None, {})
          BY <5>1 DEF Weighted
        <5> QED BY <5>1, <5>2, <5>3, SumIsWeight
      <4>3. e \in DOMAIN status => MemoryIn(log, Len(log), e) = Spark!HeldMemory(status[e])
        BY <1>1, HeldNow
      <4> QED BY <1>3, <4>1, <4>2, <4>3, SameOperators
    <3> QED BY <1>4, <3>1
  <2> QED BY <1>6, <2>1, <2>2
<1>8. CASE Spark!UnpersistRdd
  BY <1>1, <1>5, <1>8, UnpersistedNext
<1>9. CASE Spark!TaskEnd
  <2>1. CASE peak' = Spark!UsedMem(status')
    BY <1>5, <2>1
  <2>2. CASE /\ peak' = peak
             /\ \A x \in DOMAIN app.storage : MemoryIn(log, Len(log), x)' = MemoryIn(log, Len(log), x)
    BY <1>4, <1>6, <2>2
  <2> QED BY <1>1, <1>9, <2>1, <2>2, TaskEndNext
<1> QED BY <1>7, <1>8, <1>9


(* Before the replay no executor is known.                                 *)
LEMMA PeakInit == JobInit => PeakInv
<1> SUFFICES ASSUME JobInit PROVE PeakInv
  OBVIOUS
<1>1. /\ app \in Applications /\ log = <<>> /\ Len(log) = 0
      /\ DOMAIN status = {} /\ DOMAIN peak = {}
  <2>1. app \in Applications
    BY DEF JobInit, Spark!Init
  <2> QED BY <2>1 DEF JobInit, Spark!Init, Spark!None
<1>2. \A e : ~Registered(log, 0, e)
  <2>1. \A e : Registrations(log, 0, e) \in SUBSET (1 .. 0)
    BY DEF Registrations
  <2>2. \A e : LatestOf(Registrations(log, 0, e)) = 0
    <3>1. 1 .. 0 = {} /\ 0 \in Nat
      OBVIOUS
    <3> QED BY <2>1, <3>1, LastPlace
  <2> QED BY <2>2 DEF Registered
<1>3. StatusInv
  BY <1>1, <1>2 DEF StatusInv
<1>4. ASSUME NEW e \in DOMAIN app.storage
      PROVE  Spark!MemUsed(e) = Max({MemoryIn(log, k, e) : k \in 0 .. Len(log)})
  <2>1. {MemoryIn(log, k, e) : k \in 0 .. Len(log)} = {0}
    BY <1>1, <1>2 DEF MemoryIn
  <2>2. Max({0}) \in {0}
    <3> DEFINE S == {0}
    <3>1. S \in SUBSET Nat /\ S # {}
      OBVIOUS
    <3>2. \A x : IsFiniteSet({x})
      BY FS_Singleton
    <3>3. IsFiniteSet(S)
      BY <3>2
    <3> HIDE DEF S
    <3>4. Max(S) \in S
      BY <3>1, <3>3, Extremes
    <3> QED BY <3>4 DEF S
  <2> QED BY <1>1, <2>1, <2>2 DEF Spark!MemUsed
<1> QED BY <1>3, <1>4 DEF PeakInv

(* Steps that replay no event keep the log and the peaks.                  *)
LEMMA PeakFrame ==
    ASSUME PeakInv, UNCHANGED <<app, log, status, peak>>
    PROVE  PeakInv'
<1>1. LogEvents' = LogEvents /\ Spark!Blocks' = Spark!Blocks
  BY DEF LogEvents, Spark!Blocks
<1>2. StatusInv'
  BY <1>1 DEF PeakInv, StatusInv
<1>3. \A e : \A k : MemoryIn(log, k, e)' = MemoryIn(log, k, e)
  BY <1>1 DEF MemoryIn
<1>4. \A e : Spark!MemUsed(e)' = Spark!MemUsed(e)
  BY DEF Spark!MemUsed
<1>5. \A e : {MemoryIn(log, k, e) : k \in 0 .. Len(log)}' = {MemoryIn(log, k, e) : k \in 0 .. Len(log)}
  BY <1>3
<1> QED BY <1>2, <1>4, <1>5 DEF PeakInv

(* What a step of the job does to the application.                         *)
LEMMA SparkSteps ==
    [JobNext]_<<appType, row, info, mapReduceState, sparkState>>
      => \/ appType = "SPARK" /\ appType' = appType /\ info' = info /\ Spark!Next
         \/ UNCHANGED sparkState
BY DEF JobNext, AnalyseMapReduce, AnalyseSpark, LoadInfo

(* Each step of either type of analysis keeps PeakInv.                     *)
LEMMA PeakSteps ==
    ASSUME PeakInv, Spark!Next \/ UNCHANGED sparkState
    PROVE  PeakInv'
<1>1. CASE \/ Spark!BlockManagerAdded \/ Spark!BlockManagerRemoved
           \/ Spark!UnpersistRdd \/ Spark!TaskEnd
  BY <1>1, PeakEvent
<1>2. CASE \/ Spark!OpenLog \/ Spark!FetchFails \/ Spark!ReplayEnds
           \/ Spark!NoDataReceived \/ Spark!RunHeuristics
  <2>1. UNCHANGED <<app, log, status, peak>>
    BY <1>2 DEF Spark!OpenLog, Spark!FetchFails, Spark!ReplayEnds, Spark!NoDataReceived,
                Spark!RunHeuristics, Spark!replayed
  <2> QED BY <2>1, PeakFrame
<1>3. CASE Spark!JobStart \/ Spark!StageSubmitted \/ Spark!StageCompleted \/ Spark!JobEnd
  <2>1. Spark!Progress
    BY <1>3 DEF Spark!JobStart, Spark!StageSubmitted, Spark!StageCompleted, Spark!JobEnd
  <2>2. UNCHANGED <<app, log, status, peak>>
    BY <2>1 DEF Spark!Progress
  <2> QED BY <2>2, PeakFrame
<1>4. CASE UNCHANGED sparkState
  BY <1>4, PeakFrame DEF sparkState
<1> QED BY <1>1, <1>2, <1>3, <1>4 DEF Spark!Next

(* The memory reported of an executor is the most it held at any time, and *)
(* the executors reported are those registered in the end.                 *)
THEOREM PeaksAreReported == JobSpec => []PeakReported
<1>1. JobInit => PeakInv
  BY PeakInit
<1>2. PeakInv /\ [JobNext]_<<appType, row, info, mapReduceState, sparkState>> => PeakInv'
  BY PeakSteps, SparkSteps
<1>3. PeakInv => PeakReported
  <2> SUFFICES ASSUME PeakInv
               PROVE  /\ Spark!Executors = {e \in DOMAIN app.storage : Spark!RegisteredAfter(Len(log), e)}
                      /\ \A e \in Spark!Executors :
                            Spark!MemUsed(e) = Max({Spark!MemoryAfter(k, e) : k \in 0 .. Len(log)})
    BY SameOperators DEF PeakReported, Spark!PeakReported
  <2>1. Spark!Executors = {e \in DOMAIN app.storage : Spark!RegisteredAfter(Len(log), e)}
    BY OverLog DEF PeakInv, StatusInv, Spark!Executors
  <2>2. \A e : {Spark!MemoryAfter(k, e) : k \in 0 .. Len(log)} = {MemoryIn(log, k, e) : k \in 0 .. Len(log)}
    BY OverLog
  <2> QED BY <2>1, <2>2 DEF PeakInv
<1> QED BY <1>1, <1>2, <1>3, PTL DEF JobSpec

-----------------------------------------------------------------------------
(* What is kept of a list that has grown is its end, no longer than the    *)
(* limit, and all of it if it was not too long.                            *)
LEMMA TrimmedPart ==
    ASSUME NEW longest \in Nat \ {0}, NEW n \in Nat
    PROVE  LET toRemove == IF longest >= 10 THEN longest \div 10 ELSE 1
               excess == n - longest
               times == IF excess > 0 THEN (excess + toRemove - 1) \div toRemove ELSE 0
           IN  /\ times * toRemove \in 0 .. n
               /\ n - times * toRemove <= longest
               /\ n <= longest => times * toRemove = 0
<1> DEFINE toRemove == IF longest >= 10 THEN longest \div 10 ELSE 1
           excess == n - longest
           times == IF excess > 0 THEN (excess + toRemove - 1) \div toRemove ELSE 0
<1>1. toRemove \in Nat \ {0} /\ toRemove <= longest
  <2>1. CASE longest >= 10
    <3>1. /\ longest \in Int /\ 10 \in Nat \ {0} /\ 1 \in Int
          /\ 1 * 10 <= longest /\ longest <= longest * 10
      BY <2>1
    <3>2. longest \div 10 \in Int /\ 1 <= longest \div 10 /\ longest \div 10 <= longest
      BY ONLY <3>1, QuotientBetween
    <3> QED BY <2>1, <3>2
  <2>2. CASE ~(longest >= 10)
    BY <2>2
  <2> QED BY <2>1, <2>2
<1>2. excess \in Int
  OBVIOUS
<1>3. CASE excess > 0
  <2> DEFINE t == excess + toRemove - 1
  <2>1. t \in Int /\ toRemove \in Nat \ {0}
    BY <1>1
  <2> HIDE DEF toRemove, t
  <2>2. /\ t \div toRemove \in Int
        /\ (t \div toRemove) * toRemove <= t
        /\ t < (t \div toRemove) * toRemove + toRemove
    BY <2>1
  <2>3. times = t \div toRemove
    BY <1>3 DEF t
  <2> DEFINE p == (t \div toRemove) * toRemove
  <2>4. p \in Int
    BY <2>1, <2>2
  <2> HIDE DEF p
  <2>5. p <= excess + toRemove - 1 /\ excess + toRemove - 1 < p + toRemove
    BY <2>2 DEF p, t
  <2>6. p >= excess /\ p <= n
    BY <1>1, <2>4, <2>5
  <2>7. times * toRemove = p
    BY <2>3 DEF p
  <2> QED BY <1>1, <1>3, <2>4, <2>6, <2>7 DEF toRemove
<1>4. CASE ~(excess > 0)
  BY <1>1, <1>4
<1> QED BY <1>3, <1>4

(* A trimmed list is the end of the list, the whole if it fits.            *)
LEMMA TrimmedIs ==
    ASSUME NEW D, NEW list \in Seq(D), NEW added \in Seq(D)
    PROVE  LET kept == Spark!Trimmed(list, added)
               longer == list \o added
           IN  /\ kept \in Seq(D) /\ Len(kept) <= RetainedStages
               /\ \E p \in 0 .. Len(longer) :
                     /\ \A i \in 1 .. Len(kept) : p + i \in 1 .. Len(longer) /\ kept[i] = longer[p + i]
                     /\ Len(kept) = Len(longer) - p
                     /\ Len(longer) <= RetainedStages => p = 0
<1> DEFINE longer == list \o added
           n == Len(longer)
           toRemove == IF RetainedStages >= 10 THEN RetainedStages \div 10 ELSE 1
           excess == n - RetainedStages
           times == IF excess > 0 THEN (excess + toRemove - 1) \div toRemove ELSE 0
           p == times * toRemove
           kept == Spark!Trimmed(list, added)
<1>1. longer \in Seq(D) /\ n \in Nat
  OBVIOUS
<1>2. RetainedStages \in Nat \ {0}
  BY JobAssumption DEF Spark!SparkAssumption
<1>3. p \in 0 .. n /\ n - p <= RetainedStages /\ (n <= RetainedStages => p = 0)
  <2> HIDE DEF longer
  <2> QED BY <1>1, <1>2, TrimmedPart
<1>4. kept = SubSeq(longer, p + 1, n)
  BY DEF Spark!Trimmed
<1> HIDE DEF longer, p, kept
<1>5. kept = [i \in 1 .. n - p |-> longer[p + i]]
  BY <1>1, <1>3, <1>4
<1>6. \A i \in 1 .. n - p : p + i \in 1 .. n
  BY <1>1, <1>3
<1>7. Len(kept) = n - p /\ kept \in Seq(D)
  <2>1. \A i \in 1 .. n - p : longer[p + i] \in D
    BY <1>1, <1>6
  <2>2. n - p \in Nat
    BY <1>1, <1>3
  <2> QED BY <1>5, <2>1, <2>2
<1> QED BY <1>3, <1>5, <1>6, <1>7 DEF longer, kept

-----------------------------------------------------------------------------
(* Stages.  What the listener forgets of a stage is what fell out of the   *)
(* list it had ended in: the lists name stages that ended, each once, whose*)
(* data are still there, and until more stages have ended than are         *)
(* retained the data of every stage are.                                   *)
Lists == {"completed", "failed", "skipped"}

Ended == {s \in DOMAIN phases : phases[s] = "ended"}

NoRepeats(list) == \A i, k \in DOMAIN list : list[i] = list[k] => i = k

JobEntries == [state : {"running", "completed", "failed"}, completed : Nat, failed : Nat]

StagesOfJobs == UNION {app.jobs[j] : j \in DOMAIN jobs}

ListsOfEnded ==
    /\ DOMAIN ended = Lists
    /\ \A which \in Lists :
          /\ ended[which] \in Seq(Ended \cap DOMAIN stages)
          /\ NoRepeats(ended[which])
          /\ Len(ended[which]) <= RetainedStages
    /\ \A which, other \in Lists :
          which # other => ToSet(ended[which]) \cap ToSet(ended[other]) = {}

StagesInv ==
    /\ app \in Applications
    /\ DOMAIN jobs \subseteq DOMAIN app.jobs
    /\ \A j \in DOMAIN jobs : jobs[j] \in JobEntries
    /\ phases \in [StagesOfJobs -> {"pending", "running", "ended"}]
    /\ IsFiniteSet(DOMAIN phases)
    /\ DOMAIN stages \subseteq DOMAIN phases
    /\ DOMAIN phases \ Ended \subseteq DOMAIN stages
    /\ ListsOfEnded
    /\ Cardinality(Ended) <= RetainedStages => DOMAIN phases \subseteq DOMAIN stages

(* What the analysis of an application has come to.                        *)
WhySparkThrows ==
    \/ NotANumber \in {app.env.cores, app.env.driverMemory, app.env.instances,
                       app.env.executorMemory, app.env.fraction}
    \/ /\ Cardinality(Ended) > RetainedStages
       /\ \E j \in DOMAIN jobs : jobs[j].state = "failed" \/ jobs[j].failed > 0

SparkInv ==
    /\ StagesInv
    /\ sparkPc \in {"open", "replay", "heuristics", "done", "failed", "thrown"}
    /\ throttled \in BOOLEAN
    /\ appType = "MAPREDUCE" => sparkPc = "open"
    /\ sparkPc = "open" => ~throttled
    /\ sparkPc = "open" \/ throttled => DOMAIN jobs = {} /\ DOMAIN status = {}
    /\ throttled => sparkPc \in {"heuristics", "done"}
    /\ \A i \in DOMAIN sparkResults : sparkResults[i].severity \in Severities
    /\ appType = "SPARK" => row.severity \in Severities /\ row.score \in Nat
    /\ SparkConfigured /\ throttled /\ sparkPc = "done" => row.severity = CRITICAL
    /\ SparkConfigured /\ sparkPc = "thrown" => WhySparkThrows

(* A list is one of whatever its elements are in, of which it has each.    *)
LEMMA ListOf ==
    ASSUME NEW D, NEW list \in Seq(D)
    PROVE  /\ DOMAIN list = 1 .. Len(list) /\ Len(list) \in Nat
           /\ \A E : (\A i \in 1 .. Len(list) : list[i] \in E) => list \in Seq(E)
           /\ ToSet(list) = {list[i] : i \in 1 .. Len(list)}
<1>1. DOMAIN list = 1 .. Len(list) /\ Len(list) \in Nat
  OBVIOUS
<1>2. ASSUME NEW E, \A i \in 1 .. Len(list) : list[i] \in E
      PROVE  list \in Seq(E)
  <2>1. list \in [1 .. Len(list) -> E]
    BY <1>1, <1>2
  <2> QED BY <1>1, <2>1
<1>3. ToSet(list) = {list[i] : i \in 1 .. Len(list)}
  BY <1>1 DEF ToSet
<1> QED BY <1>1, <1>2, <1>3

(* Fewer names on a list than stages that ended, and all of them at most.  *)
LEMMA NamesCounted ==
    ASSUME NEW D, NEW list \in Seq(D), NoRepeats(list), IsFiniteSet(D)
    PROVE  Len(list) <= Cardinality(D) /\ Len(list) \in Nat /\ Cardinality(D) \in Nat
<1>1. PICK n \in Nat : n = Len(list) /\ list \in [1 .. n -> D]
  OBVIOUS
<1>2. IsFiniteSet(1 .. n) /\ Cardinality(1 .. n) = n
  <2>1. 1 \in Int /\ n \in Int
    BY <1>1
  <2>2. IsFiniteSet(1 .. n)
    BY <2>1, FS_Interval
  <2>3. Cardinality(1 .. n) = IF 1 > n THEN 0 ELSE n - 1 + 1
    BY <2>1, FS_Interval
  <2> QED BY <2>1, <2>2, <2>3, <1>1
<1>3. list \in Injection(1 .. n, D)
  BY <1>1 DEF NoRepeats, Injection, IsInjective
<1>4. Cardinality(1 .. n) <= Cardinality(D)
  BY ONLY <1>3, IsFiniteSet(D), FS_Injection
<1>5. Cardinality(D) \in Nat
  BY FS_CardinalityType
<1> QED BY <1>1, <1>2, <1>4, <1>5

(* Stages that end are put on one of the lists, of which the first names   *)
(* may be forgotten, with the data of their stages.                        *)
LEMMA EndedNext ==
    ASSUME StagesInv,
           NEW which \in Lists, NEW added \in Seq(DOMAIN phases \ Ended), NoRepeats(added),
           app' = app, DOMAIN jobs' = DOMAIN jobs, \A j \in DOMAIN jobs' : jobs'[j] \in JobEntries,
           phases' = [s \in DOMAIN phases |-> IF s \in ToSet(added) THEN "ended" ELSE phases[s]],
           ended' = [ended EXCEPT ![which] = Spark!Trimmed(ended[which], added)],
           DOMAIN stages' = DOMAIN stages
              \ Spark!Dropped(ended[which], added, Spark!Trimmed(ended[which], added))
    PROVE  StagesInv'
<1> DEFINE list == ended[which]
           longer == list \o added
           kept == Spark!Trimmed(list, added)
           all == ToSet(list) \cup ToSet(added)
<1>1. /\ list \in Seq(Ended \cap DOMAIN stages) /\ NoRepeats(list) /\ DOMAIN ended = Lists
      /\ Ended \subseteq DOMAIN phases
      /\ \A other \in Lists : ToSet(ended[other]) \subseteq Ended \cap DOMAIN stages
  BY DEF StagesInv, ListsOfEnded, Ended, ToSet
<1>2. ToSet(list) \subseteq Ended \cap DOMAIN stages /\ ToSet(added) \subseteq DOMAIN phases \ Ended
  BY <1>1 DEF ToSet
<1>3. list \in Seq(DOMAIN phases) /\ added \in Seq(DOMAIN phases)
  BY <1>1
<1>4. /\ DOMAIN phases' = DOMAIN phases
      /\ Ended' = Ended \cup ToSet(added)
  BY <1>2 DEF Ended
<1>5. /\ longer \in Seq(DOMAIN phases) /\ Len(longer) = Len(list) + Len(added)
      /\ Len(list) \in Nat /\ Len(added) \in Nat
      /\ \A i \in 1 .. Len(longer) : longer[i] = IF i <= Len(list) THEN list[i] ELSE added[i - Len(list)]
      /\ \A i \in 1 .. Len(list) : list[i] \in ToSet(list)
      /\ \A i \in 1 .. Len(added) : added[i] \in ToSet(added)
  BY <1>3 DEF ToSet
<1>6. NoRepeats(longer) /\ longer \in Seq(all)
  <2>1. DOMAIN longer = 1 .. Len(longer) /\ DOMAIN list = 1 .. Len(list) /\ DOMAIN added = 1 .. Len(added)
    BY <1>3, <1>5
  <2>2. ASSUME NEW i \in 1 .. Len(longer), NEW k \in 1 .. Len(longer), longer[i] = longer[k]
        PROVE  i = k
    <3>1. CASE i <= Len(list) /\ k <= Len(list)
      BY <1>1, <1>5, <2>1, <2>2, <3>1 DEF NoRepeats
    <3>2. CASE i > Len(list) /\ k > Len(list)
      <4>1. i - Len(list) \in 1 .. Len(added) /\ k - Len(list) \in 1 .. Len(added)
        BY <1>5, <3>2
      <4>2. added[i - Len(list)] = added[k - Len(list)]
        BY <1>5, <2>2, <3>2
      <4>3. i - Len(list) = k - Len(list)
        BY <2>1, <4>1, <4>2 DEF NoRepeats
      <4> QED BY <1>5, <4>3
    <3>3. CASE i <= Len(list) /\ k > Len(list)
      BY <1>2, <1>5, <2>2, <3>3
    <3>4. CASE i > Len(list) /\ k <= Len(list)
      BY <1>2, <1>5, <2>2, <3>4
    <3> QED BY <1>5, <3>1, <3>2, <3>3, <3>4
  <2>3. \A i \in 1 .. Len(longer) : longer[i] \in all
    BY <1>5
  <2>4. longer \in Seq(all)
    <3> HIDE DEF longer, all
    <3> QED BY <1>5, <2>3, ListOf
  <2>5. NoRepeats(longer)
    <3> HIDE DEF longer
    <3> QED BY <2>1, <2>2 DEF NoRepeats
  <2> QED BY <2>4, <2>5
<1> HIDE DEF longer
<1>7. /\ kept \in Seq(all) /\ Len(kept) <= RetainedStages
      /\ \E p \in 0 .. Len(longer) :
            /\ \A i \in 1 .. Len(kept) : p + i \in 1 .. Len(longer) /\ kept[i] = longer[p + i]
            /\ Len(kept) = Len(longer) - p
            /\ Len(longer) <= RetainedStages => p = 0
  <2>1. list \in Seq(all) /\ added \in Seq(all)
    <3>1. (\A i \in 1 .. Len(list) : list[i] \in all) /\ (\A i \in 1 .. Len(added) : added[i] \in all)
      BY <1>5
    <3> HIDE DEF all, list
    <3> QED BY <1>3, <3>1, ListOf
  <2> HIDE DEF all, list
  <2> QED BY ONLY <2>1, TrimmedIs DEF kept, longer
<1> HIDE DEF kept
<1>8. PICK p \in 0 .. Len(longer) :
            /\ \A i \in 1 .. Len(kept) : p + i \in 1 .. Len(longer) /\ kept[i] = longer[p + i]
            /\ Len(kept) = Len(longer) - p
            /\ Len(longer) <= RetainedStages => p = 0
  BY <1>7
<1>9. NoRepeats(kept) /\ ToSet(kept) \subseteq all
  <2>1. /\ Len(longer) \in Nat /\ DOMAIN longer = 1 .. Len(longer)
        /\ Len(kept) \in Nat /\ DOMAIN kept = 1 .. Len(kept)
        /\ ToSet(kept) = {kept[i] : i \in 1 .. Len(kept)}
    <3> HIDE DEF all
    <3> QED BY <1>6, <1>7, ListOf
  <2>2. ASSUME NEW i \in 1 .. Len(kept), NEW k \in 1 .. Len(kept), kept[i] = kept[k]
        PROVE  i = k
    <3>1. p + i = p + k
      BY <1>6, <1>8, <2>1, <2>2 DEF NoRepeats
    <3> QED BY <2>1, <3>1
  <2>3. \A i \in 1 .. Len(kept) : kept[i] \in all
    <3> HIDE DEF all
    <3> QED BY <1>7, <2>1
  <2> HIDE DEF all
  <2> QED BY <2>1, <2>2, <2>3 DEF NoRepeats
<1>10. DOMAIN stages' = DOMAIN stages \ (all \ ToSet(kept))
  BY SameOperators DEF Spark!Dropped, kept
<1>11. ToSet(added) \subseteq DOMAIN stages /\ DOMAIN stages \subseteq DOMAIN phases
  BY <1>2 DEF StagesInv
<1>12. Ended' \cap DOMAIN stages' \subseteq DOMAIN phases /\ ToSet(kept) \subseteq Ended' \cap DOMAIN stages'
  BY <1>1, <1>2, <1>4, <1>9, <1>10, <1>11
<1>13. ListsOfEnded'
  <2>1. \A other \in Lists : other # which => ended'[other] = ended[other]
    BY <1>1
  <2>2. ended'[which] = kept /\ DOMAIN ended' = Lists
    BY <1>1 DEF kept
  <2>3. ASSUME NEW other \in Lists, other # which
        PROVE  /\ ToSet(ended[other]) \subseteq Ended' \cap DOMAIN stages'
               /\ ToSet(ended[other]) \cap ToSet(kept) = {}
    <3>1. ToSet(ended[other]) \cap ToSet(list) = {}
      BY <2>3 DEF StagesInv, ListsOfEnded
    <3>2. ToSet(ended[other]) \cap ToSet(added) = {}
      BY <1>1, <1>2
    <3> QED BY <1>1, <1>4, <1>9, <1>10, <3>1, <3>2
  <2>4. ASSUME NEW other \in Lists
        PROVE  /\ ended'[other] \in Seq(Ended' \cap DOMAIN stages')
               /\ NoRepeats(ended'[other]) /\ Len(ended'[other]) <= RetainedStages
    <3>1. CASE other = which
      <4>1. kept \in Seq(Ended' \cap DOMAIN stages')
        <5>1. \A i \in 1 .. Len(kept) : kept[i] \in Ended' \cap DOMAIN stages'
          <6> HIDE DEF all
          <6> QED BY <1>7, <1>12, ListOf
        <5> HIDE DEF all
        <5> QED BY <1>7, <5>1, ListOf
      <4> QED BY <3>1, <4>1, <2>2, <1>7, <1>9
    <3>2. CASE other # which
      <4>1. /\ ended[other] \in Seq(Ended \cap DOMAIN stages)
            /\ NoRepeats(ended[other]) /\ Len(ended[other]) <= RetainedStages
        BY DEF StagesInv, ListsOfEnded
      <4>2. ended[other] \in Seq(Ended' \cap DOMAIN stages')
        BY <2>3, <3>2, <4>1 DEF ToSet
      <4> QED BY <2>1, <3>2, <4>1, <4>2
    <3> QED BY <3>1, <3>2
  <2>5. ASSUME NEW x \in Lists, NEW y \in Lists, x # y
        PROVE  ToSet(ended'[x]) \cap ToSet(ended'[y]) = {}
    BY <2>1, <2>2, <2>3, <2>5 DEF StagesInv, ListsOfEnded
  <2> QED BY <2>2, <2>4, <2>5 DEF ListsOfEnded
<1>14. Cardinality(Ended') <= RetainedStages => DOMAIN phases' \subseteq DOMAIN stages'
  <2> SUFFICES ASSUME Cardinality(Ended') <= RetainedStages
               PROVE  DOMAIN phases \subseteq DOMAIN stages'
    BY <1>4
  <2>1. IsFiniteSet(Ended') /\ IsFiniteSet(all) /\ all \subseteq Ended' /\ Ended \subseteq Ended'
    <3>1. Ended' \subseteq DOMAIN phases /\ all \subseteq Ended' /\ Ended \subseteq Ended'
      BY <1>1, <1>2, <1>4
    <3>2. IsFiniteSet(DOMAIN phases)
      BY DEF StagesInv
    <3>3. IsFiniteSet(Ended')
      BY ONLY <3>1, <3>2, FS_Subset
    <3> HIDE DEF all
    <3> QED BY ONLY <3>1, <3>3, FS_Subset
  <2>2. Cardinality(all) <= Cardinality(Ended') /\ Cardinality(Ended) <= Cardinality(Ended')
    <3> HIDE DEF all
    <3> QED BY ONLY <2>1, FS_Subset
  <2>3. /\ Cardinality(all) \in Nat /\ Cardinality(Ended') \in Nat /\ Cardinality(Ended) \in Nat
        /\ RetainedStages \in Nat
    <3>1. IsFiniteSet(Ended)
      BY ONLY <2>1, FS_Subset
    <3> QED BY <2>1, <3>1, FS_CardinalityType, JobAssumption DEF Spark!SparkAssumption
  <2>4. Len(longer) <= Cardinality(all) /\ Len(longer) \in Nat
    <3> HIDE DEF all
    <3> QED BY ONLY <2>1, <1>6, NamesCounted
  <2>5. p = 0
    BY <1>8, <2>2, <2>3, <2>4
  <2>6. ToSet(kept) = all
    <3>1. Len(kept) = Len(longer) /\ \A i \in 1 .. Len(longer) : kept[i] = longer[i]
      BY <1>8, <2>4, <2>5
    <3>2. \A x \in all : \E i \in 1 .. Len(longer) : longer[i] = x
      <4>1. \A i \in 1 .. Len(list) : i \in 1 .. Len(longer) /\ longer[i] = list[i]
        BY <1>5
      <4>2. ASSUME NEW i \in 1 .. Len(added)
            PROVE  Len(list) + i \in 1 .. Len(longer) /\ longer[Len(list) + i] = added[i]
        BY <1>5
      <4>3. \A x \in ToSet(list) : \E i \in 1 .. Len(list) : list[i] = x
        BY <1>3 DEF ToSet
      <4>4. \A x \in ToSet(added) : \E i \in 1 .. Len(added) : added[i] = x
        BY <1>3 DEF ToSet
      <4> QED BY <4>1, <4>2, <4>3, <4>4
    <3>3. DOMAIN kept = 1 .. Len(longer)
      BY <1>7, <3>1
    <3> QED BY <1>9, <3>1, <3>2, <3>3 DEF ToSet
  <2>7. DOMAIN phases \subseteq DOMAIN stages
    BY <2>2, <2>3 DEF StagesInv
  <2> QED BY <1>10, <2>6, <2>7
<1>15. phases' \in [StagesOfJobs' -> {"pending", "running", "ended"}]
  <2>1. StagesOfJobs' = StagesOfJobs
    BY DEF StagesOfJobs
  <2> QED BY <2>1 DEF StagesInv
<1>16. DOMAIN phases' \ Ended' \subseteq DOMAIN stages'
  BY <1>2, <1>4, <1>10 DEF StagesInv
<1>17. app' \in Applications /\ DOMAIN jobs' \subseteq DOMAIN app'.jobs /\ IsFiniteSet(DOMAIN phases')
       /\ DOMAIN stages' \subseteq DOMAIN phases'
  BY <1>4, <1>10 DEF StagesInv
<1> QED BY <1>13, <1>14, <1>15, <1>16, <1>17 DEF StagesInv

(* A completed stage joins the list and may push others out.               *)
LEMMA StageCompletedNext ==
    ASSUME StagesInv, Spark!StageCompleted
    PROVE  StagesInv'
<1>1. PICK s \in DOMAIN phases, which \in {"completed", "failed"}, d \in app.durations :
         LET kept == Spark!Trimmed(ended[which], <<s>>)
         IN  /\ Spark!Progress
             /\ phases[s] = "running"
             /\ phases' = [phases EXCEPT ![s] = "ended"]
             /\ ended' = [ended EXCEPT ![which] = kept]
             /\ stages' = Spark!Without(Spark!With(stages, s, [Spark!StageOf(s) EXCEPT !.duration = d]),
                                        Spark!Dropped(ended[which], <<s>>, kept))
             /\ UNCHANGED jobs
  BY DEF Spark!StageCompleted
<1> DEFINE gone == Spark!Dropped(ended[which], <<s>>, Spark!Trimmed(ended[which], <<s>>))
<1>2. app' = app /\ which \in Lists /\ jobs' = jobs
  BY <1>1 DEF Spark!Progress, Lists
<1>3. s \notin Ended /\ s \in DOMAIN stages
  <2>1. s \notin Ended
    BY <1>1 DEF Ended
  <2> QED BY <2>1 DEF StagesInv
<1>4. <<s>> \in Seq(DOMAIN phases \ Ended) /\ NoRepeats(<<s>>) /\ ToSet(<<s>>) = {s}
  <2>1. <<s>> \in Seq(DOMAIN phases \ Ended) /\ DOMAIN <<s>> = {1} /\ <<s>>[1] = s
    BY <1>3
  <2> QED BY <2>1 DEF NoRepeats, ToSet
<1>5. phases' = [x \in DOMAIN phases |-> IF x \in ToSet(<<s>>) THEN "ended" ELSE phases[x]]
  BY <1>1, <1>4 DEF StagesInv
<1>6. DOMAIN stages' = DOMAIN stages \ gone
  <2> DEFINE more == Spark!With(stages, s, [Spark!StageOf(s) EXCEPT !.duration = d])
  <2>1. DOMAIN more = DOMAIN stages
    BY <1>3 DEF Spark!With, Spark!Over
  <2> HIDE DEF more, gone
  <2>2. stages' = Spark!Without(more, gone)
    BY <1>1 DEF more, gone
  <2> QED BY <2>1, <2>2, SameOperators DEF Spark!Without
<1>7. \A j \in DOMAIN jobs' : jobs'[j] \in JobEntries
  BY <1>2 DEF StagesInv
<1>8. ended' = [ended EXCEPT ![which] = Spark!Trimmed(ended[which], <<s>>)]
  BY <1>1
<1> QED BY <1>2, <1>4, <1>5, <1>6, <1>7, <1>8, EndedNext

(* A job ends with all its stages, some of them perhaps forgotten.         *)
LEMMA JobEndNext ==
    ASSUME StagesInv, Spark!JobEnd
    PROVE  StagesInv'
<1>1. PICK j \in DOMAIN jobs, state \in {"completed", "failed"} :
         /\ Spark!Progress
         /\ jobs' = [jobs EXCEPT ![j].state = state]
         /\ \E skipped \in Spark!SetToSeqs({s \in app.jobs[j] : phases[s] = "pending"}) :
               LET kept == Spark!Trimmed(ended.skipped, skipped)
               IN  /\ ended' = [ended EXCEPT !.skipped = kept]
                   /\ stages' = Spark!Without(stages, Spark!Dropped(ended.skipped, skipped, kept))
                   /\ phases' = [s \in DOMAIN phases |->
                                    IF s \in Spark!ToSet(skipped) THEN "ended" ELSE phases[s]]
  BY DEF Spark!JobEnd
<1> DEFINE pending == {s \in app.jobs[j] : phases[s] = "pending"}
<1>2. PICK skipped \in SetToSeqs(pending) :
         /\ ended' = [ended EXCEPT !["skipped"] = Spark!Trimmed(ended["skipped"], skipped)]
         /\ stages' = Spark!Without(stages, Spark!Dropped(ended["skipped"], skipped,
                                                          Spark!Trimmed(ended["skipped"], skipped)))
         /\ phases' = [s \in DOMAIN phases |->
                          IF s \in ToSet(skipped) THEN "ended" ELSE phases[s]]
  <2>1. Spark!SetToSeqs(pending) = SetToSeqs(pending)
    BY SameOperators
  <2>2. \A list : Spark!ToSet(list) = ToSet(list)
    BY SameOperators
  <2> QED BY <1>1, <2>1, <2>2
<1>3. pending \subseteq DOMAIN phases \ Ended /\ IsFiniteSet(pending)
  <2>1. pending \subseteq DOMAIN phases
    BY DEF StagesInv, StagesOfJobs
  <2>2. IsFiniteSet(DOMAIN phases)
    BY DEF StagesInv
  <2>3. \A s \in pending : s \notin Ended
    BY DEF Ended
  <2> HIDE DEF pending
  <2> QED BY <2>1, <2>2, <2>3, FS_Subset
<1>4. skipped \in Seq(DOMAIN phases \ Ended) /\ NoRepeats(skipped)
  <2> HIDE DEF pending
  <2>1. /\ Cardinality(pending) \in Nat
        /\ skipped \in [1 .. Cardinality(pending) -> pending]
        /\ \A i, k \in DOMAIN skipped : skipped[i] = skipped[k] => i = k
    <3>1. /\ Cardinality(pending) \in Nat
          /\ DOMAIN skipped = 1 .. Cardinality(pending)
          /\ \A i \in DOMAIN skipped : skipped[i] \in pending
          /\ \A i, k \in DOMAIN skipped : skipped[i] = skipped[k] => i = k
      BY ONLY <1>3, skipped \in SetToSeqs(pending), Listing
    <3>2. skipped \in [1 .. Cardinality(pending) -> pending]
      BY DEF SetToSeqs
    <3> QED BY <3>1, <3>2
  <2>2. skipped \in [1 .. Cardinality(pending) -> DOMAIN phases \ Ended]
    BY <1>3, <2>1
  <2> QED BY <2>1, <2>2 DEF NoRepeats
<1>5. app' = app /\ "skipped" \in Lists
  BY <1>1 DEF Spark!Progress, Lists
<1>6. DOMAIN jobs' = DOMAIN jobs /\ \A x \in DOMAIN jobs' : jobs'[x] \in JobEntries
  <2>1. \A x \in DOMAIN jobs : jobs[x] \in JobEntries
    BY DEF StagesInv
  <2>2. [jobs[j] EXCEPT !.state = state] \in JobEntries
    BY <2>1 DEF JobEntries
  <2>3. DOMAIN jobs' = DOMAIN jobs
    BY <1>1
  <2>4. \A x \in DOMAIN jobs : jobs'[x] = IF x = j THEN [jobs[j] EXCEPT !.state = state] ELSE jobs[x]
    BY <1>1
  <2> QED BY <2>1, <2>2, <2>3, <2>4
<1>7. DOMAIN stages' = DOMAIN stages
        \ Spark!Dropped(ended["skipped"], skipped, Spark!Trimmed(ended["skipped"], skipped))
  BY <1>2, SameOperators DEF Spark!Without
<1> QED BY <1>2, <1>4, <1>5, <1>6, <1>7, EndedNext

(* Steps that end no stage.                                                *)
LEMMA StagesFrame ==
    ASSUME StagesInv, app' = app, phases' = phases, ended' = ended,
           DOMAIN jobs' = DOMAIN jobs, \A j \in DOMAIN jobs' : jobs'[j] \in JobEntries,
           DOMAIN stages \subseteq DOMAIN stages', DOMAIN stages' \subseteq DOMAIN phases
    PROVE  StagesInv'
<1>1. Ended' = Ended /\ StagesOfJobs' = StagesOfJobs
  BY DEF Ended, StagesOfJobs
<1>2. ListsOfEnded'
  <2>1. \A which \in Lists : ended[which] \in Seq(Ended \cap DOMAIN stages')
    <3> SUFFICES ASSUME NEW which \in Lists PROVE ended[which] \in Seq(Ended \cap DOMAIN stages')
      OBVIOUS
    <3>1. ended[which] \in Seq(Ended \cap DOMAIN stages)
      BY DEF StagesInv, ListsOfEnded
    <3>2. \A i \in 1 .. Len(ended[which]) : ended[which][i] \in Ended \cap DOMAIN stages'
      BY <3>1
    <3> QED BY <3>1, <3>2, ListOf
  <2> QED BY <1>1, <2>1 DEF StagesInv, ListsOfEnded
<1> QED BY <1>1, <1>2 DEF StagesInv

(* A job that starts has counted no tasks and ended no stage.              *)
LEMMA JobStartNext ==
    ASSUME StagesInv, Spark!JobStart
    PROVE  StagesInv'
<1>1. PICK j \in DOMAIN app.jobs \ DOMAIN jobs :
         /\ app' = app /\ ended' = ended
         /\ jobs' = Spark!With(jobs, j, [state |-> "running", completed |-> 0, failed |-> 0])
         /\ stages' = Spark!Over(stages, [s \in app.jobs[j] |-> Spark!NoTasks])
         /\ phases' = Spark!Over(phases, [s \in app.jobs[j] |-> "pending"])
  BY DEF Spark!JobStart, Spark!Progress
<1>2. DOMAIN jobs' = DOMAIN jobs \cup {j} /\ \A x \in DOMAIN jobs' : jobs'[x] \in JobEntries
  <2>1. [state |-> "running", completed |-> 0, failed |-> 0] \in JobEntries
    BY DEF JobEntries
  <2>2. /\ DOMAIN jobs' = DOMAIN jobs \cup {j}
        /\ \A x \in DOMAIN jobs' :
              jobs'[x] = IF x = j THEN [state |-> "running", completed |-> 0, failed |-> 0]
                         ELSE jobs[x]
    BY <1>1 DEF Spark!With, Spark!Over
  <2> QED BY <2>1, <2>2 DEF StagesInv
<1>3. /\ DOMAIN stages' = DOMAIN stages \cup app.jobs[j]
      /\ DOMAIN phases' = DOMAIN phases \cup app.jobs[j]
      /\ \A s \in DOMAIN phases' : phases'[s] = IF s \in DOMAIN phases THEN phases[s] ELSE "pending"
      /\ phases' = [s \in DOMAIN phases' |-> phases'[s]]
  BY <1>1 DEF Spark!Over
<1>4. Ended' = Ended /\ Ended \subseteq DOMAIN phases
  BY <1>3 DEF Ended
<1>5. StagesOfJobs' = StagesOfJobs \cup app.jobs[j]
  BY <1>1, <1>2 DEF StagesOfJobs
<1>6. phases' \in [StagesOfJobs' -> {"pending", "running", "ended"}]
  BY <1>3, <1>5 DEF StagesInv
<1>7. IsFiniteSet(DOMAIN phases')
  <2>1. IsFiniteSet(app.jobs[j])
    BY JobAssumption, SameOperators DEF StagesInv, Spark!SparkAssumption
  <2>2. IsFiniteSet(DOMAIN phases)
    BY DEF StagesInv
  <2>3. IsFiniteSet(DOMAIN phases \cup app.jobs[j])
    BY ONLY <2>1, <2>2, FS_Union
  <2> QED BY <1>3, <2>3
<1>8. ListsOfEnded'
  <2>1. \A which \in Lists : ended[which] \in Seq(Ended \cap DOMAIN stages')
    <3> SUFFICES ASSUME NEW which \in Lists PROVE ended[which] \in Seq(Ended \cap DOMAIN stages')
      OBVIOUS
    <3>1. ended[which] \in Seq(Ended \cap DOMAIN stages)
      BY DEF StagesInv, ListsOfEnded
    <3>2. \A i \in 1 .. Len(ended[which]) : ended[which][i] \in Ended \cap DOMAIN stages'
      BY <1>3, <3>1
    <3> QED BY <3>1, <3>2, ListOf
  <2> QED BY <1>1, <1>4, <2>1 DEF StagesInv, ListsOfEnded
<1>9. /\ app' \in Applications /\ DOMAIN jobs' \subseteq DOMAIN app'.jobs
      /\ DOMAIN stages' \subseteq DOMAIN phases' /\ DOMAIN phases' \ Ended' \subseteq DOMAIN stages'
      /\ Cardinality(Ended') <= RetainedStages => DOMAIN phases' \subseteq DOMAIN stages'
  BY <1>1, <1>2, <1>3, <1>4 DEF StagesInv
<1> QED BY <1>2, <1>6, <1>7, <1>8, <1>9 DEF StagesInv

(* A task that ends is counted for the running job of its stage.           *)
LEMMA TaskCountedNext ==
    ASSUME StagesInv, Spark!TaskEnd
    PROVE  StagesInv'
<1>1. PICK task \in app.tasks :
         /\ task.stage \in DOMAIN phases
         /\ app' = app /\ ended' = ended /\ phases' = phases
         /\ DOMAIN stages' = DOMAIN stages \cup {task.stage}
         /\ jobs' = [j \in DOMAIN jobs |->
                        IF jobs[j].state = "running" /\ task.stage \in app.jobs[j]
                        THEN Spark!Counted(jobs[j], task.ok) ELSE jobs[j]]
  <2>1. \A event : Spark!Replay(event) => app' = app /\ ended' = ended /\ phases' = phases
    BY DEF Spark!Replay
  <2>2. \A x, value : DOMAIN Spark!With(stages, x, value) = DOMAIN stages \cup {x}
    BY DEF Spark!With, Spark!Over
  <2>3. PICK task \in app.tasks : \E event, value :
           /\ task.stage \in DOMAIN phases
           /\ Spark!Replay(event)
           /\ stages' = Spark!With(stages, task.stage, value)
           /\ jobs' = [j \in DOMAIN jobs |->
                          IF jobs[j].state = "running" /\ task.stage \in app.jobs[j]
                          THEN Spark!Counted(jobs[j], task.ok) ELSE jobs[j]]
    BY Zenon DEF Spark!TaskEnd
  <2>4. PICK event : Spark!Replay(event)
    BY <2>3
  <2>5. app' = app /\ ended' = ended /\ phases' = phases
    BY <2>1, <2>4
  <2>6. DOMAIN stages' = DOMAIN stages \cup {task.stage}
    BY <2>2, <2>3
  <2> QED BY <2>3, <2>5, <2>6
<1>2. ASSUME NEW j \in DOMAIN jobs PROVE Spark!Counted(jobs[j], task.ok) \in JobEntries
  <2>1. jobs[j] \in JobEntries
    BY DEF StagesInv
  <2>2. /\ jobs[j].completed + (IF task.ok THEN 1 ELSE 0) \in Nat
        /\ jobs[j].failed + (IF task.ok THEN 0 ELSE 1) \in Nat
    BY <2>1 DEF JobEntries
  <2> QED BY <2>1, <2>2 DEF JobEntries, Spark!Counted
<1>3. DOMAIN jobs' = DOMAIN jobs /\ \A j \in DOMAIN jobs' : jobs'[j] \in JobEntries
  BY <1>1, <1>2 DEF StagesInv
<1>4. DOMAIN stages \subseteq DOMAIN stages' /\ DOMAIN stages' \subseteq DOMAIN phases
  BY <1>1 DEF StagesInv
<1> QED BY <1>1, <1>3, <1>4, StagesFrame

(* A stage that is submitted has not ended, so that no list changes.       *)
LEMMA StageSubmittedNext ==
    ASSUME StagesInv, Spark!StageSubmitted
    PROVE  StagesInv'
<1>1. PICK s :
         /\ app' = app /\ ended' = ended /\ jobs' = jobs /\ stages' = stages
         /\ phases[s] = "pending" /\ phases' = [phases EXCEPT ![s] = "running"]
  BY DEF Spark!StageSubmitted, Spark!Progress
<1>2. DOMAIN phases' = DOMAIN phases /\ Ended' = Ended /\ StagesOfJobs' = StagesOfJobs
  BY <1>1 DEF Ended, StagesOfJobs
<1>3. phases' \in [StagesOfJobs' -> {"pending", "running", "ended"}]
  BY <1>1, <1>2 DEF StagesInv
<1>4. ListsOfEnded'
  BY <1>1, <1>2 DEF StagesInv, ListsOfEnded
<1> QED BY <1>1, <1>2, <1>3, <1>4 DEF StagesInv

(* Each step of a Spark analysis keeps StagesInv.                          *)
LEMMA StagesNext ==
    ASSUME StagesInv, Spark!Next \/ UNCHANGED sparkState
    PROVE  StagesInv'
<1>1. CASE \/ Spark!BlockManagerAdded \/ Spark!BlockManagerRemoved \/ Spark!UnpersistRdd
           \/ Spark!OpenLog \/ Spark!FetchFails \/ Spark!ReplayEnds
           \/ Spark!NoDataReceived \/ Spark!RunHeuristics
           \/ UNCHANGED sparkState
  <2>1. \A event : Spark!Replay(event) => app' = app /\ ended' = ended /\ phases' = phases
    BY DEF Spark!Replay
  <2>2. UNCHANGED <<app, jobs, stages, ended, phases>>
    BY <1>1, <2>1 DEF Spark!BlockManagerAdded, Spark!BlockManagerRemoved, Spark!UnpersistRdd,
                Spark!OpenLog, Spark!FetchFails, Spark!ReplayEnds, Spark!NoDataReceived,
                Spark!RunHeuristics, Spark!replayed, sparkState
  <2>3. DOMAIN jobs' = DOMAIN jobs /\ \A j \in DOMAIN jobs' : jobs'[j] \in JobEntries
    BY <2>2 DEF StagesInv
  <2>4. DOMAIN stages \subseteq DOMAIN stages' /\ DOMAIN stages' \subseteq DOMAIN phases
    BY <2>2 DEF StagesInv
  <2> QED BY <2>2, <2>3, <2>4, StagesFrame
<1> QED BY <1>1, TaskCountedNext, JobStartNext, StageSubmittedNext, StageCompletedNext, JobEndNext
        DEF Spark!Next

-----------------------------------------------------------------------------
(* The heuristics for Spark.  Their severities are those of MapReduce.     *)
LEMMA SparkLevels ==
    /\ Spark!Severities = Severities /\ Spark!Throws = Throws
    /\ Spark!NotANumber = NotANumber /\ Spark!Absent = Absent
    /\ Spark!NONE = NONE /\ Spark!LOW = LOW /\ Spark!MODERATE = MODERATE
    /\ Spark!SEVERE = SEVERE /\ Spark!CRITICAL = CRITICAL
    /\ \A levels : Spark!Highest(levels) = Highest(levels)
    /\ \A value, limits : Spark!Ascending(value, limits) \in Severities
    /\ \A num, den, limits : Spark!RatioAscending(num, den, limits) = RatioAscending(num, den, limits)
    /\ \A num, den, limits : Spark!RatioAscending(num, den, limits) \in Severities
    /\ \A num, den, limits : Spark!RatioDescending(num, den, limits) \in Severities
    /\ \A s, t \in Severities : Spark!SeverityMax(s, t) \in Severities
<1>1. /\ Spark!Severities = Severities /\ Spark!Throws = Throws
      /\ Spark!NotANumber = NotANumber /\ Spark!Absent = Absent
      /\ Spark!NONE = NONE /\ Spark!LOW = LOW /\ Spark!MODERATE = MODERATE
      /\ Spark!SEVERE = SEVERE /\ Spark!CRITICAL = CRITICAL
  BY DEF Spark!Severities, Severities, Spark!Throws, Throws, Spark!NotANumber, NotANumber,
         Spark!Absent, Absent, Spark!NONE, NONE, Spark!LOW, LOW, Spark!MODERATE, MODERATE,
         Spark!SEVERE, SEVERE, Spark!CRITICAL, CRITICAL
<1>2. \A levels : Spark!Highest(levels) = Highest(levels)
  BY <1>1, SameOperators DEF Spark!Highest, Highest
<1>3. \A value, limits : Spark!Ascending(value, limits) = Ascending(value, limits)
  BY <1>2 DEF Spark!Ascending, Ascending
<1>4. \A num, den, limits : Spark!RatioAscending(num, den, limits) = RatioAscending(num, den, limits)
  BY <1>2 DEF Spark!RatioAscending, RatioAscending
<1>5. \A num, den, limits : Spark!RatioDescending(num, den, limits) = RatioDescending(num, den, limits)
  BY <1>2 DEF Spark!RatioDescending, RatioDescending
<1>6. \A s, t \in Severities : Spark!SeverityMax(s, t) \in Severities
  BY DEF Spark!SeverityMax
<1> QED BY <1>1, <1>2, <1>3, <1>4, <1>5, <1>6, Levels

(* What the heuristics yield; some throw on settings or stages.            *)
LEMMA SparkPlainSeverities ==
    /\ Spark!StageRuntime \in Severities
    /\ Spark!ExecutorLoad \in Severities
    /\ Spark!EventLogLimit \in Severities
    /\ Spark!JobRuntime \in Severities \cup {Throws}
    /\ Spark!BestProperties \in Severities \cup {Throws}
    /\ Spark!MemoryLimit \in Severities \cup {Throws}
<1>1. NONE \in Severities /\ MODERATE \in Severities /\ CRITICAL \in Severities
  BY DEF NONE, MODERATE, CRITICAL, Severities
<1>2. \A S : S \subseteq Severities => Spark!Highest(S) \in Severities
  BY SparkLevels, HighestLevel
<1>3. \A completed, failed, limits : Spark!FailureRate(completed, failed, limits) \in Severities
  BY SparkLevels DEF Spark!FailureRate
<1>4. \A values, limits : Spark!Deviation(values, limits) \in Severities
  BY Zenon, SparkLevels DEF Spark!Deviation
<1>5. Spark!StageRuntime \in Severities
  <2> DEFINE rate == Spark!FailureRate(Len(ended.completed), Len(ended.failed),
                                       Spark!Limits(<<"StageRuntime", "stage_failure">>))
             rates == {Spark!FailureRate(stages[s].completed, stages[s].failed,
                                         Spark!Limits(<<"StageRuntime", "single_stage">>)) :
                          s \in Spark!ToSet(ended.completed)}
             times == {Spark!Ascending(stages[s].duration,
                                       Spark!Limits(<<"StageRuntime", "runtime">>)) :
                          s \in Spark!ToSet(ended.completed)}
  <2>1. {rate} \cup rates \cup times \subseteq Severities
    BY <1>3, SparkLevels
  <2> QED BY <1>2, <2>1 DEF Spark!StageRuntime
<1>6. Spark!ExecutorLoad \in Severities
  <2>1. PICK a \in Severities, b \in Severities, c \in Severities, d \in Severities :
           Spark!ExecutorLoad = Spark!Highest({a, b, c, d})
    BY Zenon, <1>4 DEF Spark!ExecutorLoad
  <2> QED BY <1>2, <2>1
<1>7. Spark!EventLogLimit \in Severities
  BY <1>1, SparkLevels DEF Spark!EventLogLimit
<1>8. Spark!JobRuntime \in Severities \cup {Throws}
  <2> DEFINE rate == Spark!FailureRate(Spark!Cardinality(Spark!JobsIn("completed")),
                                       Spark!Cardinality(Spark!JobsIn("failed")),
                                       Spark!Limits(<<"JobRuntime", "avg_job">>))
             rates == {Spark!FailedTasks(j) : j \in Spark!JobsIn("completed")}
  <2>1. {rate} \cup rates \subseteq Severities
    BY <1>3 DEF Spark!FailedTasks
  <2>2. Spark!JobRuntime \in {Spark!Throws, Spark!Highest({rate} \cup rates)}
    BY DEF Spark!JobRuntime
  <2> HIDE DEF rate, rates
  <2> QED BY <1>2, <2>1, <2>2, SparkLevels
<1>9. Spark!BestProperties \in Severities \cup {Throws}
  <2> DEFINE env == Spark!Environment
             cores == IF env.cores = Spark!Absent THEN 1 ELSE env.cores
             driver == Spark!Ascending(Spark!Given(env.driverMemory) * Parts,
                                       Spark!Limits(<<"BestProperties", "driver_memory">>))
  <2>1. driver \in Severities
    BY SparkLevels
  <2> HIDE DEF driver
  <2>2. Spark!BestProperties \in
           {Spark!Throws, Spark!Highest({IF "other" \in {env.serializer, env.shuffle}
                                         THEN Spark!MODERATE ELSE Spark!NONE,
                                         IF cores > CoreLimit THEN Spark!CRITICAL ELSE Spark!NONE,
                                         driver})}
    BY DEF Spark!BestProperties, driver
  <2>3. Spark!Highest({IF "other" \in {env.serializer, env.shuffle}
                       THEN Spark!MODERATE ELSE Spark!NONE,
                       IF cores > CoreLimit THEN Spark!CRITICAL ELSE Spark!NONE,
                       driver}) \in Severities
    BY <1>1, <1>2, <2>1, SparkLevels
  <2> QED BY <2>2, <2>3, SparkLevels
<1>10. Spark!MemoryLimit \in Severities \cup {Throws}
  <2>1. \E s, t \in Severities : Spark!MemoryLimit \in {Spark!Throws, Spark!SeverityMax(s, t)}
    <3> DEFINE total(allocated) == Spark!Ascending(allocated * Parts,
                                                   Spark!Limits(<<"MemoryLimit", "total_mem">>))
               part(used, storage) == IF storage < LargeStorage THEN Spark!NONE
                                      ELSE Spark!RatioDescending(used, storage,
                                              Spark!Limits(<<"MemoryLimit", "mem_util">>))
    <3>1. \A allocated : total(allocated) \in Severities
      BY SparkLevels
    <3>2. \A used, storage : part(used, storage) \in Severities
      BY <1>1, SparkLevels
    <3>3. \E allocated, used, storage :
             Spark!MemoryLimit \in {Spark!Throws, Spark!SeverityMax(total(allocated), part(used, storage))}
      BY Zenon DEF Spark!MemoryLimit
    <3> HIDE DEF total, part
    <3> QED BY <3>1, <3>2, <3>3
  <2> QED BY <2>1, SparkLevels
<1> QED BY <1>5, <1>6, <1>7, <1>8, <1>9, <1>10

(* The names of jobs are those of their last stages.                       *)
LEMMA NamesKnown ==
    ASSUME StagesInv, NEW j \in DOMAIN jobs, ~Spark!HasName(j)
    PROVE  Cardinality(Ended) > RetainedStages
<1>1. app.jobs[j] # {} /\ Spark!Max(app.jobs[j]) \notin DOMAIN stages
  BY DEF Spark!HasName
<1>2. IsFiniteSet(app.jobs[j]) /\ app.jobs[j] \in SUBSET Nat
  BY JobAssumption, SameOperators DEF StagesInv, Spark!SparkAssumption
<1>3. Max(app.jobs[j]) \in app.jobs[j]
  BY <1>1, <1>2, Extremes
<1>4. Max(app.jobs[j]) \in DOMAIN phases \ DOMAIN stages
  <2>1. Spark!Max(app.jobs[j]) = Max(app.jobs[j])
    BY SameOperators
  <2> QED BY <1>1, <1>3, <2>1 DEF StagesInv, StagesOfJobs
<1>5. ~(Cardinality(Ended) <= RetainedStages)
  BY <1>4 DEF StagesInv
<1>6. Cardinality(Ended) \in Nat /\ RetainedStages \in Nat
  <2>1. IsFiniteSet(DOMAIN phases) /\ Ended \subseteq DOMAIN phases
    BY DEF StagesInv, Ended
  <2>2. IsFiniteSet(Ended)
    BY ONLY <2>1, FS_Subset
  <2> QED BY <2>2, FS_CardinalityType, JobAssumption DEF Spark!SparkAssumption
<1> QED BY <1>5, <1>6

(* A job of which no task failed is not described.                         *)
LEMMA DescribedFailed ==
    ASSUME StagesInv, SparkConfigured, NEW j \in Spark!Described
    PROVE  j \in DOMAIN jobs /\ (jobs[j].state = "failed" \/ jobs[j].failed > 0)
<1>1. j \in DOMAIN jobs
  BY DEF Spark!Described, Spark!JobsIn
<1>2. jobs[j].completed \in Nat /\ jobs[j].failed \in Nat
  BY <1>1 DEF StagesInv, JobEntries
<1>3. CASE Spark!FailedTasks(j) > Spark!MODERATE /\ jobs[j].failed = 0
  <2> DEFINE limits == Spark!Limits(<<"JobRuntime", "single_job">>)
             den == IF jobs[j].completed + jobs[j].failed = 0 THEN 1
                    ELSE jobs[j].completed + jobs[j].failed
             levels == {l \in 1 .. 4 : 0 * Parts >= limits[l] * den}
  <2>1. den \in Nat \ {0}
    BY <1>2
  <2>2. Spark!FailedTasks(j) = RatioAscending(0, den, limits)
    BY <1>3, SparkLevels DEF Spark!FailedTasks, Spark!FailureRate
  <2> HIDE DEF limits, den
  <2>3. RatioAscending(0, den, limits) = Highest(levels)
    BY <2>1 DEF RatioAscending
  <2>4. levels \in SUBSET (1 .. 4)
    OBVIOUS
  <2>5. \A l \in levels : l <= 2
    <3> SUFFICES ASSUME NEW l \in 3 .. 4, 0 * Parts >= limits[l] * den PROVE FALSE
      OBVIOUS
    <3>1. limits[l] \in Nat \ {0}
      BY DEF SparkConfigured, limits
    <3>2. 0 * Parts = 0
      BY HeuristicsAssumption
    <3>3. limits[l] * den >= 1
      BY <2>1, <3>1
    <3>4. limits[l] * den \in Nat
      BY <2>1, <3>1
    <3> QED BY <3>2, <3>3, <3>4
  <2> HIDE DEF levels
  <2>6. Highest(levels) \in {NONE} \cup levels
    BY <2>4, HighestLevel DEF Severities, NONE, CRITICAL
  <2>7. Highest(levels) <= 2
    BY <2>5, <2>6 DEF NONE
  <2>8. Spark!FailedTasks(j) \in Severities
    BY <2>2, Levels
  <2> QED BY <1>3, <2>2, <2>3, <2>7, <2>8, SparkLevels DEF MODERATE, Severities, NONE, CRITICAL
<1>4. jobs[j].state = "failed" \/ Spark!FailedTasks(j) > Spark!MODERATE
  BY DEF Spark!Described, Spark!JobsIn
<1> QED BY <1>1, <1>2, <1>3, <1>4

(* What a heuristic for Spark says, and when it throws.                    *)
LEMMA WhyItThrowsOnSpark ==
    ASSUME SparkInv, sparkPc = "heuristics", NEW h \in Spark!SparkHeuristicNames
    PROVE  /\ Spark!SparkSeverity(h) \in Severities \cup {Throws}
           /\ Spark!SparkSeverity(h) = Throws => ~throttled /\ (SparkConfigured => WhySparkThrows)
           /\ throttled /\ h = "EventLogLimit" => Spark!SparkSeverity(h) = CRITICAL
<1>1. Throws \notin Severities
  BY DEF Throws, Severities, NONE, CRITICAL
<1>2. NotANumber # Absent /\ Spark!NotANumber = NotANumber /\ Spark!Absent = Absent /\ Spark!Throws = Throws
  BY SparkLevels DEF NotANumber, Absent
<1>3. throttled => /\ Spark!Environment = Spark!NoEnvironment /\ Spark!Executors = {}
                   /\ DOMAIN jobs = {}
  BY DEF SparkInv, Spark!Environment, Spark!Executors
<1>4. ~throttled => Spark!Environment = app.env
  BY DEF Spark!Environment
<1>5. ASSUME Spark!BestProperties = Throws
      PROVE  ~throttled /\ (SparkConfigured => WhySparkThrows)
  <2>1. NotANumber \in {Spark!Environment.cores, Spark!Environment.driverMemory}
    <3> DEFINE env == Spark!Environment
               levels == {IF "other" \in {env.serializer, env.shuffle}
                          THEN Spark!MODERATE ELSE Spark!NONE,
                          IF (IF env.cores = Spark!Absent THEN 1 ELSE env.cores) > CoreLimit
                          THEN Spark!CRITICAL ELSE Spark!NONE,
                          Spark!Ascending(Spark!Given(env.driverMemory) * Parts,
                                          Spark!Limits(<<"BestProperties", "driver_memory">>))}
    <3>1. levels \subseteq Severities
      BY SparkLevels DEF NONE, MODERATE, CRITICAL, Severities
    <3>2. Spark!BestProperties = IF Spark!NotANumber \in {env.cores, env.driverMemory} THEN Spark!Throws
                                 ELSE Spark!Highest(levels)
      BY DEF Spark!BestProperties
    <3> HIDE DEF levels
    <3>3. Spark!Highest(levels) # Throws
      BY <1>1, <3>1, SparkLevels, HighestLevel
    <3> QED BY <1>2, <1>5, <3>2, <3>3
  <2> QED BY <1>2, <1>3, <1>4, <2>1 DEF Spark!NoEnvironment, WhySparkThrows
<1>6. ASSUME Spark!MemoryLimit = Throws
      PROVE  ~throttled /\ (SparkConfigured => WhySparkThrows)
  <2> DEFINE env == Spark!Environment
             guessed == Spark!Given(env.driverMemory) = 0 /\ Driver \in Spark!Executors
  <2>1. \/ NotANumber \in {env.instances, env.executorMemory, env.driverMemory}
        \/ guessed /\ env.fraction = NotANumber
    <3> DEFINE total(allocated) == Spark!Ascending(allocated * Parts,
                                                   Spark!Limits(<<"MemoryLimit", "total_mem">>))
               part(used, storage) == IF storage < LargeStorage THEN Spark!NONE
                                      ELSE Spark!RatioDescending(used, storage,
                                              Spark!Limits(<<"MemoryLimit", "mem_util">>))
    <3>1. \A allocated : total(allocated) \in Severities
      BY SparkLevels
    <3>2. \A used, storage : part(used, storage) \in Severities
      BY SparkLevels DEF NONE, CRITICAL, Severities
    <3>3. \E allocated, used, storage :
             Spark!MemoryLimit = IF \/ Spark!NotANumber \in {env.instances, env.executorMemory, env.driverMemory}
                                    \/ guessed /\ env.fraction = Spark!NotANumber
                                 THEN Spark!Throws
                                 ELSE Spark!SeverityMax(total(allocated), part(used, storage))
      BY Zenon DEF Spark!MemoryLimit
    <3> HIDE DEF total, part, guessed, env
    <3> QED BY <1>1, <1>2, <1>6, <3>1, <3>2, <3>3, SparkLevels
  <2> QED BY <1>2, <1>3, <1>4, <2>1 DEF Spark!NoEnvironment, WhySparkThrows
<1>7. ASSUME Spark!JobRuntime = Throws
      PROVE  ~throttled /\ (SparkConfigured => WhySparkThrows)
  <2>1. PICK j \in Spark!Described : ~Spark!HasName(j)
    <3> DEFINE levels == {Spark!FailureRate(Spark!Cardinality(Spark!JobsIn("completed")),
                                            Spark!Cardinality(Spark!JobsIn("failed")),
                                            Spark!Limits(<<"JobRuntime", "avg_job">>))}
                         \cup {Spark!FailedTasks(j) : j \in Spark!JobsIn("completed")}
    <3>1. levels \subseteq Severities
      BY SparkLevels DEF Spark!FailedTasks, Spark!FailureRate
    <3>2. Spark!JobRuntime = IF \E j \in Spark!Described : ~Spark!HasName(j) THEN Spark!Throws
                             ELSE Spark!Highest(levels)
      BY DEF Spark!JobRuntime
    <3> HIDE DEF levels
    <3>3. Spark!Highest(levels) # Throws
      BY <1>1, <3>1, SparkLevels, HighestLevel
    <3> QED BY <1>7, <3>2, <3>3
  <2>2. StagesInv
    BY DEF SparkInv
  <2>3. /\ j \in DOMAIN jobs
        /\ SparkConfigured => jobs[j].state = "failed" \/ jobs[j].failed > 0
    BY <2>2, DescribedFailed DEF Spark!Described, Spark!JobsIn
  <2>4. Cardinality(Ended) > RetainedStages
    BY <2>1, <2>2, <2>3, NamesKnown
  <2> QED BY <1>3, <2>3, <2>4 DEF WhySparkThrows
<1>8. Spark!SparkSeverity(h) =
         CASE h = "BestProperties" -> Spark!BestProperties
           [] h = "MemoryLimit" -> Spark!MemoryLimit
           [] h = "StageRuntime" -> Spark!StageRuntime
           [] h = "JobRuntime" -> Spark!JobRuntime
           [] h = "ExecutorLoad" -> Spark!ExecutorLoad
           [] h = "EventLogLimit" -> Spark!EventLogLimit
  BY DEF Spark!SparkSeverity
<1>9. h \in {"BestProperties", "MemoryLimit", "StageRuntime", "JobRuntime", "ExecutorLoad",
             "EventLogLimit"}
  BY DEF Spark!SparkHeuristicNames
<1>10. throttled => Spark!EventLogLimit = CRITICAL
  BY SparkLevels DEF Spark!EventLogLimit
<1> QED BY <1>1, <1>5, <1>6, <1>7, <1>8, <1>9, <1>10, SparkPlainSeverities

(* Nothing is read and no list has a stage at first.                       *)
LEMMA SparkInit == JobInit => SparkInv
<1> SUFFICES ASSUME JobInit PROVE SparkInv
  OBVIOUS
<1>1. /\ app \in Applications /\ sparkPc = "open" /\ throttled = FALSE
      /\ DOMAIN status = {} /\ DOMAIN jobs = {} /\ DOMAIN stages = {}
      /\ phases = <<>> /\ DOMAIN phases = {}
      /\ ended = [completed |-> <<>>, failed |-> <<>>, skipped |-> <<>>]
      /\ sparkResults = <<>> /\ DOMAIN sparkResults = {}
      /\ row = [severity |-> Spark!NONE, score |-> 0]
      /\ appType \in {"MAPREDUCE", "SPARK"}
  BY DEF JobInit, Spark!Init, Spark!None
<1>2. Ended = {} /\ StagesOfJobs = {}
  BY <1>1 DEF Ended, StagesOfJobs
<1>3. ListsOfEnded
  <2>1. DOMAIN ended = Lists /\ \A which \in Lists : ended[which] = <<>>
    BY <1>1 DEF Lists
  <2>2. <<>> \in Seq(Ended \cap DOMAIN stages) /\ Len(<<>>) = 0 /\ DOMAIN <<>> = {}
    OBVIOUS
  <2>3. RetainedStages \in Nat
    BY JobAssumption DEF Spark!SparkAssumption
  <2>4. NoRepeats(<<>>) /\ ToSet(<<>>) = {}
    BY <2>2 DEF NoRepeats, ToSet
  <2>5. \A which \in Lists :
           /\ ended[which] \in Seq(Ended \cap DOMAIN stages) /\ NoRepeats(ended[which])
           /\ Len(ended[which]) <= RetainedStages /\ ToSet(ended[which]) = {}
    <3> HIDE DEF Lists
    <3> SUFFICES ASSUME NEW which \in Lists
                 PROVE  /\ <<>> \in Seq(Ended \cap DOMAIN stages) /\ NoRepeats(<<>>)
                        /\ Len(<<>>) <= RetainedStages /\ ToSet(<<>>) = {}
      BY <2>1
    <3> QED BY <2>2, <2>3, <2>4
  <2> QED BY <2>1, <2>5 DEF ListsOfEnded
<1>4. StagesInv
  <2>1. phases \in [StagesOfJobs -> {"pending", "running", "ended"}]
    BY <1>1, <1>2
  <2>2. IsFiniteSet(DOMAIN phases)
    BY <1>1, FS_EmptySet
  <2> QED BY <1>1, <1>2, <1>3, <2>1, <2>2 DEF StagesInv
<1>5. row.severity \in Severities /\ row.score \in Nat
  BY <1>1, SparkLevels DEF NONE, Severities, CRITICAL
<1>6. throttled \in BOOLEAN /\ ~throttled
  BY ONLY <1>1
<1> QED BY <1>1, <1>4, <1>5, <1>6 DEF SparkInv

(* What is recorded has a severity.                                        *)
LEMMA RecordedNext ==
    ASSUME NEW reports, \A i \in DOMAIN reports : reports[i].severity \in Severities,
           Spark!Recorded(reports)
    PROVE  /\ \A i \in DOMAIN sparkResults' : sparkResults'[i].severity \in Severities
           /\ row'.severity \in Severities /\ row'.score \in Nat
           /\ \A i \in DOMAIN reports : reports[i].severity <= row'.severity
           /\ sparkPc' = "done"
<1> DEFINE levels == {reports[i].severity : i \in DOMAIN reports}
<1>1. levels \in SUBSET Severities
  OBVIOUS
<1>2. row' = [severity |-> Spark!Highest(levels), score |-> 0] /\ sparkResults' = reports /\ sparkPc' = "done"
  BY DEF Spark!Recorded
<1>3. \A i \in DOMAIN reports : reports[i].severity \in levels
  OBVIOUS
<1> HIDE DEF levels
<1>4. Highest(levels) \in Severities /\ \A l \in levels : l <= Highest(levels)
  BY <1>1, HighestLevel
<1>5. row'.severity = Highest(levels) /\ row'.score = 0
  BY <1>2, SparkLevels
<1> QED BY <1>2, <1>3, <1>4, <1>5

(* The heuristics end the analysis with a row or for a known cause.        *)
LEMMA RunHeuristicsNext ==
    ASSUME SparkInv, Spark!RunHeuristics, appType' = appType
    PROVE  SparkInv'
<1> DEFINE reports == [i \in DOMAIN SparkHeuristics |->
                          Spark!Report(SparkHeuristics[i], Spark!SparkSeverity(SparkHeuristics[i]))]
<1>1. /\ sparkPc = "heuristics"
      /\ IF \E i \in DOMAIN reports : reports[i].severity = Spark!Throws
         THEN sparkPc' = "thrown" /\ UNCHANGED <<sparkResults, row>>
         ELSE Spark!Recorded(reports)
      /\ UNCHANGED <<app, throttled, log, status, peak, work, jobs, stages, ended, phases>>
  BY DEF Spark!RunHeuristics, Spark!replayed
<1>2. StagesInv'
  <2>1. DOMAIN jobs' = DOMAIN jobs /\ \A j \in DOMAIN jobs' : jobs'[j] \in JobEntries
    BY <1>1 DEF SparkInv, StagesInv
  <2> QED BY <1>1, <2>1, StagesFrame DEF SparkInv, StagesInv
<1>3. \A i \in DOMAIN SparkHeuristics : SparkHeuristics[i] \in Spark!SparkHeuristicNames
  BY JobAssumption DEF Spark!SparkAssumption
<1>4. \A i \in DOMAIN reports :
         /\ reports[i].severity = Spark!SparkSeverity(SparkHeuristics[i])
         /\ reports[i].severity \in Severities \cup {Throws}
         /\ reports[i].severity = Throws => ~throttled /\ (SparkConfigured => WhySparkThrows)
         /\ throttled /\ SparkHeuristics[i] = "EventLogLimit" => reports[i].severity = CRITICAL
  <2> SUFFICES ASSUME NEW i \in DOMAIN SparkHeuristics
               PROVE  /\ reports[i].severity = Spark!SparkSeverity(SparkHeuristics[i])
                      /\ reports[i].severity \in Severities \cup {Throws}
                      /\ reports[i].severity = Throws => ~throttled /\ (SparkConfigured => WhySparkThrows)
                      /\ throttled /\ SparkHeuristics[i] = "EventLogLimit" => reports[i].severity = CRITICAL
    OBVIOUS
  <2>1. reports[i].severity = Spark!SparkSeverity(SparkHeuristics[i])
    BY DEF Spark!Report
  <2> HIDE DEF reports
  <2> QED BY <1>1, <1>3, <2>1, WhyItThrowsOnSpark
<1>5. DOMAIN reports = DOMAIN SparkHeuristics
  OBVIOUS
<1> HIDE DEF reports
<1>6. CASE \E i \in DOMAIN reports : reports[i].severity = Throws
  <2>1. sparkPc' = "thrown" /\ UNCHANGED <<sparkResults, row>>
    BY <1>1, <1>6, SparkLevels
  <2>2. ~throttled /\ (SparkConfigured => WhySparkThrows)
    BY <1>4, <1>6
  <2>3. WhySparkThrows' <=> WhySparkThrows
    BY <1>1 DEF WhySparkThrows, Ended
  <2>4. appType = "MAPREDUCE" => FALSE
    BY <1>1 DEF SparkInv
  <2> QED BY <1>1, <1>2, <2>1, <2>2, <2>3, <2>4 DEF SparkInv
<1>7. CASE ~(\E i \in DOMAIN reports : reports[i].severity = Throws)
  <2>1. Spark!Recorded(reports)
    BY <1>1, <1>7, SparkLevels
  <2>2. \A i \in DOMAIN reports : reports[i].severity \in Severities
    BY <1>4, <1>7
  <2>3. /\ \A i \in DOMAIN sparkResults' : sparkResults'[i].severity \in Severities
        /\ row'.severity \in Severities /\ row'.score \in Nat
        /\ \A i \in DOMAIN reports : reports[i].severity <= row'.severity
        /\ sparkPc' = "done"
    BY <2>1, <2>2, RecordedNext
  <2>4. SparkConfigured /\ throttled => row'.severity = CRITICAL
    <3> SUFFICES ASSUME SparkConfigured PROVE throttled => row'.severity = CRITICAL
      OBVIOUS
    <3>1. PICK i \in DOMAIN SparkHeuristics : SparkHeuristics[i] = "EventLogLimit"
      BY DEF SparkConfigured, ToSet
    <3>2. throttled => CRITICAL <= row'.severity
      BY <1>4, <1>5, <2>3, <3>1
    <3> QED BY <2>3, <3>2 DEF Severities, CRITICAL, NONE
  <2> QED BY <1>1, <1>2, <2>3, <2>4 DEF SparkInv
<1> QED BY <1>6, <1>7

(* What a step of the job is a step of.                                    *)
LEMMA JobParts ==
    [JobNext]_<<appType, row, info, mapReduceState, sparkState>>
      => \/ appType = "MAPREDUCE" /\ Next /\ UNCHANGED <<appType, sparkState, info>>
         \/ appType = "SPARK" /\ Spark!Next /\ UNCHANGED <<appType, mapReduceState, info>>
         \/ UNCHANGED <<appType, row, mapReduceState, sparkState>>
BY DEF JobNext, AnalyseMapReduce, AnalyseSpark, LoadInfo

(* Each step of an analysis of either type keeps SparkInv.                 *)
LEMMA SparkNext ==
    ASSUME SparkInv, appType' = appType,
           \/ appType = "SPARK" /\ Spark!Next
           \/ UNCHANGED sparkState /\ (appType = "MAPREDUCE" \/ row' = row)
    PROVE  SparkInv'
<1>0. StagesInv'
  BY StagesNext DEF SparkInv
<1>1. CASE appType = "SPARK" /\ Spark!OpenLog
  <2>1. Spark!ShouldThrottle \in BOOLEAN
    BY DEF Spark!ShouldThrottle
  <2>2. /\ sparkPc = "open" /\ throttled' = Spark!ShouldThrottle
        /\ sparkPc' = IF Spark!ShouldThrottle THEN "heuristics" ELSE "replay"
        /\ UNCHANGED <<app, status, jobs, sparkResults, row>>
    BY <1>1 DEF Spark!OpenLog, Spark!replayed
  <2>3. /\ throttled' \in BOOLEAN /\ sparkPc' \in {"heuristics", "replay"}
        /\ throttled' => sparkPc' = "heuristics"
    BY <2>1, <2>2
  <2> QED BY <1>0, <1>1, <2>2, <2>3 DEF SparkInv
<1>2. CASE appType = "SPARK" /\ Spark!FetchFails
  <2>1. /\ sparkPc \in {"open", "replay"} /\ sparkPc' = "failed"
        /\ UNCHANGED <<app, throttled, status, jobs, sparkResults, row>>
    BY <1>2 DEF Spark!FetchFails, Spark!replayed
  <2>2. throttled' = FALSE
    BY <2>1 DEF SparkInv
  <2>3. ~throttled'
    BY ONLY <2>2
  <2> QED BY <1>0, <1>2, <2>1, <2>2, <2>3 DEF SparkInv
<1>3. CASE \/ Spark!BlockManagerAdded \/ Spark!BlockManagerRemoved \/ Spark!UnpersistRdd
           \/ Spark!TaskEnd \/ Spark!JobStart \/ Spark!StageSubmitted \/ Spark!StageCompleted
           \/ Spark!JobEnd
  <2>1. \A event : Spark!Replay(event) =>
           sparkPc = "replay" /\ UNCHANGED <<sparkPc, throttled, sparkResults, row>>
    BY DEF Spark!Replay
  <2>2. Spark!Progress => sparkPc = "replay" /\ UNCHANGED <<sparkPc, throttled, sparkResults, row>>
    BY DEF Spark!Progress
  <2>3. sparkPc = "replay" /\ UNCHANGED <<sparkPc, throttled, sparkResults, row>>
    BY <1>3, <2>1, <2>2 DEF Spark!BlockManagerAdded, Spark!BlockManagerRemoved, Spark!UnpersistRdd,
          Spark!TaskEnd, Spark!JobStart, Spark!StageSubmitted, Spark!StageCompleted, Spark!JobEnd
  <2> QED BY <1>0, <2>3 DEF SparkInv
<1>4. CASE Spark!ReplayEnds
  <2>1. /\ sparkPc = "replay" /\ sparkPc' = "heuristics"
        /\ UNCHANGED <<app, throttled, status, jobs, sparkResults, row>>
    BY <1>4 DEF Spark!ReplayEnds, Spark!replayed
  <2> QED BY <1>0, <2>1 DEF SparkInv
<1>5. CASE Spark!NoDataReceived
  <2> DEFINE reports == <<Spark!Report("NoDataReceived", Spark!LOW)>>
  <2>1. /\ sparkPc = "heuristics" /\ ~throttled /\ Spark!Recorded(reports)
        /\ UNCHANGED <<app, throttled, status, jobs>>
    BY <1>5 DEF Spark!NoDataReceived, Spark!replayed, Spark!IsEmpty
  <2>2. \A i \in DOMAIN reports : reports[i].severity \in Severities
    BY SparkLevels DEF Spark!Report, LOW, Severities, NONE, CRITICAL
  <2> HIDE DEF reports
  <2>3. /\ \A i \in DOMAIN sparkResults' : sparkResults'[i].severity \in Severities
        /\ row'.severity \in Severities /\ row'.score \in Nat /\ sparkPc' = "done"
    BY <2>1, <2>2, RecordedNext
  <2> QED BY <1>0, <2>1, <2>3 DEF SparkInv
<1>6. CASE Spark!RunHeuristics
  BY <1>6, RunHeuristicsNext
<1>7. CASE UNCHANGED sparkState /\ (appType = "MAPREDUCE" \/ row' = row)
  <2>1. UNCHANGED <<app, sparkPc, throttled, status, jobs, phases, sparkResults>>
    BY <1>7 DEF sparkState
  <2>2. WhySparkThrows' <=> WhySparkThrows
    BY <2>1 DEF WhySparkThrows, Ended
  <2> QED BY <1>0, <1>7, <2>1, <2>2 DEF SparkInv
<1> QED BY <1>1, <1>2, <1>3, <1>4, <1>5, <1>6, <1>7 DEF Spark!Next

(* An application whose log is not read is reported, as CRITICAL, and a    *)
(* heuristic throws only for want of a number or of the name of a job.     *)
THEOREM SparkJobsAreReported ==
    ASSUME SparkConfigured
    PROVE  JobSpec => []SparkJobReported
<1>1. JobInit => SparkInv
  BY SparkInit
<1>2. SparkInv /\ [JobNext]_<<appType, row, info, mapReduceState, sparkState>> => SparkInv'
  BY SparkNext, JobParts
<1>3. SparkInv => SparkJobReported
  BY SparkLevels, SameOperators
     DEF SparkInv, WhySparkThrows, Ended, SparkJobReported, Spark!SparkJobReported
<1> QED BY <1>1, <1>2, <1>3, PTL DEF JobSpec

-----------------------------------------------------------------------------
(* Types, of jobs of both types.                                           *)
LEMMA PickedList ==
    ASSUME NEW D, NEW list \in Seq(D), NEW places \in SUBSET DOMAIN list
    PROVE  /\ Picked(list, places) \in Seq(D)
           /\ Picked(list, places) # <<>> =>
                 \E i \in places : Head(Picked(list, places)) = list[i]
<1>1. DOMAIN list = 1 .. Len(list) /\ Len(list) \in Nat
  BY ListOf
<1>2. places \in SUBSET Nat /\ IsFiniteSet(places)
  <2>1. 1 \in Int /\ Len(list) \in Int
    BY <1>1
  <2>2. IsFiniteSet(1 .. Len(list))
    BY <2>1, FS_Interval
  <2> QED BY <1>1, <2>2, FS_Subset
<1>3. /\ Cardinality(places) \in Nat
      /\ \E at \in [1 .. Cardinality(places) -> places] :
            \A l : Picked(l, places) = [k \in 1 .. Cardinality(places) |-> l[at[k]]]
  BY <1>2, PickedPlaces
<1> PICK n \in Nat : n = Cardinality(places)
  BY <1>3
<1>4. PICK at \in [1 .. n -> places] : Picked(list, places) = [k \in 1 .. n |-> list[at[k]]]
  BY <1>3
<1> DEFINE picked == Picked(list, places)
<1>5. \A k \in 1 .. n : picked[k] = list[at[k]] /\ at[k] \in places /\ list[at[k]] \in D
  BY <1>1, <1>4
<1> HIDE DEF picked
<1>6. picked = [k \in 1 .. n |-> picked[k]]
  BY <1>4, <1>5 DEF picked
<1>7. picked \in Seq(D) /\ Len(picked) = n
  BY <1>5, <1>6
<1>8. picked # <<>> => Head(picked) = picked[1] /\ 1 \in 1 .. n
  BY <1>7
<1> QED BY <1>5, <1>7, <1>8 DEF picked

(* The job types that are tried are a list.                                *)
LEMMA JobTypesListed ==
    ASSUME appType \in {"MAPREDUCE", "SPARK"}
    PROVE  JobTypes \in Seq([name : STRING, isDefault : BOOLEAN])
<1> DEFINE T == [name : STRING, isDefault : BOOLEAN]
           types == JobTypeConf[appType]
           others == {i \in DOMAIN types : ~types[i].isDefault}
           defaults == {i \in DOMAIN types : types[i].isDefault}
<1>1. types \in Seq(T)
  BY JobAssumption
<1>2. others \in SUBSET DOMAIN types /\ defaults \in SUBSET DOMAIN types
  OBVIOUS
<1>3. JobTypes = Picked(types, others) \o Picked(types, defaults)
  BY DEF JobTypes
<1> HIDE DEF T, types, others, defaults
<1>4. Picked(types, others) \in Seq(T) /\ Picked(types, defaults) \in Seq(T)
  BY <1>1, <1>2, PickedList
<1>5. JobTypes \in Seq(T)
  BY <1>3, <1>4
<1> QED BY <1>5 DEF T

InfoOK ==
    /\ info.ids = IF info.scheduler = "none" THEN NoIds ELSE [id \in Ids |-> "set"]
    /\ info.scheduler \in {"none"} \cup ToSet(SchedulerConf)
    /\ info.jobType \in {"none", "Unknown"} \cup {type.name : type \in ToSet(JobTypes)}

(* The job type found is the name of a configured one.                     *)
LEMMA JobTypeFound ==
    ASSUME appType \in {"MAPREDUCE", "SPARK"}, NEW known
    PROVE  JobTypeOf(known) \in {"Unknown"} \cup {type.name : type \in ToSet(JobTypes)}
<1> DEFINE matches == {i \in DOMAIN JobTypes : JobTypes[i].name \in known.types}
           matching == Picked(JobTypes, matches)
<1>1. JobTypes \in Seq([name : STRING, isDefault : BOOLEAN]) /\ matches \in SUBSET DOMAIN JobTypes
  BY JobTypesListed
<1>2. JobTypeOf(known) = IF matching = <<>> THEN "Unknown" ELSE Head(matching).name
  BY DEF JobTypeOf
<1> HIDE DEF matches
<1>3. matching # <<>> => \E i \in matches : Head(matching) = JobTypes[i]
  BY <1>1, PickedList
<1> HIDE DEF matching
<1>4. \A i \in matches : JobTypes[i] \in ToSet(JobTypes)
  BY <1>1 DEF ToSet
<1> QED BY <1>2, <1>3, <1>4

(* The scheduler found is a configured one with all ids.                   *)
LEMMA SchedulerFound ==
    ASSUME NEW known, known.ids \in [ToSet(SchedulerConf) -> [Ids -> {"absent", "empty", "set"}]]
    PROVE  LET found == SchedulerInfo(known)
           IN  /\ found.ids = IF found.scheduler = "none" THEN NoIds ELSE [id \in Ids |-> "set"]
               /\ found.scheduler \in {"none"} \cup ToSet(SchedulerConf)
<1> DEFINE places == {i \in DOMAIN SchedulerConf :
                          \A id \in Ids : known.ids[SchedulerConf[i]][id] # "absent"}
           found == SchedulersOf(known)
<1>1. SchedulerConf \in Seq(STRING) /\ "none" \notin ToSet(SchedulerConf)
  BY JobAssumption
<1>2. found = Picked(SchedulerConf, places) /\ places \in SUBSET DOMAIN SchedulerConf
  BY DEF SchedulersOf
<1> HIDE DEF places, found
<1>3. found # <<>> => \E i \in places : Head(found) = SchedulerConf[i]
  BY <1>1, <1>2, PickedList
<1>4. found # <<>> => Head(found) \in ToSet(SchedulerConf)
  BY <1>2, <1>3 DEF ToSet
<1>5. CASE found # <<>> /\ \A id \in Ids : known.ids[Head(found)][id] = "set"
  <2>1. SchedulerInfo(known) = [scheduler |-> Head(found), ids |-> known.ids[Head(found)]]
    BY <1>5 DEF SchedulerInfo, found
  <2>2. known.ids[Head(found)] = [id \in Ids |-> "set"]
    BY <1>4, <1>5
  <2> QED BY <1>1, <1>4, <1>5, <2>1, <2>2
<1>6. CASE ~(found # <<>> /\ \A id \in Ids : known.ids[Head(found)][id] = "set")
  <2>1. SchedulerInfo(known) = [scheduler |-> "none", ids |-> NoIds]
    BY <1>6 DEF SchedulerInfo, found
  <2> QED BY <2>1
<1> QED BY <1>5, <1>6

(* Lists of tasks are as long as their orders.                             *)
OrderTyped ==
    \A kind \in Kinds :
        /\ order[kind] \in Seq(Nat)
        /\ DOMAIN data[kind] = 1 .. Len(order[kind])

(* The order of the tasks after a shuffle is one of their places.          *)
LEMMA OrderNext ==
    ASSUME SampleInv, OrderTyped, Next \/ UNCHANGED mapReduceState
    PROVE  OrderTyped'
<1> USE DEF Kinds
<1>0. DOMAIN data = DOMAIN NoData
  BY DEF SampleInv
<1>1. CASE ReadTaskList
  <2>1. PICK m \in Shuffled(Succeeded(TRUE)), r \in Shuffled(Succeeded(FALSE)) :
           /\ order' = [mappers |-> m, reducers |-> r]
           /\ data' = [data EXCEPT !.mappers = Unsampled(m), !.reducers = Unsampled(r)]
    BY <1>1 DEF ReadTaskList
  <2>2. /\ order'["mappers"] = m /\ order'["reducers"] = r
        /\ data'["mappers"] = Unsampled(m) /\ data'["reducers"] = Unsampled(r)
    BY <1>0, <2>1 DEF NoData
  <2>3. ASSUME NEW isMapper, NEW ids \in Shuffled(Succeeded(isMapper))
        PROVE  ids \in Seq(Nat) /\ DOMAIN Unsampled(ids) = 1 .. Len(ids)
    <3>1. job \in Jobs
      BY DEF SampleInv
    <3>2. IsFiniteSet(Succeeded(isMapper)) /\ ids \in SetToSeqs(Succeeded(isMapper))
      BY <2>3, <3>1, SucceededFinite DEF Shuffled
    <3>3. /\ DOMAIN ids = 1 .. Len(ids) /\ Len(ids) \in Nat
          /\ \A i \in DOMAIN ids : ids[i] \in Succeeded(isMapper)
      BY <3>2, Listing
    <3>4. Succeeded(isMapper) \subseteq Nat
      BY <3>1, AnalysisAssumption DEF Succeeded
    <3>5. PICK n \in Nat : ids \in [1 .. n -> Succeeded(isMapper)]
      BY <3>2, FS_CardinalityType DEF SetToSeqs
    <3>6. ids \in Seq(Nat)
      BY <3>4, <3>5
    <3> QED BY <3>3, <3>6 DEF Unsampled
  <2>4. m \in Seq(Nat) /\ DOMAIN Unsampled(m) = 1 .. Len(m)
    BY <2>3
  <2>5. r \in Seq(Nat) /\ DOMAIN Unsampled(r) = 1 .. Len(r)
    BY <2>3
  <2> QED BY <2>2, <2>4, <2>5 DEF OrderTyped
<1>2. CASE ReadTask
  <2>1. order' = order /\ \A kind \in Kinds : DOMAIN data'[kind] = DOMAIN data[kind]
    <3>1. PICK i \in NextTask(data[pc]) :
             data' = [data EXCEPT ![pc][i] = SampledTask(order[pc][i])]
      BY <1>2 DEF ReadTask
    <3> QED BY <1>0, <1>2, <3>1 DEF ReadTask, NoData
  <2> QED BY <2>1 DEF OrderTyped
<1>3. CASE ReadConf \/ ReadState \/ ReadDiagnosis
  <2>1. order' = order /\ data'["mappers"] = data["mappers"] /\ data'["reducers"] = data["reducers"]
    BY <1>0, <1>3 DEF ReadConf, ReadState, ReadDiagnosis, NoData
  <2> QED BY <2>1 DEF OrderTyped
<1>4. CASE \/ RequestFails \/ ReadCounters \/ TasksRead
           \/ NoDataReceived \/ RunHeuristic \/ HeuristicsRun \/ SumUp \/ UNCHANGED mapReduceState
  <2>1. UNCHANGED <<order, data>>
    BY <1>4 DEF RequestFails, ReadCounters, TasksRead, NoDataReceived, RunHeuristic, HeuristicsRun,
                SumUp, mapReduceState
  <2> QED BY <2>1 DEF OrderTyped
<1> QED BY <1>1, <1>2, <1>3, <1>4 DEF Next

(* What is summed up has a severity and a score.                           *)
LEMMA SumUpNext ==
    ASSUME AnalysisInv, SumUp
    PROVE  row'.severity \in Severities /\ row'.score \in Nat
<1> DEFINE levels == {results[i].severity : i \in DOMAIN results}
           scores == [i \in DOMAIN results |-> results[i].score]
<1>1. PICK n \in Nat : n = Len(results) /\ DOMAIN results = 1 .. n
  BY DEF AnalysisInv
<1>2. \A i \in 1 .. n : results[i].severity \in Severities /\ results[i].score \in Nat
  <2>1. \A i \in 1 .. n : results[i] \in Entries
    BY <1>1 DEF AnalysisInv
  <2> QED BY <2>1 DEF Entries
<1>3. levels \in SUBSET Severities
  BY <1>1, <1>2
<1>4. DOMAIN scores = 1 .. n /\ \A i \in 1 .. n : scores[i] \in Nat
  BY <1>1, <1>2
<1>5. row' = [severity |-> Highest(levels), score |-> Total(scores)]
  BY DEF SumUp
<1> HIDE DEF levels, scores
<1>6. Highest(levels) \in Severities /\ Total(scores) \in Nat
  BY <1>3, <1>4, HighestLevel, TotalNat
<1> QED BY <1>5, <1>6

(* Every variable of the analysis has its type.                            *)
TypesInv ==
    /\ appType \in {"MAPREDUCE", "SPARK"}
    /\ AnalysisInv /\ OrderTyped
    /\ PeakInv /\ SparkInv
    /\ row.severity \in Severities /\ row.score \in Nat
    /\ InfoOK

(* The types hold at first.                                                *)
LEMMA TypesInit == JobInit => TypesInv
<1> SUFFICES ASSUME JobInit PROVE TypesInv
  OBVIOUS
<1>1. AnalysisInv /\ PeakInv /\ SparkInv
  BY AnalysisInit, PeakInit, SparkInit DEF JobInit
<1>2. OrderTyped
  <2>1. \A kind \in Kinds : order[kind] = <<>> /\ data[kind] = <<>>
    BY DEF JobInit, Init, NoData, Kinds
  <2>2. <<>> \in Seq(Nat) /\ Len(<<>>) = 0 /\ DOMAIN <<>> = 1 .. 0
    OBVIOUS
  <2> QED BY <2>1, <2>2 DEF OrderTyped
<1>3. row.severity \in Severities /\ row.score \in Nat
  BY DEF JobInit, Init, NONE, Severities, CRITICAL
<1>4. InfoOK
  BY DEF JobInit, NoInfo, InfoOK
<1> QED BY <1>1, <1>2, <1>3, <1>4 DEF TypesInv, JobInit

(* What loadInfo stores has its type.                                      *)
LEMMA LoadInfoNext ==
    ASSUME appType \in {"MAPREDUCE", "SPARK"}, LoadInfo
    PROVE  InfoOK'
<1>1. PICK properties \in Properties :
         info' = [jobType |-> JobTypeOf(Known(properties)),
                  scheduler |-> SchedulerInfo(Known(properties)).scheduler,
                  ids |-> SchedulerInfo(Known(properties)).ids]
  BY DEF LoadInfo
<1> DEFINE known == Known(properties)
<1>2. known.ids \in [ToSet(SchedulerConf) -> [Ids -> {"absent", "empty", "set"}]]
  BY JobAssumption DEF Known, AppIdOnly
<1> HIDE DEF known
<1>3. /\ SchedulerInfo(known).ids =
            IF SchedulerInfo(known).scheduler = "none" THEN NoIds ELSE [id \in Ids |-> "set"]
      /\ SchedulerInfo(known).scheduler \in {"none"} \cup ToSet(SchedulerConf)
  BY <1>2, SchedulerFound
<1>4. JobTypeOf(known) \in {"Unknown"} \cup {type.name : type \in ToSet(JobTypes)}
  BY JobTypeFound
<1>5. JobTypes' = JobTypes
  BY DEF LoadInfo, JobTypes
<1>6. /\ info'.ids = SchedulerInfo(known).ids
      /\ info'.scheduler = SchedulerInfo(known).scheduler
      /\ info'.jobType = JobTypeOf(known)
  BY <1>1 DEF known
<1> QED BY <1>3, <1>4, <1>5, <1>6 DEF InfoOK

(* Each step of an analysis of either type keeps the types.                *)
LEMMA TypesNext ==
    ASSUME TypesInv,
           [JobNext]_<<appType, row, info, mapReduceState, sparkState>>
    PROVE  TypesInv'
<1>1. AnalysisInv' /\ PeakInv'
  BY AnalysisNext, JobSteps, PeakSteps, SparkSteps DEF TypesInv
<1>2. OrderTyped'
  BY OrderNext, JobSteps DEF TypesInv, AnalysisInv
<1>3. appType' = appType
  BY DEF JobNext, AnalyseMapReduce, AnalyseSpark, LoadInfo
<1>4. SparkInv'
  BY <1>3, JobParts, SparkNext DEF TypesInv
<1>5. row'.severity \in Severities /\ row'.score \in Nat
  <2>1. CASE appType = "SPARK"
    BY <1>3, <1>4, <2>1 DEF SparkInv
  <2>2. CASE appType = "MAPREDUCE"
    <3>1. Next \/ row' = row
      BY <2>2, JobParts
    <3>2. CASE SumUp
      BY <3>2, SumUpNext DEF TypesInv
    <3>3. CASE row' = row
      BY <3>3 DEF TypesInv
    <3>4. CASE Next /\ ~SumUp
      <4>1. row' = row
        BY <3>4 DEF Next, RequestFails, ReadConf, ReadState, ReadDiagnosis, ReadCounters,
                    ReadTaskList, ReadTask, TasksRead, NoDataReceived, RunHeuristic, HeuristicsRun
      <4> QED BY <3>3, <4>1
    <3> QED BY <3>1, <3>2, <3>3, <3>4
  <2> QED BY <2>1, <2>2 DEF TypesInv
<1>6. InfoOK'
  <2>1. CASE LoadInfo
    BY <2>1, LoadInfoNext DEF TypesInv
  <2>2. CASE info' = info
    <3>1. JobTypes' = JobTypes
      BY <1>3 DEF JobTypes
    <3> QED BY <2>2, <3>1 DEF TypesInv, InfoOK
  <2> QED BY <2>1, <2>2 DEF JobNext, AnalyseMapReduce, AnalyseSpark
<1> QED BY <1>1, <1>2, <1>3, <1>4, <1>5, <1>6 DEF TypesInv

(* TypesInv has the types of a MapReduce analysis.                         *)
LEMMA MapReduceTyped == TypesInv => TypeOK
<1> SUFFICES ASSUME TypesInv PROVE TypeOK
  OBVIOUS
<1>1. AnalysisInv /\ SampleInv /\ OrderTyped /\ DOMAIN order = Kinds /\ DOMAIN data = DOMAIN NoData
  BY DEF TypesInv, AnalysisInv, SampleInv
<1>2. /\ order.mappers = order["mappers"] /\ order.reducers = order["reducers"]
      /\ data.mappers = data["mappers"] /\ data.reducers = data["reducers"]
  OBVIOUS
<1>3. ASSUME NEW kind \in Kinds
      PROVE  order[kind] \in Seq(Nat) /\ Len(data[kind]) = Len(order[kind])
  <2>1. order[kind] \in Seq(Nat) /\ DOMAIN data[kind] = 1 .. Len(order[kind])
    BY <1>1 DEF OrderTyped
  <2>2. Len(order[kind]) \in Nat
    BY <2>1
  <2> QED BY <2>1, <2>2
<1>4. pc \in {"conf", "state", "diagnosis", "counters", "tasks", "mappers", "reducers",
              "heuristics", "sum", "done", "failed"}
  BY <1>1 DEF AnalysisInv, Fetching, Requesting
<1>5. \A i \in DOMAIN results : results[i].severity \in Severities /\ results[i].score \in Nat
  <2>1. results \in Seq(Entries)
    BY <1>1 DEF AnalysisInv
  <2>2. \A i \in DOMAIN results : results[i] \in Entries
    BY <2>1
  <2> QED BY <2>2 DEF Entries
<1>6. /\ job \in Jobs /\ data.succeeded \in BOOLEAN
      /\ data.diagnosis \in {"empty", "stacktrace", "null"} /\ place \in 1 .. Len(Heuristics) + 1
      /\ row.severity \in Severities /\ row.score \in Nat
  BY <1>1 DEF TypesInv, AnalysisInv, SampleInv
<1> QED BY <1>2, <1>3, <1>4, <1>5, <1>6 DEF TypeOK, Kinds

(* TypesInv has the types of a Spark analysis.                             *)
LEMMA SparkTyped == TypesInv => Spark!TypeOK
<1> SUFFICES ASSUME TypesInv PROVE Spark!TypeOK
  OBVIOUS
<1>1. StagesInv /\ SparkInv /\ PeakInv /\ StatusInv
  BY DEF TypesInv, SparkInv, PeakInv
<1>2. \A e \in DOMAIN peak : peak[e] \in Nat
  <2> SUFFICES ASSUME NEW e \in DOMAIN peak PROVE peak[e] \in Nat
    OBVIOUS
  <2>1. e \in DOMAIN app.storage
    BY <1>1 DEF StatusInv
  <2>2. Spark!MemUsed(e) \in Nat
    BY <1>1, <2>1, HeldBelow
  <2> QED BY <2>2 DEF Spark!MemUsed
<1>3. \A which \in Lists :
         Spark!ToSet(ended[which]) \subseteq DOMAIN stages /\ Len(ended[which]) <= RetainedStages
  <2> SUFFICES ASSUME NEW which \in Lists
               PROVE  ToSet(ended[which]) \subseteq DOMAIN stages /\ Len(ended[which]) <= RetainedStages
    BY SameOperators
  <2>1. ended[which] \in Seq(Ended \cap DOMAIN stages) /\ Len(ended[which]) <= RetainedStages
    BY <1>1 DEF StagesInv, ListsOfEnded
  <2> QED BY <2>1 DEF ToSet
<1>4. /\ app \in Applications /\ throttled \in BOOLEAN
      /\ sparkPc \in {"open", "replay", "heuristics", "done", "failed", "thrown"}
      /\ DOMAIN status \subseteq DOMAIN app.storage /\ DOMAIN peak \subseteq DOMAIN app.storage
      /\ DOMAIN jobs \subseteq DOMAIN app.jobs /\ DOMAIN stages \subseteq DOMAIN phases
  BY <1>1 DEF StagesInv, SparkInv, StatusInv
<1>5. /\ \A i \in DOMAIN sparkResults : sparkResults[i].severity \in Spark!Severities
      /\ row.severity \in Spark!Severities
  BY <1>1, SparkLevels DEF SparkInv, TypesInv
<1> QED BY <1>2, <1>3, <1>4, <1>5 DEF Spark!TypeOK, Lists

(* Every variable has its type for jobs of both types, and a row has all   *)
(* four ids and a scheduler, or none of them.                              *)
THEOREM JobTypeCorrect == JobSpec => []JobTypeOK
<1>1. JobInit => TypesInv
  BY TypesInit
<1>2. TypesInv /\ [JobNext]_<<appType, row, info, mapReduceState, sparkState>> => TypesInv'
  BY TypesNext
<1>3. TypesInv => JobTypeOK
  BY MapReduceTyped, SparkTyped DEF TypesInv, InfoOK, JobTypeOK
<1> QED BY <1>1, <1>2, <1>3, PTL DEF JobSpec
=============================================================================
