------------------------ MODULE MapReduceHeuristics ------------------------
(***************************************************************************)
(* The heuristics over the data of one MapReduce application, with the     *)
(* statistics, severities and scores they are made from.                   *)
(*                                                                         *)
(* A heuristic yields a severity, Null when it has nothing to say, or      *)
(* Throws when the code ends with an exception.  A limit or a ratio that   *)
(* is a fraction is counted in parts of Parts.                             *)
(***************************************************************************)
EXTENDS Integers, SequencesExt

CONSTANTS
    Parts,              \* parts a fraction is counted in
    Default,            \* the limits each heuristic has in its fields
    Params,             \* the lists of limits configured, for some of them
    Unit,               \* what loadParameters multiplies each of them with
    Second

(* Severities *)
NONE == 0
LOW == 1
MODERATE == 2
SEVERE == 3
CRITICAL == 4
Severities == NONE .. CRITICAL

Null == -1
Throws == -2

Absent == -1            \* a property that is not in the job's configuration
NotANumber == -2        \* a property that does not parse

ASSUME HeuristicsAssumption ==
    /\ Parts \in Nat \ {0}
    /\ \A p \in DOMAIN Default : Default[p] \in [1 .. 4 -> Nat] /\ Unit[p] \in Nat \ {0}
    /\ DOMAIN Params \subseteq DOMAIN Default
    /\ \A p \in DOMAIN Params :
           /\ Params[p] \in Seq(Nat \cup {NotANumber})
           /\ Len(Params[p]) = 4 => \A i \in 1 .. 4 : \A j \in i .. 4 :
                  Params[p][i] = NotANumber => Params[p][j] = NotANumber
    /\ Second \in Nat

-----------------------------------------------------------------------------
(* Severity, Utils and Statistics *)

(* The levels are tested from CRITICAL down; limits[1] is that of LOW.     *)
Highest(levels) == Max({NONE} \cup levels)

Ascending(value, limits) == Highest({l \in 1 .. 4 : value >= limits[l]})
Descending(value, limits) == Highest({l \in 1 .. 4 : value <= limits[l]})

SeverityMax(s, t) == IF s > t THEN s ELSE t
SeverityMin(s, t) == IF s < t THEN s ELSE t

(* The same for a quotient of doubles, which is no number for 0 / 0 and    *)
(* infinite for any other division by 0.                                   *)
RatioAscending(num, den, limits) ==
    Highest({l \in 1 .. 4 : IF den = 0 THEN num > 0 ELSE num * Parts >= limits[l] * den})

RatioDescending(num, den, limits) ==
    Highest({l \in 1 .. 4 : den # 0 /\ num * Parts <= limits[l] * den})

(* Utils.getParam and loadParameters: a list that does not have one limit  *)
(* for every level, or has one that cannot be evaluated, is ignored.  (One *)
(* that can be evaluated after one that cannot throws in the heuristic's   *)
(* constructor: nothing is analysed then, hence HeuristicsAssumption.)     *)
Limits(p) ==
    LET given == IF p \in DOMAIN Params THEN Params[p] ELSE <<>>
        limits == IF Len(given) = 4 /\ NotANumber \notin ToSet(given)
                  THEN given ELSE Default[p]
    IN  [l \in 1 .. 4 |-> limits[l] * Unit[p]]

HeuristicScore(severity, tasks) == IF severity > LOW THEN severity * tasks ELSE 0

Total(values) == FoldLeft(+, 0, values)

(* 0 / 0 is no number, which a cast to long turns into 0. *)
Mean(values) == IF values = <<>> THEN 0 ELSE Total(values) \div Len(values)

(* sorted(k) is the value at place k of the sorted list. *)
Median(values) ==
    LET upTo(v) == Cardinality({i \in DOMAIN values : values[i] <= v})
        below(v) == Cardinality({i \in DOMAIN values : values[i] < v})
        sorted(k) == CHOOSE v \in ToSet(values) : below(v) < k /\ k <= upTo(v)
        middle == Len(values) \div 2
    IN  IF Len(values) % 2 = 0 THEN (sorted(middle) + sorted(middle + 1)) \div 2
        ELSE sorted(middle + 1)

(* The elements of a list at some of its places, in their order. *)
Picked(list, places) ==
    [k \in 1 .. Cardinality(places) |->
        list[CHOOSE i \in places : Cardinality({j \in places : j < i}) = k - 1]]

TwoMeans(values, middle) ==
    <<Picked(values, {i \in DOMAIN values : values[i] < middle}),
      Picked(values, {i \in DOMAIN values : values[i] >= middle})>>

NewMiddle(groups) == Mean(groups[2]) - Mean(groups[1])

(* findTwoGroups; the mutant stops one level too early. *)
TwoGroupsOneLevel(values) ==
    LET split == [middle \in Int |-> TwoMeans(values, middle)]
    IN  split[NewMiddle(split[Mean(values)])]

TwoGroups(values) ==
    LET split == [middle \in Int |-> TwoMeans(values, middle)]
        next == [middle \in Int |-> NewMiddle(split[middle])]
    IN  split[next[next[Mean(values)]]]

-----------------------------------------------------------------------------
(* Tasks.  One that is not sampled has no counters, and all its times are  *)
(* 0.  A mapper's input is what it read from HDFS, a reducer's what was    *)
(* shuffled to it.                                                         *)
CounterNames == {"input", "gc", "cpu", "memory", "spilled", "output"}
NoCounters == [input |-> Absent]
NoTime == [total |-> 0, shuffle |-> 0, sort |-> 0]

(* The tasks a heuristic looks at; the mutant does not test isSampled().   *)
VisitedAll(tasks) == tasks

Visited(tasks) == Picked(tasks, {i \in DOMAIN tasks : tasks[i].sampled})

CounterValues(tasks, counter) ==
    LET visited == Visited(tasks) IN [i \in DOMAIN visited |-> visited[i].counters[counter]]

Times(tasks, part) ==
    LET visited == Visited(tasks) IN [i \in DOMAIN visited |-> visited[i].time[part]]

Inputs(tasks) == CounterValues(tasks, "input")
RunTimes(tasks) == Times(tasks, "total")

MissesCounters(tasks) ==
    LET visited == Visited(tasks)
    IN  \E i \in DOMAIN visited : visited[i].counters = NoCounters

DataSkew(h, tasks) ==
    LET groups == TwoGroups(Inputs(tasks))
        small == Mean(groups[1])
        large == Mean(groups[2])
        least == IF small < large THEN small ELSE large
        diff == IF small < large THEN large - small ELSE small - large
    IN  SeverityMin(Ascending(diff \div (IF least <= 0 THEN 1 ELSE least),
                              Limits(<<h, "deviation">>)),
                    SeverityMin(Ascending(large * Parts, Limits(<<h, "files">>)),
                                Ascending(Len(groups[1]), Limits(<<h, "num_tasks">>))))

GC(h, tasks) ==
    LET gc == Mean(CounterValues(tasks, "gc"))
        cpu == Mean(CounterValues(tasks, "cpu"))
    IN  IF tasks = <<>> THEN NONE
        ELSE SeverityMin(RatioAscending(gc, cpu, Limits(<<h, "gc_ratio">>)),
                         Ascending(Mean(RunTimes(tasks)), Limits(<<h, "runtime">>)))

(* The mutant does not look whether there are tasks. *)
MemoryWithoutTasks(h, tasks, container) ==
    LET used == Mean(CounterValues(tasks, "memory"))
    IN  IF container = Absent THEN Null
        ELSE IF container = NotANumber \/ MissesCounters(tasks) THEN Throws
        ELSE SeverityMin(RatioDescending(used, container, Limits(<<h, "memory_ratio">>)),
                         Ascending(container * Parts, Limits(<<h, "container_memory">>)))

Memory(h, tasks, container) ==
    LET used == Mean(CounterValues(tasks, "memory"))
    IN  IF container = Absent THEN Null
        ELSE IF container = NotANumber \/ MissesCounters(tasks) THEN Throws
        ELSE IF tasks = <<>> THEN NONE
        ELSE SeverityMin(RatioDescending(used, container, Limits(<<h, "memory_ratio">>)),
                         Ascending(container * Parts, Limits(<<h, "container_memory">>)))

(* Many short tasks, or any number of long ones. *)
MapperTime(h, tasks) ==
    LET average == Mean(RunTimes(tasks))
    IN  SeverityMax(SeverityMin(Descending(average, Limits(<<h, "short_runtime">>)),
                                Ascending(Len(tasks), Limits(<<h, "num_tasks">>))),
                    Ascending(average, Limits(<<h, "long_runtime">>)))

ReducerTime(h, tasks) ==
    LET average == Mean(RunTimes(tasks))
    IN  SeverityMax(SeverityMin(Descending(average, Limits(<<h, "short_runtime">>)),
                                Ascending(Len(tasks), Limits(<<h, "num_tasks">>))),
                    Ascending(average, Limits(<<h, "long_runtime">>)))

(* The speed of a mapper that took no time is a division of longs by 0.    *)
MapperSpeed(h, tasks) ==
    LET inputs == Inputs(tasks)
        times == RunTimes(tasks)
        speeds == [i \in DOMAIN times |-> (Second * inputs[i]) \div times[i]]
        MedianOf(values) == IF tasks = <<>> THEN 0 ELSE Median(values)
    IN  IF 0 \in ToSet(times) THEN Throws
        ELSE SeverityMin(Descending(MedianOf(speeds) * Parts, Limits(<<h, "disk_speed">>)),
                         Ascending(MedianOf(times), Limits(<<h, "runtime">>)))

(* Records spilled without any output are an infinite ratio. *)
MapperSpill(h, tasks) ==
    LET spilled == Total(CounterValues(tasks, "spilled"))
        output == Total(CounterValues(tasks, "output"))
        severity == IF spilled = 0 THEN Ascending(0, Limits(<<h, "spill">>))
                    ELSE IF output = 0 THEN CRITICAL
                    ELSE Ascending((spilled * Parts) \div output, Limits(<<h, "spill">>))
    IN  SeverityMin(severity, Ascending(Len(tasks), Limits(<<h, "num_tasks">>)))

ShuffleSortSeverity(h, time, code) ==
    LET severity == Ascending(time, Limits(<<h, "runtime">>))
    IN  IF code <= 0 THEN severity
        ELSE SeverityMin(severity,
                         Ascending((time * 2) \div code, Limits(<<h, "runtime_ratio">>)))

ShuffleSort(h, tasks) ==
    LET times == RunTimes(tasks)
        shuffles == Times(tasks, "shuffle")
        sorts == Times(tasks, "sort")
        code == Mean([i \in DOMAIN times |-> times[i] - shuffles[i] - sorts[i]])
        shuffle == Mean(shuffles)
        sort == Mean(sorts)
    IN  SeverityMax(ShuffleSortSeverity(h, shuffle, code), ShuffleSortSeverity(h, sort, code))

-----------------------------------------------------------------------------
(* apply(), for an application [succeeded, diagnosis, memory, mappers,     *)
(* reducers]: memory has the two container sizes.                          *)

OfMappers(h, data) ==
    LET tasks == data.mappers
    IN  CASE h = "MapperDataSkew" -> DataSkew(h, tasks)
          [] h = "MapperGC" -> GC(h, tasks)
          [] h = "MapperTime" -> MapperTime(h, tasks)
          [] h = "MapperSpeed" -> MapperSpeed(h, tasks)
          [] h = "MapperSpill" -> MapperSpill(h, tasks)
          [] h = "MapperMemory" -> Memory(h, tasks, data.memory.map)

OfReducers(h, data) ==
    LET tasks == data.reducers
    IN  CASE h = "ReducerDataSkew" -> DataSkew(h, tasks)
          [] h = "ReducerGC" -> GC(h, tasks)
          [] h = "ReducerTime" -> ReducerTime(h, tasks)
          [] h = "ReducerMemory" -> Memory(h, tasks, data.memory.reduce)
          [] h = "ShuffleSort" -> ShuffleSort(h, tasks)

MapperHeuristics ==
    {"MapperDataSkew", "MapperGC", "MapperTime", "MapperSpeed", "MapperSpill", "MapperMemory"}

ReducerHeuristics ==
    {"ReducerDataSkew", "ReducerGC", "ReducerTime", "ReducerMemory", "ShuffleSort"}

NeedsCounters ==
    (MapperHeuristics \cup ReducerHeuristics)
        \ {"MapperMemory", "ReducerMemory", "ReducerTime", "ShuffleSort"}

TasksOf(h, data) == IF h \in MapperHeuristics THEN data.mappers ELSE data.reducers

(* The severity of heuristic h. *)
Severity(h, data) ==
    IF h = "Exception" THEN IF data.succeeded THEN Null ELSE MODERATE
    ELSE IF ~data.succeeded THEN Null
    ELSE IF h \in NeedsCounters /\ MissesCounters(TasksOf(h, data)) THEN Throws
    ELSE IF h \in MapperHeuristics THEN OfMappers(h, data) ELSE OfReducers(h, data)

(* Its score: every task counts, also one that was not sampled. *)
ScoreOfSample(h, data) ==
    IF h = "Exception" THEN 0
    ELSE HeuristicScore(Severity(h, data), Len(Visited(TasksOf(h, data))))

Score(h, data) ==
    IF h = "Exception" THEN 0
    ELSE HeuristicScore(Severity(h, data), Len(TasksOf(h, data)))
=============================================================================
