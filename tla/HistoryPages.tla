---------------------------- MODULE HistoryPages ----------------------------
(***************************************************************************)
(* The history pages of a flow and of a job.  The page lists the latest    *)
(* executions; a script on it then asks for the data of the graph with a   *)
(* request of its own, and writes the execution times it finds there into  *)
(* the rows of the page, by position.  Executors of the daemon insert rows *)
(* at any time, also between the two requests.                             *)
(*                                                                         *)
(* No two rows have the same finish time.                                  *)
(***************************************************************************)
EXTENDS Naturals, Sequences, FiniteSets, FiniteSetsExt, SequencesExt

CONSTANTS
    Rows,               \* every row of one flow the table may ever hold
    Execution,          \* its flow execution
    JobDefinition,      \* its job definition
    FinishTime,
    Score,              \* its score, the sum of those of its heuristics
    HistoryLimit,       \* JOB_HISTORY_LIMIT
    MaxHistory,         \* MAX_HISTORY_LIMIT
    ManyExecutions,     \* 10 in limitHistoryResults
    PrunedExecutions,   \* 3 in limitHistoryResults
    StageLimit          \* STAGE_LIMIT

JobDefinitions == {JobDefinition[r] : r \in Rows}

ASSUME HistoryAssumption ==
    /\ IsFiniteSet(Rows)
    /\ FinishTime \in [Rows -> Nat \ {0}]
    /\ Score \in [Rows -> Nat]
    /\ \A r, s \in Rows : FinishTime[r] = FinishTime[s] => r = s
    /\ {"none", "flow"} \cap JobDefinitions = {}
    /\ HistoryLimit \in Nat \ {0}
    /\ MaxHistory \in Nat /\ MaxHistory >= ManyExecutions
    /\ PrunedExecutions \in Nat \ {0}
    /\ ManyExecutions \in Nat /\ ManyExecutions >= PrunedExecutions
    /\ StageLimit \in Nat

VARIABLES
    table,              \* rows inserted so far
    subject,            \* what the page is about: "none", "flow" or a job definition
    asked,              \* the rows about it when the page was asked for
    listed,             \* the executions in the rows of the page
    columns,            \* the columns of the page
    loaded,             \* the script has got the data of the graph
    answered,           \* the rows about it when the graph was asked for
    graph               \* the data of the graph

pageVars == <<subject, asked, listed, columns>>
graphVars == <<loaded, answered, graph>>
vars == <<table, pageVars, graphVars>>

Executions(S) == {Execution[r] : r \in S}
JobsOf(S, e) == {r \in S : Execution[r] = e}

(* The elements of a set in ascending order of their numbers. *)
InOrder(number) ==
    LET S == DOMAIN number
    IN  [i \in 1 .. Cardinality(S) |->
            CHOOSE x \in S : Cardinality({y \in S : number[y] < number[x]}) = i - 1]

Times(S) == {FinishTime[r] : r \in S}

(* The time of an execution: the finish time of its last job. *)
LastFinish(S, e) == Max(Times(JobsOf(S, e)))

-----------------------------------------------------------------------------
(* What both pages and both graphs are made from *)

(* The latest HistoryLimit rows. *)
Fetched(S) ==
    {r \in S : Cardinality({s \in S : FinishTime[s] > FinishTime[r]}) < HistoryLimit}

(* groupJobs keeps the order in which the groups appear.  From the latest  *)
(* row to the earliest, executions appear by their last job; from the      *)
(* earliest to the latest, job definitions appear by their first.          *)
LatestFirst(S) == Reverse(InOrder([e \in Executions(S) |-> LastFinish(S, e)]))

JobOrder(S) ==
    InOrder([d \in {JobDefinition[r] : r \in S} |-> Min(Times({r \in S : JobDefinition[r] = d}))])

Completed(S) == InOrder([r \in S |-> FinishTime[r]])

(* limitHistoryResults; the mutant prunes nothing of a few executions.     *)
LimitWithoutPruning(size, executions) ==
    IF size < HistoryLimit \/ executions <= ManyExecutions THEN MaxHistory
    ELSE IF executions > MaxHistory + PrunedExecutions THEN MaxHistory
    ELSE executions - PrunedExecutions

Limit(size, executions) ==
    IF size < HistoryLimit THEN MaxHistory
    ELSE IF executions <= ManyExecutions THEN executions - 1
    ELSE IF executions > MaxHistory + PrunedExecutions THEN MaxHistory
    ELSE executions - PrunedExecutions

(* The mutant shows the end of the list and not its beginning. *)
ShownFromEnd(fetched) ==
    LET all == LatestFirst(fetched)
        limit == Limit(Cardinality(fetched), Len(all))
    IN  SubSeq(all, IF limit < Len(all) THEN Len(all) - limit + 1 ELSE 1, Len(all))

Shown(fetched) ==
    LET all == LatestFirst(fetched)
        limit == Limit(Cardinality(fetched), Len(all))
    IN  SubSeq(all, 1, IF limit < Len(all) THEN limit ELSE Len(all))

ShownRows(fetched) ==
    LET shown == Shown(fetched)
    IN  {r \in fetched : \E i \in DOMAIN shown : shown[i] = Execution[r]}

(* The rows a page about d selects. *)
About(d) == IF d = "flow" THEN table ELSE {r \in table : JobDefinition[r] = d}

Total(scores, S) == MapThenSumSet(LAMBDA x : scores[x], S)

(* restFlowGraphData and restJobGraphData: the earliest execution first.   *)
(* The parts of a flow are its job definitions in the order of completion; *)
(* those of a job are its stages in the opposite order.                    *)
Dataset(d, fetched, e) ==
    LET jobs == JobsOf(fetched, e)
        parts == IF d = "flow" THEN JobOrder(jobs) ELSE Reverse(Completed(jobs))
        rowsOf(part) == IF d = "flow" THEN {r \in jobs : JobDefinition[r] = part} ELSE {part}
    IN  [time   |-> LastFinish(fetched, e),
         score  |-> Total(Score, jobs),
         parts  |-> parts,
         scores |-> [i \in DOMAIN parts |-> Total(Score, rowsOf(parts[i]))]]

(* The mutant sends the latest execution first. *)
GraphDataLatestFirst(d, fetched) ==
    LET shown == Shown(fetched)
    IN  [i \in DOMAIN shown |-> Dataset(d, fetched, shown[i])]

GraphData(d, fetched) ==
    LET shown == Reverse(Shown(fetched))
    IN  [i \in DOMAIN shown |-> Dataset(d, fetched, shown[i])]

-----------------------------------------------------------------------------
TypeOK ==
    /\ table \subseteq Rows
    /\ subject \in {"none", "flow"} \cup JobDefinitions
    /\ asked \subseteq Rows
    /\ answered \subseteq Rows
    /\ listed \in Seq(Executions(asked))
    /\ subject = "flow" => columns \in Seq(JobDefinitions)
    /\ subject \in JobDefinitions => columns \in Seq(1 .. StageLimit)
    /\ loaded \in BOOLEAN
    /\ \A i \in DOMAIN graph : graph[i].time \in Nat

Init ==
    /\ table = {}
    /\ subject = "none"
    /\ asked = {}
    /\ listed = <<>>
    /\ columns = <<>>
    /\ loaded = FALSE
    /\ answered = {}
    /\ graph = <<>>

(* An executor saves a row. *)
Insert(r) ==
    /\ r \notin table
    /\ table' = table \cup {r}
    /\ UNCHANGED <<pageVars, graphVars>>

(* A browser loads a page; without rows the answer is "not found". *)
Load(d) ==
    /\ About(d) # {}
    /\ subject' = d
    /\ asked' = About(d)
    /\ listed' = Shown(Fetched(About(d)))
    /\ loaded' = FALSE
    /\ answered' = {}
    /\ graph' = <<>>
    /\ UNCHANGED table

(* The job definitions head the columns in the order of a HashMap. *)
FlowHistory ==
    /\ Load("flow")
    /\ LET D == {JobDefinition[r] : r \in ShownRows(Fetched(table))}
       IN  columns' \in {c \in [1 .. Cardinality(D) -> D] :
                            \A d \in D : \E i \in DOMAIN c : c[i] = d}

(* The columns are numbered, for the longest of the executions.  The       *)
(* mutant forgets STAGE_LIMIT.                                             *)
StageColumnsUncapped(most) == most

StageColumns(most) == IF most > StageLimit THEN StageLimit ELSE most

JobHistory(d) ==
    /\ Load(d)
    /\ LET fetched == Fetched(About(d))
           stages == {Cardinality(JobsOf(fetched, e)) : e \in Executions(ShownRows(fetched))}
           most == Max(stages \cup {0})
       IN  columns' = [n \in 1 .. StageColumns(most) |-> n]

(* The script gets the data of the graph and fills in the page. *)
GraphLoaded ==
    /\ subject # "none"
    /\ ~loaded
    /\ loaded' = TRUE
    /\ answered' = About(subject)
    /\ graph' = GraphData(subject, Fetched(About(subject)))
    /\ UNCHANGED <<table, pageVars>>

Next ==
    \/ \E r \in Rows : Insert(r)
    \/ FlowHistory
    \/ \E d \in JobDefinitions : JobHistory(d)
    \/ GraphLoaded

Spec == Init /\ [][Next]_vars

-----------------------------------------------------------------------------
(* What the browser makes of the two answers *)

(* updateExecTimezone: the time written into row i of the page, which goes *)
(* from the latest execution to the earliest; 0 when it stays "Loading...",*)
(* because the data has no record at that place.                           *)
WrittenTime(i) ==
    LET place == Len(listed) + 1 - i
    IN  IF place \in DOMAIN graph THEN graph[place].time ELSE 0

(* flowhistoryform.js numbers the job definitions in the order in which    *)
(* they appear in the data, from the latest execution to the earliest.     *)
JobNumbers ==
    LET latest == Reverse(graph)
        D == UNION {{latest[i].parts[j] : j \in DOMAIN latest[i].parts} : i \in DOMAIN latest}
        places(d) == {p[1] * (Cardinality(Rows) + 1) + p[2] :
                         p \in {q \in (1 .. Len(latest)) \X (1 .. Cardinality(Rows)) :
                                   /\ q[2] \in DOMAIN latest[q[1]].parts
                                   /\ latest[q[1]].parts[q[2]] = d}}
    IN  InOrder([d \in D |-> Min(places(d))])

-----------------------------------------------------------------------------
(* Properties *)

(* limitHistoryResults: "For the flow executions we display, we want to    *)
(* ensure we show all the jobs belonging to that flow."  So it is whenever *)
(* no execution of the flow starts before the one before it has ended, in  *)
(* whatever order the rows were inserted, or when the limit was not hit.   *)
FirstFinish(S, e) == Min(Times(JobsOf(S, e)))

OneAfterTheOther(S) ==
    \A e, f \in Executions(S) :
        e # f => LastFinish(S, e) < FirstFinish(S, f) \/ LastFinish(S, f) < FirstFinish(S, e)

ShownComplete ==
    OneAfterTheOther(asked) \/ Cardinality(asked) < HistoryLimit =>
        \A i \in DOMAIN listed : JobsOf(asked, listed[i]) \subseteq Fetched(asked)

(* The page lists the latest executions, latest first, and leaves out none *)
(* between them, even when the limit cuts some of them in two.             *)
LatestListed ==
    \A e \in Executions(asked), i \in DOMAIN listed :
        \/ LastFinish(asked, e) < LastFinish(asked, listed[i])
        \/ \E j \in 1 .. i : listed[j] = e

(* If no row was inserted between the two requests, every row of the page  *)
(* gets the time of its execution.                                         *)
TimesMatchWhenQuiet ==
    loaded /\ answered = asked =>
        \A i \in DOMAIN listed : WrittenTime(i) = LastFinish(asked, listed[i])

(* graphutility.js: "Update execution table with time in user timezone".   *)
TimesMatch ==
    loaded =>
        \A i \in DOMAIN listed :
            WrittenTime(i) \in {LastFinish(S, listed[i]) : S \in {asked, answered}}

(* flowhistoryform.js: "Compute the jobDefId list such that the job        *)
(* numbers in the tooltip match the corresponding job in the table."       *)
JobNumbersMatch ==
    loaded /\ subject = "flow" /\ answered = asked => JobNumbers = columns

(* The stages of a job are numbered in the order of completion in the      *)
(* table; the tooltip of the graph numbers the parts of its record.        *)
StageNumbersMatch ==
    loaded /\ subject \in JobDefinitions /\ answered = asked =>
        \A i \in DOMAIN listed :
            graph[Len(listed) + 1 - i].parts = Completed(JobsOf(Fetched(asked), listed[i]))
=============================================================================
