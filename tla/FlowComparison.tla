--------------------------- MODULE FlowComparison ---------------------------
(***************************************************************************)
(* The comparison of two flow executions, job definition by job            *)
(* definition.  The rows of the two are two queries; executors of the      *)
(* daemon insert rows before, between and after them.                      *)
(*                                                                         *)
(* The answer of the comparison page is a function from job definitions to *)
(* functions from flow executions to sets of rows; null is the empty set.  *)
(***************************************************************************)
EXTENDS Naturals, Sequences, FiniteSets, FiniteSetsExt, Functions

CONSTANTS
    Rows,               \* every row the table may ever hold
    Execution,          \* its flow execution
    JobDefinition,      \* its job definition
    WithoutCase,        \* a job definition, without regard to case
    FetchLimit          \* setMaxRows(100)

(* What HistorySite assumes of them.                                       *)
ComparisonAssumption ==
    /\ IsFiniteSet(Rows)
    /\ \A r \in Rows : JobDefinition[r] \in DOMAIN WithoutCase
    /\ FetchLimit \in Nat \ {0}

VARIABLES
    table,              \* rows inserted so far
    compared,           \* the executions to compare, <<>> without a request
    known,              \* their rows when the request came
    first,              \* the answer of the first query
    comparison          \* <<>>, or <<the answer of the page>>

RowsOf(S, e) == {r \in S : Execution[r] = e}
Defined(S, d) == {r \in S : JobDefinition[r] = d}

(* A query for at most FetchLimit rows in no order.                        *)
Fetchable(S) ==
    IF Cardinality(S) <= FetchLimit THEN {S} ELSE kSubset(FetchLimit, S)

(* A TreeSet of definitions that compares with compareToIgnoreCase: of     *)
(* those that differ only in case it keeps the one that comes first.       *)
TreeSets(D) ==
    {G \in SUBSET D : \A d \in D : \E g \in G :
        {x \in G : WithoutCase[x] = WithoutCase[d]} = {g}}

Without(D, G) == {d \in D : \A g \in G : WithoutCase[d] # WithoutCase[g]}

(* Sets.union of the common definitions, those of flow 1 and those of      *)
(* flow 2, from which contains of a TreeSet keeps away what it has.  The   *)
(* mutant forgets those that only flow 2 has.                              *)
UnionOfFirst(group1, group2) == group1

UnionOfGroups(group1, group2) == group1 \cup Without(group2, group1)

(* The jobs of the two flows under each of the definitions.  The entry of  *)
(* flow 2 is put after that of flow 1, and over it if the two are one flow.*)
ByDefinition(definitions, e, f, results1, results2) ==
    [d \in definitions |->
        [x \in {e, f} |-> Defined(IF x = f THEN results2 ELSE results1, d)]]

Groups(results) == TreeSets({JobDefinition[r] : r \in results})

(* compareFlows, for the rows of the two queries. *)
Comparisons(e, f, results1, results2) ==
    IF results1 = {} \/ results2 = {} THEN {<<>>}
    ELSE {ByDefinition(UnionOfGroups(group1, group2), e, f, results1, results2) :
             group1 \in Groups(results1), group2 \in Groups(results2)}

(* restCompare: the answer for the same two flows.  For every definition,  *)
(* the inner map of a flow replaces that of the flow before.               *)
RestAnswer(answer) == [d \in DOMAIN answer |-> Restrict(answer[d], {compared[2]})]

-----------------------------------------------------------------------------
TypeOK ==
    /\ Len(compared) \in {0, 2}
    /\ known \subseteq table
    /\ first \subseteq table
    /\ Len(comparison) <= 1
    /\ comparison # <<>> =>
          \A d \in DOMAIN comparison[1] : d \in {JobDefinition[r] : r \in table}

Init ==
    /\ compared = <<>>
    /\ known = {}
    /\ first = {}
    /\ comparison = <<>>

(* The reader is on another page.                                          *)
LeaveComparison ==
    /\ compared' = <<>>
    /\ known' = {}
    /\ first' = {}
    /\ comparison' = <<>>

(* compare, up to its first query. *)
CompareFirst(e, f) ==
    /\ compared' = <<e, f>>
    /\ known' = RowsOf(table, e) \cup RowsOf(table, f)
    /\ first' \in Fetchable(RowsOf(table, e))
    /\ comparison' = <<>>
    /\ UNCHANGED table

(* The second query, and the comparison. *)
CompareSecond ==
    /\ compared # <<>>
    /\ comparison = <<>>
    /\ \E results2 \in Fetchable(RowsOf(table, compared[2])) :
          \E answer \in Comparisons(compared[1], compared[2], first, results2) :
             comparison' = <<answer>>
    /\ UNCHANGED <<table, compared, known, first>>

-----------------------------------------------------------------------------
(* Property *)

(* "A map of Job Urls to the list of jobs corresponding to the 2 flow      *)
(* execution urls": every job that both queries could see is there once,   *)
(* under its definition and its flow, whatever is inserted in between, if  *)
(* the limit is not hit and no two definitions differ only in case.  The   *)
(* answer of the REST API has as much of the second flow.                  *)
Within(S) ==
    /\ \A e \in {Execution[r] : r \in S} : Cardinality(RowsOf(S, e)) <= FetchLimit
    /\ \A r, s \in S : WithoutCase[JobDefinition[r]] = WithoutCase[JobDefinition[s]]
                          => JobDefinition[r] = JobDefinition[s]

PlacesOf(r, answer) ==
    UNION {{<<d, e>> : e \in {x \in DOMAIN answer[d] : r \in answer[d][x]}} : d \in DOMAIN answer}

ComparisonComplete ==
    /\ comparison # <<>>
    /\ \A i \in {1, 2} : RowsOf(known, compared[i]) # {}
    /\ Within(RowsOf(table, compared[1]) \cup RowsOf(table, compared[2]))
    => \A r \in known :
          LET own == {<<JobDefinition[r], Execution[r]>>}
          IN  /\ PlacesOf(r, comparison[1]) = own
              /\ Execution[r] = compared[2] => PlacesOf(r, RestAnswer(comparison[1])) = own
=============================================================================
