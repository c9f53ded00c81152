---------------------------- MODULE HistorySite -----------------------------
(***************************************************************************)
(* A reader with one window, who goes back and forth between the history   *)
(* pages with their graphs and the comparison of flow executions, while    *)
(* the executors of the daemon insert rows.                                *)
(***************************************************************************)
EXTENDS HistoryGraph

CONSTANTS
    WithoutCase,        \* a job definition, without regard to case
    FetchLimit          \* setMaxRows(100) of the comparison

VARIABLES compared, known, first, comparison

Comparison == INSTANCE FlowComparison

ASSUME SiteAssumption == Comparison!ComparisonAssumption

comparisonVars == <<compared, known, first, comparison>>
allVars == <<siteVars, comparisonVars>>

SiteTypeOK == GraphTypeOK /\ Comparison!TypeOK

SiteInit == GraphInit /\ Comparison!Init

Leave ==
    /\ subject' = "none"
    /\ asked' = {}
    /\ listed' = <<>>
    /\ columns' = <<>>
    /\ loaded' = FALSE
    /\ answered' = {}
    /\ graph' = <<>>
    /\ LeaveGraph

InsertRow(r) ==
    /\ Insert(r)
    /\ UNCHANGED <<tooltipVars, comparisonVars>>

OpenFlowHistory == FlowHistory /\ LeaveGraph /\ Comparison!LeaveComparison

OpenJobHistory(d) == JobHistory(d) /\ LeaveGraph /\ Comparison!LeaveComparison

GraphArrives ==
    /\ GraphLoaded
    /\ UNCHANGED <<tooltipVars, comparisonVars>>

PointAt(x) == MouseMove(x) /\ UNCHANGED comparisonVars

Compare(e, f) == Comparison!CompareFirst(e, f) /\ Leave

Compared ==
    /\ Comparison!CompareSecond
    /\ UNCHANGED <<pageVars, graphVars, tooltipVars>>

SiteNext ==
    \/ \E r \in Rows : InsertRow(r)
    \/ OpenFlowHistory
    \/ \E d \in JobDefinitions : OpenJobHistory(d)
    \/ GraphArrives
    \/ \E x \in Positions : PointAt(x)
    \/ \E e, f \in Executions(Rows) : Compare(e, f)
    \/ Compared

SiteSpec == SiteInit /\ [][SiteNext]_allVars

(* compare: every job that both queries could see is in the comparison,    *)
(* once, under its definition and its execution (as FlowComparison states  *)
(* it), although rows are inserted and pages are loaded meanwhile.         *)
ComparisonComplete == Comparison!ComparisonComplete
=============================================================================
