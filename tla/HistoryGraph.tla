---------------------------- MODULE HistoryGraph ----------------------------
(***************************************************************************)
(* The tooltip of the graph on the history pages.  A reader moves the      *)
(* mouse over the graph; the script looks up the execution next to it and  *)
(* shows the parts of that execution that waste most.                      *)
(*                                                                         *)
(* A position of the mouse is the time below it: the scale of the axis is  *)
(* strictly increasing.  The height of the tooltip is left out.            *)
(***************************************************************************)
EXTENDS HistoryPages, Integers

CONSTANTS
    Positions,          \* places of the mouse over the graph
    HalfDay,            \* what the axis shows on either side of the executions
    TopLimit            \* jobLimit

ASSUME GraphAssumption ==
    /\ Positions \subseteq Int
    /\ HalfDay \in Nat
    /\ TopLimit \in Nat

VARIABLES
    mouse,              \* <<>>, or <<x>> once it has been moved over the graph
    tooltip             \* <<>>, or <<what it shows>>

tooltipVars == <<mouse, tooltip>>
siteVars == <<vars, tooltipVars>>

-----------------------------------------------------------------------------
(* updateExecTimezone throws when the page has more rows than the data has *)
(* records; the graph is then never plotted.                               *)
Plotted == loaded /\ Len(listed) <= Len(graph)

(* The domain of the axis, without the ends it would have for no records.  *)
OverGraph(x) ==
    graph # <<>> => graph[1].time - HalfDay <= x /\ x <= Last(graph).time + HalfDay

(* bisector(...).left of d3, which counts the records from 0, from lo on.  *)
BisectLeft(data, x, from) ==
    LET ends == 0 .. Len(data)
        search[range \in ends \X ends] ==
            LET lo == range[1]
                hi == range[2]
                mid == (lo + hi) \div 2
            IN  IF lo >= hi THEN lo
                ELSE search[IF data[mid + 1].time < x THEN <<mid + 1, hi>> ELSE <<lo, mid>>]
    IN  search[<<from, Len(data)>>]

(* The record after the mouse; the mutant lets it be the first one.        *)
RightOfMouseFromZero(x) == 1 + BisectLeft(graph, x, 0)

RightOfMouse(x) == 1 + BisectLeft(graph, x, 1)

(* The record mousemove shows, or 0 where it throws: there is no record    *)
(* after the mouse, or none at all.                                        *)
Pointed(x) ==
    IF Len(graph) = 1 THEN 1
    ELSE IF graph = <<>> THEN 0
    ELSE LET right == RightOfMouse(x)
             left == right - 1
         IN  IF {left, right} \subseteq DOMAIN graph
             THEN IF x - graph[left].time > graph[right].time - x THEN right ELSE left
             ELSE 0

(* The orders in which sort may leave the parts of a record; it leaves     *)
(* open how equal scores are ordered.  The mutant compares the wrong way.  *)
Ascending(record) ==
    {s \in SetToSeqs(DOMAIN record.parts) :
        \A i, j \in DOMAIN s : i < j => record.scores[s[i]] <= record.scores[s[j]]}

ByScore(record) ==
    {s \in SetToSeqs(DOMAIN record.parts) :
        \A i, j \in DOMAIN s : i < j => record.scores[s[i]] >= record.scores[s[j]]}

(* Up to TopLimit parts, as far as they have a score, and none for a       *)
(* record without a score.                                                 *)
TopParts(record) ==
    IF record.score = 0 THEN {<<>>}
    ELSE {LET ends == {i \in DOMAIN s : i > TopLimit \/ record.scores[s[i]] = 0}
          IN  SubSeq(s, 1, IF ends = {} THEN Len(s) ELSE Min(ends) - 1) : s \in ByScore(record)}

(* getGraphTooltipContent of flowhistoryform.js numbers a job by its place *)
(* in jobDefList; that of jobhistoryform.js a stage by its place in the    *)
(* record.                                                                 *)
FlowTooltipContent(record) ==
    LET jobDefList == JobNumbers
        place(d) == CHOOSE n \in DOMAIN jobDefList : jobDefList[n] = d
    IN  {[i \in DOMAIN s |-> [part |-> s[i], number |-> place(record.parts[s[i]])]] :
            s \in TopParts(record)}

JobTooltipContent(record) ==
    {[i \in DOMAIN s |-> [part |-> s[i], number |-> s[i]]] : s \in TopParts(record)}

-----------------------------------------------------------------------------
GraphTypeOK ==
    /\ TypeOK
    /\ mouse \in {<<>>} \cup {<<x>> : x \in Positions}
    /\ Len(tooltip) <= 1
    /\ tooltip # <<>> =>
          /\ tooltip[1].record \in DOMAIN graph
          /\ \A i \in DOMAIN tooltip[1].top : tooltip[1].top[i].number \in Nat \ {0}

GraphInit ==
    /\ Init
    /\ mouse = <<>>
    /\ tooltip = <<>>

LeaveGraph == mouse' = <<>> /\ tooltip' = <<>>

MouseMove(x) ==
    /\ Plotted
    /\ OverGraph(x)
    /\ mouse' = <<x>>
    /\ IF Pointed(x) = 0 THEN tooltip' = tooltip
       ELSE \E top \in IF subject = "flow" THEN FlowTooltipContent(graph[Pointed(x)])
                       ELSE JobTooltipContent(graph[Pointed(x)]) :
               tooltip' = <<[record |-> Pointed(x), top |-> top]>>
    /\ UNCHANGED vars

-----------------------------------------------------------------------------
(* Properties *)

Distance(m, n) == IF m < n THEN n - m ELSE m - n

(* mousemove: "Compute tooltip to be shown depending on mouse position".   *)
(* The tooltip shows the execution nearest to the mouse, wherever the      *)
(* mouse came from, unless the mouse is after the last of several          *)
(* executions: there the handler throws and the tooltip stays as it was.   *)
NearestShown ==
    mouse # <<>> /\ graph # <<>> =>
        \/ mouse[1] > Last(graph).time /\ Len(graph) > 1
        \/ /\ tooltip # <<>>
           /\ \A i \in DOMAIN graph :
                  Distance(graph[tooltip[1].record].time, mouse[1])
                    <= Distance(graph[i].time, mouse[1])

(* The parts in the tooltip are the ones with the largest scores.  None is *)
(* missing that has a score, up to the limit, and if the limit cuts none   *)
(* off, those shown account for the whole score of the execution.          *)
TopPartsShown ==
    tooltip # <<>> =>
        LET record == graph[tooltip[1].record]
            shown == {tooltip[1].top[i].part : i \in DOMAIN tooltip[1].top}
            score(S) == Total(record.scores, S)
            rest == DOMAIN record.parts \ shown
        IN  /\ \A i \in shown, j \in rest : record.scores[i] >= record.scores[j]
            /\ Cardinality(shown) = Len(tooltip[1].top)
            /\ IF Len(tooltip[1].top) < TopLimit THEN score(shown) = record.score
               ELSE score(shown) <= record.score
=============================================================================
