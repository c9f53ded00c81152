---------------------------- MODULE MCSearchSite ----------------------------
(* The form with a text and blanks for each input, and six rows, two of    *)
(* which finished at the same time, for TLC.                               *)
EXTENDS SearchSite

CONSTANTS anna, bert, skew, application, flow, blank

MCTexts == [id |-> {application, blank}, flow |-> {flow, blank}, user |-> {anna, blank},
            date |-> {"02/02/2016"}]
MCTimestamp == [d \in {"02/02/2016"} |-> "2"]
MCParseTime == [t \in {"2"} |-> 2]

MCRows == 1 .. 6
MCUser == [r \in MCRows |-> IF r = 6 THEN bert ELSE anna]
MCSeverity == [r \in MCRows |-> r % 3]
MCAnalysis == [r \in MCRows |-> [x \in {skew} |-> IF r > 4 THEN -1 ELSE r % 2]]
MCStartTime == [r \in MCRows |-> 7 - r]
MCFinishTime == [r \in MCRows |-> IF r = 4 THEN 3 ELSE r]

AllRows == [user |-> Anything, severity |-> Absent, analysis |-> Anything,
            startBegin |-> Absent, startEnd |-> Absent,
            finishBegin |-> Absent, finishEnd |-> Absent]

MCSearches == {AllRows,
               [AllRows EXCEPT !.user = anna, !.startBegin = 0],
               [AllRows EXCEPT !.severity = 0, !.analysis = skew,
                               !.finishBegin = 2, !.finishEnd = 5]}

MCTieBreaks == {[r \in MCRows |-> r], [r \in MCRows |-> 10 - r]}
=============================================================================
