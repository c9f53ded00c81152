--------------------------- MODULE MCHistoryPages ---------------------------
(* Seven rows of four executions, of which two overlap unless some rows    *)
(* are missing, and four rows of two executions, for TLC.                  *)
EXTENDS HistoryPages

MCRows == 1 .. 7
MCFinishTime == [r \in MCRows |-> r]
MCJobDefinition == [r \in MCRows |-> IF r \in {2, 6} THEN "d1" ELSE "d2"]

MCExecutions == <<"e1", "e1", "e2", "e1", "e3", "e3", "e4">>

MCScore == [r \in MCRows |-> r % 3]
MCFewScore == [r \in 1 .. 4 |-> r]

MCFewRows == 1 .. 4
MCFewFinishTime == [r \in MCFewRows |-> r]
MCFewJobDefinition == <<"d1", "d2", "d1", "d1">>
MCFewExecutions == <<"e1", "e1", "e2", "e2">>
=============================================================================
