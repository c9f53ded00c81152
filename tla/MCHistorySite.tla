--------------------------- MODULE MCHistorySite ----------------------------
(* Seven rows of four executions, of which two overlap unless some rows are  *)
(* missing, with two job definitions that differ only in case, for TLC.    *)
EXTENDS HistorySite

MCRows == 1 .. 7
MCFinishTime == [r \in MCRows |-> 2 * r]
MCJobDefinition == <<"d2", "d1", "D2", "d2", "d1", "d1", "d2">>
MCWithoutCase == [d1 |-> "d1", d2 |-> "d2", D2 |-> "d2"]
MCScore == <<2, 1, 1, 0, 2, 1, 0>>

MCExecutions == <<"e1", "e1", "e2", "e1", "e3", "e3", "e4">>

(* Between executions, at one, and after the last.  Before the first as well,
   when the first ones are not shown. *)
MCPositions == {7, 12, 15}
=============================================================================
