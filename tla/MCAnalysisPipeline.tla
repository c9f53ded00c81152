------------------------- MODULE MCAnalysisPipeline -------------------------
(* Values for TLC: two kinds of application; the cfg files bound each run. *)
EXTENDS AnalysisPipeline, TLC

CONSTANTS a1, a2        \* applications

(* a1 succeeds and a2 fails: each of the two queries finds one. *)
MCFinalStatus ==
    [a \in Apps |-> IF a = a2 THEN "FAILED" ELSE "SUCCEEDED"]

ExecutorSymmetry == Permutations(Executors)
=============================================================================
