----------------------------- MODULE MCRegistry -----------------------------
(* Values for TLC: two supported types, and for each file a type that is *)
(* missing in it.                                                          *)
EXTENDS Registry, TLC

CONSTANTS mapreduce, spark, unfetched, unjudged, unclassified

MCTypes == <<unclassified, mapreduce, unfetched, spark, unjudged>>
MCFetched == AllTypes \ {unfetched}
MCJudged == AllTypes \ {unjudged}
MCClassified == AllTypes \ {unclassified}

RequestSymmetry == Permutations(Requests)
=============================================================================
