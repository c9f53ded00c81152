-------------------------- MODULE MCDashboardCache --------------------------
(* Symmetric requests for TLC. *)
EXTENDS DashboardCache, TLC

RequestSymmetry == Permutations(Requests)
=============================================================================
