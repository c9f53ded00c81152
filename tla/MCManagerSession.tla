-------------------------- MODULE MCManagerSession --------------------------
(* Two resource managers and two executors, for TLC. *)
EXTENDS ManagerSession

MCIds == <<"rm1", "rm2">>
=============================================================================
