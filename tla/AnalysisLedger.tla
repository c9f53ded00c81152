--------------------------- MODULE AnalysisLedger ---------------------------
(***************************************************************************)
(* What the analysis daemon promises, without clocks, queues or threads.   *)
(*                                                                         *)
(* An application is collected at most once while the daemon runs, and     *)
(* never when the result table already has its row; a collected            *)
(* application is owed an analysis until a row is written for it or the    *)
(* daemon gives it up; rows are never taken back; a restart forgets        *)
(* everything but the rows.  Module AnalysisPipeline implements this.      *)
(***************************************************************************)
CONSTANT Apps       \* the applications the resource manager may report

VARIABLES
    stored,         \* applications with a row in the result table
    pending,        \* collected applications whose analysis is owed
    closed          \* collected applications the daemon has given up

vars == <<stored, pending, closed>>

TypeOK ==
    /\ stored \subseteq Apps
    /\ pending \subseteq Apps
    /\ closed \subseteq Apps

Init ==
    /\ stored = {}
    /\ pending = {}
    /\ closed = {}

(* A fetch hands over a set of applications none of which was seen before. *)
Collect ==
    \E S \in SUBSET (Apps \ (stored \cup pending \cup closed)) :
        /\ pending' = pending \cup S
        /\ UNCHANGED <<stored, closed>>

(* An analysis succeeds and its row is written. *)
Store(a) ==
    /\ a \in pending \ stored
    /\ stored' = stored \cup {a}
    /\ pending' = pending \ {a}
    /\ UNCHANGED closed

(* The row is written but the writer is told that it was not. *)
StoreUnconfirmed(a) ==
    /\ a \in pending \ stored
    /\ stored' = stored \cup {a}
    /\ \/ UNCHANGED <<pending, closed>>
       \/ /\ pending' = pending \ {a}
          /\ closed' = closed \cup {a}

(* The daemon gives applications up: one, or all a dying thread holds. *)
GiveUp ==
    \E S \in SUBSET pending :
        /\ pending' = pending \ S
        /\ closed' = closed \cup S
        /\ UNCHANGED stored

(* The process dies: only the table survives. *)
Restart ==
    /\ pending' = {}
    /\ closed' = {}
    /\ UNCHANGED stored

Next ==
    \/ Collect
    \/ \E a \in Apps : Store(a) \/ StoreUnconfirmed(a)
    \/ GiveUp
    \/ Restart

Spec == Init /\ [][Next]_vars
=============================================================================
