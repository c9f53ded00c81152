--------------------------- MODULE DashboardCache ---------------------------
(***************************************************************************)
(* The home page of the web application: the numbers of analysed, critical *)
(* and severe jobs are kept in static fields of the controller, which every*)
(* request thread refreshes and reads without a lock.                      *)
(*                                                                         *)
(* A number is represented by the tick at which the table was asked for it *)
(* (0: the initial 0), since all that matters is how old it is.            *)
(***************************************************************************)
EXTENDS Naturals

CONSTANTS
    Requests,       \* threads that serve the home page
    FetchDelay,     \* FETCH_DELAY
    RequestTime,    \* ticks a request may take (assumed)
    MaxTime         \* bound: last tick of the clock

ASSUME DashboardAssumption ==
    /\ FetchDelay \in Nat
    /\ RequestTime \in Nat
    /\ MaxTime \in Nat

(* _numJobsAnalyzed, _numJobsCritical, _numJobsSevere, in the order of the *)
(* refresh, and the order in which the page reads them.                    *)
Counts == 1 .. 3
RenderOrder == [n \in Counts |-> IF n = 1 THEN 1 ELSE 5 - n]

VARIABLES
    now,            \* the clock
    lastFetch,      \* _lastFetch
    count,          \* the three static numbers
    pc,             \* where each request is
    step,           \* which number it refreshes or reads next
    started,        \* its local variable now
    counted,        \* the answer of its last query
    shown           \* the numbers it has read for its page, at first its start

threadVars == <<pc, step, started, counted, shown>>
vars == <<now, lastFetch, count, threadVars>>

TypeOK ==
    /\ now \in Nat
    /\ lastFetch \in Nat
    /\ count \in [Counts -> Nat]
    /\ pc \in [Requests -> {"idle", "check", "query", "assign", "stamp", "list", "render"}]
    /\ step \in [Requests -> Counts]
    /\ started \in [Requests -> Nat]
    /\ counted \in [Requests -> Nat]
    /\ shown \in [Requests -> [Counts -> Nat]]

Init ==
    /\ now = FetchDelay + 1
    /\ lastFetch = 0
    /\ count = [c \in Counts |-> 0]
    /\ pc = [r \in Requests |-> "idle"]
    /\ step = [r \in Requests |-> 1]
    /\ started = [r \in Requests |-> 0]
    /\ counted = [r \in Requests |-> 0]
    /\ shown = [r \in Requests |-> [c \in Counts |-> 0]]

-----------------------------------------------------------------------------
Tick ==
    /\ now < MaxTime
    /\ \A r \in Requests : pc[r] # "idle" => now < started[r] + RequestTime
    /\ now' = now + 1
    /\ UNCHANGED <<lastFetch, count, threadVars>>

Start(r) ==
    /\ pc[r] = "idle"
    /\ pc' = [pc EXCEPT ![r] = "check"]
    /\ step' = [step EXCEPT ![r] = 1]
    /\ started' = [started EXCEPT ![r] = now]
    /\ shown' = [shown EXCEPT ![r] = [c \in Counts |-> now]]
    /\ UNCHANGED <<now, lastFetch, count, counted>>

(* The mutant claims the refresh before it has counted anything. *)
CheckStampingFirst(r) ==
    /\ pc[r] = "check"
    /\ IF started[r] > lastFetch + FetchDelay
       THEN /\ pc' = [pc EXCEPT ![r] = "query"]
            /\ lastFetch' = started[r]
       ELSE /\ pc' = [pc EXCEPT ![r] = "list"]
            /\ UNCHANGED lastFetch
    /\ UNCHANGED <<now, count, step, started, counted, shown>>

Check(r) ==
    /\ pc[r] = "check"
    /\ pc' = [pc EXCEPT ![r] =
                 IF started[r] > lastFetch + FetchDelay THEN "query" ELSE "list"]
    /\ UNCHANGED <<now, lastFetch, count, step, started, counted, shown>>

(* findRowCount and the assignment of its result are two steps. *)
QueryCount(r) ==
    /\ pc[r] = "query"
    /\ counted' = [counted EXCEPT ![r] = now]
    /\ pc' = [pc EXCEPT ![r] = "assign"]
    /\ UNCHANGED <<now, lastFetch, count, step, started, shown>>

AssignCount(r) ==
    /\ pc[r] = "assign"
    /\ count' = [count EXCEPT ![step[r]] = counted[r]]
    /\ IF step[r] = 3
       THEN /\ pc' = [pc EXCEPT ![r] = "stamp"]
            /\ step' = [step EXCEPT ![r] = 1]
       ELSE /\ pc' = [pc EXCEPT ![r] = "query"]
            /\ step' = [step EXCEPT ![r] = @ + 1]
    /\ UNCHANGED <<now, lastFetch, started, counted, shown>>

Stamp(r) ==
    /\ pc[r] = "stamp"
    /\ lastFetch' = started[r]
    /\ pc' = [pc EXCEPT ![r] = "list"]
    /\ UNCHANGED <<now, count, step, started, counted, shown>>

(* The latest fifty results go to this page only. *)
ListResults(r) ==
    /\ pc[r] = "list"
    /\ pc' = [pc EXCEPT ![r] = "render"]
    /\ UNCHANGED <<now, lastFetch, count, step, started, counted, shown>>

(* The static fields are read one after the other. *)
ReadCount(r) ==
    /\ pc[r] = "render"
    /\ LET c == RenderOrder[step[r]]
       IN  shown' = [shown EXCEPT ![r][c] = count[c]]
    /\ IF step[r] = 3
       THEN /\ pc' = [pc EXCEPT ![r] = "idle"]
            /\ UNCHANGED step
       ELSE /\ step' = [step EXCEPT ![r] = @ + 1]
            /\ UNCHANGED pc
    /\ UNCHANGED <<now, lastFetch, count, started, counted>>

Dashboard(r) ==
    \/ Start(r) \/ Check(r) \/ QueryCount(r) \/ AssignCount(r) \/ Stamp(r)
    \/ ListResults(r) \/ ReadCount(r)

Next == Tick \/ \E r \in Requests : Dashboard(r)

Spec == Init /\ [][Next]_vars

-----------------------------------------------------------------------------
(* Properties *)

(* However the requests overlap, no page shows a number that was counted   *)
(* more than FETCH_DELAY and the time of one request before it started:    *)
(* a slow refresh may bring back older numbers, but never that old.        *)
BoundedStaleness ==
    \A r \in Requests, c \in Counts :
        started[r] <= shown[r][c] + FetchDelay + RequestTime

(* Strengthening of BoundedStaleness that every step preserves. *)
Refreshed(r, c) ==
    \/ pc[r] \in {"query", "assign"} /\ c < step[r]
    \/ pc[r] = "stamp"

StalenessInv ==
    /\ lastFetch <= now
    /\ \A c \in Counts : lastFetch <= count[c] + RequestTime
    /\ \A r \in Requests :
          /\ pc[r] # "idle" => started[r] <= now /\ now <= started[r] + RequestTime
          /\ pc[r] = "check" => step[r] = 1
          /\ pc[r] = "assign" => started[r] <= counted[r]
          /\ \A c \in Counts :
                /\ Refreshed(r, c) => started[r] <= count[c] + RequestTime
                /\ pc[r] \in {"list", "render"} =>
                       started[r] <= count[c] + FetchDelay + RequestTime
    /\ BoundedStaleness
=============================================================================
