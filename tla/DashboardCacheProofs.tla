------------------------ MODULE DashboardCacheProofs ------------------------
(***************************************************************************)
(* Proof that the home page never shows numbers older than the delay and   *)
(* the time of one request allow, for any number of overlapping requests.  *)
(***************************************************************************)
EXTENDS DashboardCache, TLAPS

Invariant == TypeOK /\ StalenessInv

(* Before the first request every number is the initial 0, and fresh.      *)
LEMMA DashboardInit == Init => Invariant
BY DashboardAssumption DEF Init, Invariant, TypeOK, StalenessInv, BoundedStaleness,
   Refreshed, Counts

(* No step of the clock or of a request breaks a type. *)
LEMMA DashboardTypeNext ==
    ASSUME Invariant, [Next]_vars
    PROVE  TypeOK'
<1> USE DEF Invariant, TypeOK, Counts
<1>1. CASE UNCHANGED vars
  BY <1>1 DEF vars, threadVars
<1>2. CASE Tick
  BY <1>2 DEF Tick, threadVars
<1>3. ASSUME NEW r \in Requests, Start(r) PROVE TypeOK'
  BY <1>3 DEF Start
<1>4. ASSUME NEW r \in Requests, Check(r) \/ QueryCount(r) \/ Stamp(r) \/ ListResults(r)
      PROVE  TypeOK'
  BY <1>4 DEF Check, QueryCount, Stamp, ListResults
<1>5. ASSUME NEW r \in Requests, AssignCount(r) PROVE TypeOK'
  BY <1>5 DEF AssignCount
<1>6. ASSUME NEW r \in Requests, ReadCount(r) PROVE TypeOK'
  <2>1. RenderOrder[step[r]] \in Counts
    BY DEF RenderOrder
  <2> QED BY <1>6, <2>1 DEF ReadCount
<1> QED BY <1>1, <1>2, <1>3, <1>4, <1>5, <1>6 DEF Next, Dashboard

(* An overlapping refresh may overwrite a number with an older one, but    *)
(* the older one was counted within the time of one request.               *)
LEMMA DashboardStalenessNext ==
    ASSUME Invariant, [Next]_vars
    PROVE  StalenessInv'
<1> USE DashboardAssumption
    DEF Invariant, TypeOK, StalenessInv, BoundedStaleness, Refreshed, Counts
<1>1. CASE UNCHANGED vars
  BY <1>1 DEF vars, threadVars
<1>2. CASE Tick
  BY <1>2 DEF Tick, threadVars
<1>3. ASSUME NEW r \in Requests, Start(r) PROVE StalenessInv'
  BY <1>3 DEF Start
<1>4. ASSUME NEW r \in Requests, Check(r) PROVE StalenessInv'
  <2>1. /\ pc[r] = "check" /\ step[r] = 1
        /\ UNCHANGED <<now, lastFetch, count, step, started, counted, shown>>
    BY <1>4 DEF Check
  <2>2. /\ pc'[r] \in {"query", "list"}
        /\ pc'[r] = "list" => started[r] <= lastFetch + FetchDelay
        /\ \A q \in Requests : q # r => pc'[q] = pc[q]
    BY <1>4 DEF Check
  <2>3. ASSUME NEW c \in Counts, pc'[r] = "list"
        PROVE  started[r] <= count[c] + FetchDelay + RequestTime
    <3>1. started[r] <= lastFetch + FetchDelay /\ lastFetch <= count[c] + RequestTime
      BY <2>2, <2>3
    <3>2. started[r] \in Nat /\ lastFetch \in Nat /\ count[c] \in Nat
      OBVIOUS
    <3> QED BY <3>1, <3>2
  <2>4. \A c \in Counts : ~ Refreshed(r, c)'
    BY <2>1, <2>2
  <2>5. \A q \in Requests, c \in Counts :
           /\ Refreshed(q, c)' => started[q] <= count[c] + RequestTime
           /\ pc'[q] \in {"list", "render"} =>
                  started[q] <= count[c] + FetchDelay + RequestTime
    BY <2>1, <2>2, <2>3, <2>4
  <2> QED BY <2>1, <2>2, <2>5
<1>5. ASSUME NEW r \in Requests, QueryCount(r) PROVE StalenessInv'
  BY <1>5 DEF QueryCount
<1>6. ASSUME NEW r \in Requests, AssignCount(r) PROVE StalenessInv'
  <2>1. /\ pc[r] = "assign" /\ started[r] <= counted[r] /\ now <= started[r] + RequestTime
        /\ now <= counted[r] + RequestTime
    BY <1>6 DEF AssignCount
  <2>2. /\ count'[step[r]] = counted[r]
        /\ \A c \in Counts : c # step[r] => count'[c] = count[c]
        /\ UNCHANGED <<now, lastFetch, started, counted, shown>>
    BY <1>6 DEF AssignCount
  <2>3. \A c \in Counts : lastFetch' <= count'[c] + RequestTime
    BY <2>1, <2>2
  <2>4. ASSUME NEW q \in Requests, q # r
        PROVE  /\ pc'[q] = pc[q] /\ step'[q] = step[q]
               /\ \A c \in Counts :
                     /\ Refreshed(q, c) => started[q] <= count'[c] + RequestTime
                     /\ pc[q] \in {"list", "render"} =>
                            started[q] <= count'[c] + FetchDelay + RequestTime
    BY <1>6, <2>1, <2>2, <2>4 DEF AssignCount
  <2>5. \A c \in Counts : Refreshed(r, c)' => started[r] <= count'[c] + RequestTime
    BY <1>6, <2>1, <2>2 DEF AssignCount
  <2>6. pc'[r] \in {"query", "stamp"}
    BY <1>6 DEF AssignCount
  <2> QED BY <2>1, <2>2, <2>3, <2>4, <2>5, <2>6
<1>7. ASSUME NEW r \in Requests, Stamp(r) PROVE StalenessInv'
  BY <1>7 DEF Stamp
<1>8. ASSUME NEW r \in Requests, ListResults(r) PROVE StalenessInv'
  BY <1>8 DEF ListResults
<1>9. ASSUME NEW r \in Requests, ReadCount(r) PROVE StalenessInv'
  <2> DEFINE k == RenderOrder[step[r]]
  <2>1. k \in Counts /\ shown' = [shown EXCEPT ![r][k] = count[k]]
    BY <1>9 DEF ReadCount, RenderOrder
  <2> HIDE DEF k
  <2>2. started[r] <= count[k] + FetchDelay + RequestTime
    BY <1>9, <2>1 DEF ReadCount
  <2>3. \A q \in Requests, c \in Counts :
            started[q] <= shown'[q][c] + FetchDelay + RequestTime
    BY <2>1, <2>2
  <2> QED BY <1>9, <2>3 DEF ReadCount
<1> QED BY <1>1, <1>2, <1>3, <1>4, <1>5, <1>6, <1>7, <1>8, <1>9 DEF Next, Dashboard

(* No page shows a number older than FETCH_DELAY and the time of a request.*)
THEOREM DashboardStaleness == Spec => []BoundedStaleness
<1>1. Invariant /\ [Next]_vars => Invariant'
  BY DashboardTypeNext, DashboardStalenessNext DEF Invariant
<1>2. Invariant => BoundedStaleness
  BY DEF Invariant, StalenessInv
<1> QED BY DashboardInit, <1>1, <1>2, PTL DEF Spec
=============================================================================
