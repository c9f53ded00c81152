------------------------ MODULE ManagerSessionProofs ------------------------
(***************************************************************************)
(* Proof that no token of the main thread runs out, and that no job is     *)
(* lost to tokens of executors that do, for any number of resource         *)
(* managers, executors and jobs and any intervals that SessionAssumption   *)
(* admits.                                                                 *)
(*                                                                         *)
(* That the age of a token is below its lifetime is not inductive, for     *)
(* nothing renews a token of a thread that waits.  What is invariant is    *)
(* that the token is no older than the time of its update says, as far as  *)
(* that is counted; the check before each use does the rest.               *)
(***************************************************************************)
EXTENDS ManagerSession, TLAPS, FiniteSetTheorems

(* The token is authenticated after its update has been written down.      *)
TokenYoungerThanUpdate ==
    restarts = 0 /\ token >= 0 /\ updated < Longest => token <= updated

SessionInv == TypeOK /\ TokenYoungerThanUpdate /\ MainTokenAccepted

(* The assumption, one constant at a time. *)
LEMMA SessionConstants ==
    /\ Len(Ids) \in Nat \ {0} /\ DOMAIN Ids = 1 .. Len(Ids)
    /\ \A i \in DOMAIN Ids : Ids[i] \in Managers
    /\ RetryLimit \in Nat /\ UpdateInterval \in Nat /\ FetchDelay \in Nat
    /\ MaxFailovers \in Nat /\ MaxRestarts \in Nat
    /\ FetchInterval \in Nat \ {0} /\ RetryInterval \in Nat \ {0}
    /\ Lifetime \in Nat /\ Longest \in Nat
    /\ Longest = UpdateInterval + FetchDelay + 1
    /\ Longest < Lifetime
<1>1. /\ RetryLimit \in Nat /\ UpdateInterval \in Nat /\ FetchDelay \in Nat
      /\ MaxFailovers \in Nat /\ MaxRestarts \in Nat
      /\ FetchInterval \in Nat \ {0} /\ RetryInterval \in Nat \ {0}
      /\ Lifetime \in Nat
      /\ Lifetime > UpdateInterval + FetchDelay + FetchInterval + RetryInterval
  BY SessionAssumption DEF SessionAssumption
<1>2. Ids \in Seq(Managers) /\ Ids # <<>>
  BY SessionAssumption DEF SessionAssumption
<1>3. Len(Ids) \in Nat \ {0} /\ DOMAIN Ids = 1 .. Len(Ids)
  BY <1>2
<1>4. \A i \in DOMAIN Ids : Ids[i] \in Managers
  BY DEF Managers
<1> QED BY <1>1, <1>3, <1>4 DEF Longest

LEMMA SessionInit == Init => SessionInv
<1> SUFFICES ASSUME Init PROVE SessionInv
  OBVIOUS
<1> USE SessionConstants DEF Init
<1>1. TypeOK
  <2>1. node \in [Managers -> {"ACTIVE", "STANDBY", "DOWN"}]
    OBVIOUS
  <2>2. session \in [Executors -> [token : None .. Lifetime, updated : 0 .. UpdateInterval + 1]]
    BY DEF None, Unset
  <2>3. job \in [Jobs -> [place : Places, retries : 0 .. RetryLimit]]
    BY DEF Places
  <2>4. token \in Unset .. Lifetime /\ updated \in 0 .. Longest /\ next \in 1 .. Len(Ids) + 1
    BY DEF Unset
  <2>5. ha \in BOOLEAN /\ configured \in BOOLEAN /\ waited \in Nat
    OBVIOUS
  <2>6. /\ failovers \in 0 .. MaxFailovers /\ restarts \in 0 .. MaxRestarts
        /\ phase \in {"starting", "resolving", "fetching", "waiting", "dead"}
        /\ answer \in {"none", "apps", "refused", "failed"}
        /\ address \in Managers \cup {"none"}
        /\ due \in {FetchInterval, RetryInterval}
    OBVIOUS
  <2> HIDE DEF Init
  <2> QED BY <2>1, <2>2, <2>3, <2>4, <2>5, <2>6 DEF TypeOK
<1>2. TokenYoungerThanUpdate /\ MainTokenAccepted
  BY DEF TokenYoungerThanUpdate, MainTokenAccepted, Unset
<1> QED BY <1>1, <1>2 DEF SessionInv

(* Ages of tokens stay in their range, whatever happens to a token.        *)
LEMMA TokenAges ==
    ASSUME NEW t \in None .. Lifetime
    PROVE  /\ Older(t) \in None .. Lifetime
           /\ Used(t) \in 0 .. Lifetime
           /\ Forgotten(t) \in None .. Lifetime
           /\ t >= Unset => Older(t) >= Unset /\ Forgotten(t) >= Unset
BY SessionConstants DEF Older, Later, Used, Forgotten, None, Unset

(* A renewal never makes the token older than its update, and writes down  *)
(* a time that is counted.                                                 *)
LEMMA Renewal ==
    ASSUME TypeOK, NEW delay \in {0, FetchDelay}
    PROVE  /\ NewToken(delay).token \in {token, Unset}
           /\ NewToken(delay).updated \in 0 .. Longest
           /\ \/ NewToken(delay).token = Unset
              \/ NewToken(delay) = [token |-> token, updated |-> updated]
<1>1. updated \in 0 .. Longest /\ delay \in 0 .. Longest
  BY SessionConstants DEF TypeOK
<1> QED BY <1>1 DEF NewToken

LEMMA SessionTypeNext ==
    ASSUME TypeOK, [Next]_vars
    PROVE  TypeOK'
<1> USE SessionConstants DEF TypeOK
<1>1. CASE UNCHANGED vars
  BY <1>1 DEF vars, clusterVars, mainVars, tokenVars
<1>2. ASSUME NEW m \in Managers, StepDown(m) \/ Elect(m) \/ Recover(m) PROVE TypeOK'
  <2>1. node' \in [Managers -> {"ACTIVE", "STANDBY", "DOWN"}]
    BY <1>2 DEF StepDown, Elect, Recover
  <2>2. failovers' \in 0 .. MaxFailovers
    BY <1>2 DEF StepDown, Elect, Recover
  <2>3. UNCHANGED <<ha, restarts, mainVars, tokenVars, session, job>>
    BY <1>2 DEF StepDown, Elect, Recover
  <2> QED BY <2>1, <2>2, <2>3 DEF mainVars, tokenVars
<1>3. CASE Forget
  <2>1. token' \in Unset .. Lifetime
    <3>1. token' \in {token, Forgotten(token)}
      BY <1>3, Zenon DEF Forget
    <3> QED BY <3>1 DEF Forgotten, Unset
  <2>2. session' \in [Executors -> [token : None .. Lifetime, updated : 0 .. UpdateInterval + 1]]
    <3>1. \A e \in Executors : Forgotten(session[e].token) \in None .. Lifetime
      BY TokenAges
    <3>2. ASSUME NEW e \in Executors
          PROVE  [session[e] EXCEPT !.token = Forgotten(session[e].token)]
                    \in [token : None .. Lifetime, updated : 0 .. UpdateInterval + 1]
      BY <3>1
    <3>3. \/ UNCHANGED session
          \/ session' = [e \in Executors |->
                            [session[e] EXCEPT !.token = Forgotten(session[e].token)]]
      BY <1>3 DEF Forget
    <3>4. CASE UNCHANGED session
      BY <3>4
    <3> HIDE DEF TypeOK
    <3> QED BY <3>2, <3>3, <3>4
  <2>3. restarts' \in 0 .. MaxRestarts
    <3>1. restarts < MaxRestarts /\ restarts' = restarts + 1
      BY <1>3, Zenon DEF Forget
    <3> QED BY <3>1
  <2>4. UNCHANGED <<ha, node, failovers, mainVars, updated, job>>
    BY <1>3 DEF Forget
  <2> QED BY <2>1, <2>2, <2>3, <2>4 DEF mainVars
<1>4. ASSUME NEW j \in Jobs, Finish(j) PROVE TypeOK'
  BY <1>4 DEF Finish, Places, clusterVars, mainVars, tokenVars
<1>5. CASE ResolveConfigured
  BY <1>5 DEF ResolveConfigured, clusterVars, tokenVars
<1>6. CASE StartResolving
  <2>1. token' \in Unset .. Lifetime /\ updated' \in 0 .. Longest
    BY <1>6, Renewal DEF StartResolving, Unset
  <2>2. phase' = "resolving" /\ next' \in 1 .. Len(Ids) + 1
    BY <1>6 DEF StartResolving
  <2>3. UNCHANGED <<ha, clusterVars, configured, address, waited, due, answer, session, job>>
    BY <1>6 DEF StartResolving
  <2> QED BY <2>1, <2>2, <2>3 DEF clusterVars
<1>7. CASE AskState
  <2>1. token' \in Unset .. Lifetime
    BY <1>7, TokenAges DEF AskState, None, Unset
  <2>2. address' \in Managers \cup {"none"} /\ next' \in 1 .. Len(Ids) + 1
    BY <1>7 DEF AskState
  <2> QED BY <1>7, <2>1, <2>2 DEF AskState, clusterVars
<1>8. CASE Resolved
  BY <1>8 DEF Resolved, clusterVars, tokenVars
<1>9. CASE FetchAnalyticJobs
  <2>1. token' \in Unset .. Lifetime /\ updated' \in 0 .. Longest
    <3> DEFINE new == NewToken(FetchDelay)
    <3>1. new.token \in {token, Unset} /\ new.updated \in 0 .. Longest
      BY Renewal
    <3>2. token' \in {new.token, Used(new.token)} /\ updated' = new.updated
      BY <1>9 DEF FetchAnalyticJobs
    <3> HIDE DEF new
    <3>3. new.token \in Unset .. Lifetime
      BY <3>1 DEF Unset
    <3>4. Used(new.token) \in Unset .. Lifetime
      BY <3>3 DEF Used, Unset
    <3> QED BY <3>1, <3>2, <3>3, <3>4
  <2>2. job' \in [Jobs -> [place : Places, retries : 0 .. RetryLimit]]
    BY <1>9 DEF FetchAnalyticJobs, Places
  <2>3. answer' \in {"none", "apps", "refused", "failed"} /\ due' \in {FetchInterval, RetryInterval}
    BY <1>9 DEF FetchAnalyticJobs
  <2> QED BY <1>9, <2>1, <2>2, <2>3 DEF FetchAnalyticJobs, clusterVars
<1>10. CASE Wake
  BY <1>10 DEF Wake, clusterVars, tokenVars
<1>11. ASSUME NEW e \in Executors, NEW j \in Jobs, Analyse(e, j) PROVE TypeOK'
  <2> DEFINE s == IF session[e].token = None THEN [token |-> 0, updated |-> 0]
                  ELSE [session[e] EXCEPT !.token = Used(session[e].token)]
  <2>1. s \in [token : 0 .. Lifetime, updated : 0 .. UpdateInterval + 1]
    <3>1. session[e] \in [token : None .. Lifetime, updated : 0 .. UpdateInterval + 1]
      OBVIOUS
    <3>2. Used(session[e].token) \in 0 .. Lifetime
      BY <3>1, TokenAges
    <3>3. 0 \in 0 .. Lifetime /\ 0 \in 0 .. UpdateInterval + 1
      OBVIOUS
    <3> HIDE DEF TypeOK
    <3> QED BY <3>1, <3>2, <3>3
  <2>2. AfterFetch(s) \in [token : None .. Lifetime, updated : 0 .. UpdateInterval + 1]
    <3> HIDE DEF s
    <3>1. s \in [token : None .. Lifetime, updated : 0 .. UpdateInterval + 1]
      BY <2>1 DEF None
    <3>2. [token |-> Unset, updated |-> 0]
             \in [token : None .. Lifetime, updated : 0 .. UpdateInterval + 1]
      BY DEF None, Unset
    <3> QED BY <3>1, <3>2 DEF AfterFetch
  <2>3. Retried(j) \in [place : Places, retries : 0 .. RetryLimit]
    <3>1. job[j] \in [place : Places, retries : 0 .. RetryLimit]
      OBVIOUS
    <3> HIDE DEF TypeOK
    <3>2. job[j].retries \in 0 .. RetryLimit
      BY <3>1
    <3>3. job[j].retries < RetryLimit => job[j].retries + 1 \in 0 .. RetryLimit
      BY <3>2
    <3>4. {"retries", "dropped"} \subseteq Places
      BY DEF Places
    <3> QED BY <3>1, <3>3, <3>4 DEF Retried
  <2>4. session' = [session EXCEPT ![e] = AfterFetch(s)]
    BY <1>11 DEF Analyse
  <2>5. job' = [job EXCEPT ![j] = IF Accepted(s.token) THEN [place |-> "away", retries |-> 0]
                                  ELSE Retried(j)]
    BY <1>11 DEF Analyse
  <2>6. job' \in [Jobs -> [place : Places, retries : 0 .. RetryLimit]]
    BY <2>3, <2>5 DEF Places
  <2>7. session' \in [Executors -> [token : None .. Lifetime, updated : 0 .. UpdateInterval + 1]]
    BY <2>2, <2>4
  <2> QED BY <1>11, <2>6, <2>7 DEF Analyse, clusterVars, mainVars, tokenVars
<1>12. CASE Tick
  <2>1. token' \in Unset .. Lifetime
    BY <1>12, TokenAges DEF Tick, None, Unset
  <2>2. updated' \in 0 .. Longest /\ waited' \in Nat
    BY <1>12 DEF Tick, Later
  <2>3. \A e \in Executors : Older(session[e].token) \in None .. Lifetime
    BY TokenAges
  <2>4. \A e \in Executors : Later(session[e].updated, UpdateInterval + 1) \in 0 .. UpdateInterval + 1
    BY DEF Later
  <2>5. session' \in [Executors -> [token : None .. Lifetime, updated : 0 .. UpdateInterval + 1]]
    BY <1>12, <2>3, <2>4 DEF Tick
  <2> QED BY <1>12, <2>1, <2>2, <2>5 DEF Tick, clusterVars
<1> QED BY <1>1, <1>2, <1>3, <1>4, <1>5, <1>6, <1>7, <1>8, <1>9, <1>10, <1>11, <1>12
        DEF Next, MainStep, ExecutorStep

(* No step lets the token get older than its update.                       *)
LEMMA TokenYoungerNext ==
    ASSUME TypeOK, TokenYoungerThanUpdate, [Next]_vars
    PROVE  TokenYoungerThanUpdate'
<1> USE SessionConstants DEF TypeOK, TokenYoungerThanUpdate
<1>1. CASE UNCHANGED <<token, updated, restarts>>
  BY <1>1 DEF Longest
<1>2. CASE Forget
  BY <1>2 DEF Forget
<1>3. CASE StartResolving
  BY <1>3, Renewal DEF StartResolving, Longest, Unset, clusterVars
<1>4. CASE AskState
  BY <1>4 DEF AskState, Used, Longest, clusterVars
<1>5. CASE FetchAnalyticJobs
  <2>1. /\ token' \in {NewToken(FetchDelay).token, Used(NewToken(FetchDelay).token)}
        /\ updated' = NewToken(FetchDelay).updated /\ restarts' = restarts
    BY <1>5 DEF FetchAnalyticJobs, clusterVars
  <2> QED BY <2>1, Renewal DEF Used, Unset, Longest
<1>6. CASE Tick
  <2>1. token' = Older(token) /\ updated' = Later(updated, Longest) /\ restarts' = restarts
    BY <1>6 DEF Tick, clusterVars
  <2> QED BY <2>1 DEF Older, Later, Longest, Unset
<1>7. CASE \/ UNCHANGED vars
           \/ \E m \in Managers : StepDown(m) \/ Elect(m) \/ Recover(m)
           \/ \E j \in Jobs : Finish(j)
           \/ ResolveConfigured \/ Resolved \/ Wake \/ ExecutorStep
  <2>1. UNCHANGED <<token, updated, restarts>>
    BY <1>7 DEF vars, StepDown, Elect, Recover, Finish, ResolveConfigured, Resolved, Wake,
                ExecutorStep, Analyse, clusterVars, tokenVars
  <2> QED BY <2>1, <1>1
<1> QED BY <1>2, <1>3, <1>4, <1>5, <1>6, <1>7 DEF Next, MainStep

(* A token that fetchAnalyticJobs keeps was updated recently enough.       *)
LEMMA KeptTokenAccepted ==
    ASSUME TypeOK, TokenYoungerThanUpdate, restarts = 0
    PROVE  Accepted(NewToken(FetchDelay).token)
<1> USE SessionConstants DEF TypeOK
<1>1. CASE updated - FetchDelay > UpdateInterval
  BY <1>1 DEF NewToken, Accepted, Used, Unset
<1>2. CASE ~(updated - FetchDelay > UpdateInterval)
  <2>1. updated < Longest /\ NewToken(FetchDelay).token = token
    BY <1>2 DEF NewToken
  <2> QED BY <2>1 DEF TokenYoungerThanUpdate, Accepted, Used, Unset
<1> QED BY <1>1, <1>2

LEMMA AcceptedNext ==
    ASSUME SessionInv, [Next]_vars
    PROVE  MainTokenAccepted'
<1> USE DEF SessionInv, TypeOK, MainTokenAccepted
<1>1. CASE FetchAnalyticJobs
  <2>1. restarts' = 0 => Accepted(NewToken(FetchDelay).token)
    BY <1>1, KeptTokenAccepted DEF FetchAnalyticJobs, clusterVars
  <2> QED BY <1>1, <2>1 DEF FetchAnalyticJobs, clusterVars
<1>2. CASE Forget
  BY <1>2, SessionConstants DEF Forget
<1>3. CASE UNCHANGED <<answer, restarts>>
  BY <1>3
<1>4. CASE \/ UNCHANGED vars
           \/ \E m \in Managers : StepDown(m) \/ Elect(m) \/ Recover(m)
           \/ \E j \in Jobs : Finish(j)
           \/ ResolveConfigured \/ StartResolving \/ AskState \/ Resolved \/ Wake
           \/ ExecutorStep \/ Tick
  <2>1. UNCHANGED <<answer, restarts>>
    BY <1>4 DEF vars, StepDown, Elect, Recover, Finish, ResolveConfigured, StartResolving,
                AskState, Resolved, Wake, ExecutorStep, Analyse, Tick, clusterVars, mainVars
  <2> QED BY <2>1, <1>3
<1> QED BY <1>1, <1>2, <1>4 DEF Next, MainStep

(* The invariant holds in every reachable state.                           *)
THEOREM SessionInvariant == Spec => []SessionInv
<1>1. SessionInv /\ [Next]_vars => SessionInv'
  BY SessionTypeNext, TokenYoungerNext, AcceptedNext DEF SessionInv
<1> QED BY SessionInit, <1>1, PTL DEF Spec

(* The variables of the session keep their types.                          *)
THEOREM SessionTypes == Spec => []TypeOK
<1>1. SessionInv => TypeOK
  BY DEF SessionInv
<1> QED BY SessionInvariant, <1>1, PTL

(* As long as no server forgets tokens, no query of fetchAnalyticJobs is   *)
(* refused, although the two callers of updateAuthToken use two clocks.    *)
THEOREM MainThreadAuthenticated == Spec => []MainTokenAccepted
<1>1. SessionInv => MainTokenAccepted
  BY DEF SessionInv
<1> QED BY SessionInvariant, <1>1, PTL

-----------------------------------------------------------------------------
(* Jobs that are tried again.                                              *)
(*                                                                         *)
(* A job that an executor gave up is in the list of the next fetch, and is *)
(* tried once at every fetch, because without failovers no fetch fails and *)
(* the clock stands while a job is in the queue.  Each failure leaves an   *)
(* executor with a new token, and that token does not run out during the   *)
(* tries: a job was given up by as many executors as it has retries.       *)

Calm == failovers = 0 /\ restarts = 0

(* n rounds of the main thread. *)
Rounds(n) == n * FetchInterval

(* The time since the first failure of a job, at most.                     *)
SinceFailed(j) ==
    IF job[j].place = "retries" /\ phase = "waiting"
    THEN Rounds(job[j].retries - 1) + waited
    ELSE Rounds(job[j].retries)

(* Executors whose tokens are no older than that.                          *)
Renewed(j) == {e \in Executors : session[e].token <= SinceFailed(j)}

ListFetched ==
    /\ \A m \in Managers : node[m] = IF m = Ids[1] THEN "ACTIVE" ELSE "STANDBY"
    /\ address \in {"none", Ids[1]}
    /\ phase = "fetching" => address = Ids[1] /\ waited = 0
    /\ due = FetchInterval
    /\ phase = "waiting" => waited <= FetchInterval

TriedAtOnce ==
    \A j \in Jobs :
        /\ job[j].place = "queue" => phase = "waiting" /\ waited = 0
        /\ job[j].place = "retries" => job[j].retries >= 1
        /\ job[j].place = "listed" => job[j].retries = 0

TokensYoungerThanUpdates ==
    \A e \in Executors :
        session[e].token >= 0 /\ session[e].updated <= UpdateInterval =>
            session[e].token <= session[e].updated

OneFailureEach ==
    phase # "dead" =>
        \A j \in Jobs : job[j].place \in {"queue", "retries"} =>
            job[j].retries <= Cardinality(Renewed(j))

NoneDropped == \A j \in Jobs : job[j].place # "dropped"

JobsInv ==
    Calm =>
        /\ ListFetched
        /\ TriedAtOnce
        /\ TokensYoungerThanUpdates
        /\ TriesSuffice => OneFailureEach /\ NoneDropped

LEMMA RoundsGrow ==
    /\ \A n \in Nat : Rounds(n) \in Nat /\ Rounds(n + 1) = Rounds(n) + FetchInterval
    /\ \A m, n \in Nat : m <= n => Rounds(m) <= Rounds(n)
<1> USE SessionConstants
<1>1. \A n \in Nat : Rounds(n) \in Nat
  BY DEF Rounds
<1>2. \A n \in Nat : Rounds(n + 1) = Rounds(n) + FetchInterval
  BY DEF Rounds
<1>3. ASSUME NEW m \in Nat, NEW n \in Nat, m <= n
      PROVE  Rounds(m) <= Rounds(n)
  <2>1. PICK d \in Nat : n = m + d
    <3>1. n - m \in Nat /\ n = m + (n - m)
      BY <1>3
    <3> QED BY <3>1
  <2>2. (m + d) * FetchInterval = m * FetchInterval + d * FetchInterval
    OBVIOUS
  <2>3. d * FetchInterval \in Nat /\ m * FetchInterval \in Nat
    OBVIOUS
  <2> QED BY <2>1, <2>2, <2>3 DEF Rounds
<1> QED BY <1>1, <1>2, <1>3

LEMMA SinceFailedType ==
    ASSUME TypeOK, NEW j \in Jobs, job[j].place = "retries" => job[j].retries >= 1
    PROVE  SinceFailed(j) \in Nat
<1>1. job[j].retries \in Nat /\ waited \in Nat
  BY SessionConstants DEF TypeOK
<1>2. CASE job[j].place = "retries"
  <2>1. job[j].retries - 1 \in Nat
    BY <1>1, <1>2
  <2>2. Rounds(job[j].retries - 1) \in Nat /\ Rounds(job[j].retries) \in Nat
    BY <1>1, <2>1, RoundsGrow
  <2>3. Rounds(job[j].retries - 1) + waited \in Nat
    BY <1>1, <2>2
  <2> QED BY <2>2, <2>3 DEF SinceFailed
<1>3. CASE job[j].place # "retries"
  BY <1>1, <1>3, RoundsGrow DEF SinceFailed
<1> QED BY <1>2, <1>3

(* Calm was there before, and in it the managers keep their places.        *)
LEMMA CalmBefore ==
    ASSUME TypeOK, [Next]_vars, Calm'
    PROVE  Calm
<1> USE SessionConstants DEF TypeOK, Calm
<1>1. /\ failovers' = failovers \/ failovers' = failovers + 1
      /\ restarts' = restarts \/ restarts' = restarts + 1
  BY DEF Next, vars, clusterVars, MainStep, ExecutorStep, StepDown, Elect, Recover, Forget,
         Finish, ResolveConfigured, StartResolving, AskState, Resolved, FetchAnalyticJobs, Wake,
         Analyse, Tick
<1> QED BY <1>1

LEMMA CalmSteps ==
    ASSUME TypeOK, [Next]_vars, Calm, Calm', ListFetched
    PROVE  \/ UNCHANGED vars
           \/ \E j \in Jobs : Finish(j)
           \/ MainStep \/ ExecutorStep \/ Tick
<1> USE SessionConstants DEF TypeOK, Calm, ListFetched
<1>1. ASSUME NEW m \in Managers PROVE ~StepDown(m) /\ ~Elect(m) /\ ~Recover(m)
  <2>1. ~StepDown(m)
    BY DEF StepDown
  <2>2. Ids[1] \in Active
    <3>1. Ids[1] \in Managers
      OBVIOUS
    <3> QED BY <3>1 DEF Active
  <2>3. ~Elect(m) /\ ~Recover(m)
    BY <2>2 DEF Elect, Recover
  <2> QED BY <2>1, <2>3
<1>2. ~Forget
  BY DEF Forget
<1> QED BY <1>1, <1>2 DEF Next

LEMMA JobsInit == Init => JobsInv
<1> SUFFICES ASSUME Init PROVE JobsInv
  OBVIOUS
<1> USE SessionConstants DEF Init
<1>1. ListFetched
  BY DEF ListFetched
<1>2. TriedAtOnce /\ TokensYoungerThanUpdates
  BY DEF TriedAtOnce, TokensYoungerThanUpdates, None
<1>3. OneFailureEach /\ NoneDropped
  BY DEF OneFailureEach, NoneDropped
<1> QED BY <1>1, <1>2, <1>3 DEF JobsInv

(* The list of jobs is fetched from the one active manager, at every round.*)
LEMMA ListFetchedNext ==
    ASSUME SessionInv, Calm, Calm', [Next]_vars, ListFetched
    PROVE  ListFetched'
<1> USE SessionConstants DEF ListFetched
<1>0. TypeOK /\ TokenYoungerThanUpdate
  BY DEF SessionInv
<1>1. CASE UNCHANGED <<node, address, phase, due, waited>>
  BY <1>1
<1>2. CASE ResolveConfigured
  BY <1>2 DEF ResolveConfigured, clusterVars
<1>3. CASE StartResolving
  BY <1>3 DEF StartResolving, clusterVars
<1>4. CASE AskState
  <2>1. Ids[next] \in Managers
    BY <1>4 DEF AskState
  <2>2. address' = address \/ (address' = Ids[next] /\ IsActive(Ids[next]))
    BY <1>4 DEF AskState
  <2>3. address' \in {"none", Ids[1]}
    BY <2>1, <2>2 DEF IsActive
  <2> QED BY <1>4, <2>3 DEF AskState, clusterVars
<1>5. CASE Resolved
  BY <1>5 DEF Resolved, clusterVars
<1>6. CASE FetchAnalyticJobs
  <2>1. node[address] = "ACTIVE" /\ Accepted(NewToken(FetchDelay).token)
    BY <1>0, <1>6, KeptTokenAccepted DEF FetchAnalyticJobs, Calm
  <2>2. due' = FetchInterval
    BY <1>6, <2>1 DEF FetchAnalyticJobs
  <2> QED BY <1>6, <2>2 DEF FetchAnalyticJobs, clusterVars
<1>7. CASE Wake
  BY <1>7 DEF Wake, clusterVars
<1>8. CASE Tick
  <2>1. UNCHANGED <<node, address, phase, due>>
    BY <1>8 DEF Tick, clusterVars
  <2>2. phase \in {"waiting", "dead"}
    BY <1>8 DEF Tick
  <2>3. phase = "waiting" => waited < due /\ waited' = waited + 1
    BY <1>8 DEF Tick
  <2>4. waited \in Nat
    BY <1>0 DEF TypeOK
  <2> QED BY <2>1, <2>2, <2>3, <2>4
<1>9. CASE UNCHANGED vars \/ ExecutorStep \/ \E j \in Jobs : Finish(j)
  BY <1>1, <1>9 DEF vars, clusterVars, mainVars, ExecutorStep, Analyse, Finish
<1> QED BY <1>0, <1>2, <1>3, <1>4, <1>5, <1>6, <1>7, <1>8, <1>9, CalmSteps DEF MainStep

(* No job is in the queue while the clock runs.                            *)
LEMMA TriedAtOnceNext ==
    ASSUME SessionInv, Calm, Calm', [Next]_vars, ListFetched, TriedAtOnce
    PROVE  TriedAtOnce'
<1> USE SessionConstants DEF TriedAtOnce
<1>0. TypeOK
  BY DEF SessionInv
<1>1. CASE UNCHANGED <<job, phase, waited>>
  BY <1>1
<1>2. ASSUME NEW j \in Jobs, Finish(j) PROVE TriedAtOnce'
  BY <1>0, <1>2 DEF Finish, TypeOK, mainVars
<1>3. CASE ResolveConfigured \/ StartResolving \/ AskState \/ Resolved
  <2>1. job' = job /\ phase # "waiting"
    BY <1>3 DEF ResolveConfigured, StartResolving, AskState, Resolved
  <2> QED BY <2>1
<1>4. CASE FetchAnalyticJobs
  <2>1. phase' = "waiting" /\ waited' = waited /\ waited = 0
    BY <1>4 DEF FetchAnalyticJobs, ListFetched
  <2>2. \/ job' = job
        \/ job' = [j \in Jobs |-> IF job[j].place \in {"listed", "retries"}
                                   THEN [job[j] EXCEPT !.place = "queue"] ELSE job[j]]
    BY <1>4 DEF FetchAnalyticJobs
  <2>3. ASSUME NEW j \in Jobs, job'[j].place \in {"retries", "listed"}
        PROVE  job'[j] = job[j]
    <3>1. job[j] \in [place : Places, retries : 0 .. RetryLimit]
      BY <1>0 DEF TypeOK
    <3>2. job[j].place \in {"listed", "retries"} =>
             [job[j] EXCEPT !.place = "queue"].place = "queue"
      BY <3>1
    <3> QED BY <2>2, <2>3, <3>2
  <2> QED BY <2>1, <2>3
<1>5. CASE Wake
  <2>1. job' = job /\ waited >= due /\ due = FetchInterval /\ waited \in Nat
    BY <1>0, <1>5 DEF Wake, ListFetched, TypeOK
  <2>2. \A j \in Jobs : job[j].place # "queue"
    BY <2>1
  <2> QED BY <2>1, <2>2
<1>6. CASE Tick
  BY <1>6 DEF Tick
<1>7. ASSUME NEW e \in Executors, NEW j \in Jobs, Analyse(e, j) PROVE TriedAtOnce'
  <2>1. UNCHANGED <<phase, waited>>
    BY <1>7 DEF Analyse, mainVars
  <2>2. \E new \in {[place |-> "away", retries |-> 0], Retried(j)} : job' = [job EXCEPT ![j] = new]
    BY <1>7 DEF Analyse
  <2>3. /\ Retried(j).place \notin {"queue", "listed"}
        /\ Retried(j).place = "retries" => Retried(j).retries >= 1
    <3>1. job[j] \in [place : Places, retries : 0 .. RetryLimit]
      BY <1>0 DEF TypeOK
    <3>2. job[j].retries \in Nat
      BY <3>1
    <3>3. [job[j] EXCEPT !.place = "dropped"].place = "dropped"
      BY <3>1
    <3> QED BY <3>2, <3>3 DEF Retried
  <2>4. \A i \in Jobs : i # j => job'[i] = job[i]
    BY <1>0, <2>2 DEF TypeOK
  <2>5. job'[j] \in {[place |-> "away", retries |-> 0], Retried(j)}
    BY <1>0, <2>2 DEF TypeOK
  <2>6. /\ job'[j].place \notin {"queue", "listed"}
        /\ job'[j].place = "retries" => job'[j].retries >= 1
    BY <2>3, <2>5
  <2> QED BY <2>1, <2>4, <2>6
<1>8. CASE UNCHANGED vars
  BY <1>1, <1>8 DEF vars, mainVars
<1> QED BY <1>0, <1>2, <1>3, <1>4, <1>5, <1>6, <1>7, <1>8, CalmSteps DEF MainStep, ExecutorStep

(* An executor that is refused has a token that ran out, and leaves with a *)
(* new one; one that is accepted keeps its token or gets a new one.        *)
LEMMA AnalyseSession ==
    ASSUME TypeOK, TokensYoungerThanUpdates, NEW e \in Executors, NEW j \in Jobs, Analyse(e, j)
    PROVE  /\ \A d \in Executors : d # e => session'[d] = session[d]
           /\ \A i \in Jobs : i # j => job'[i] = job[i]
           /\ session'[e].token <= 0 \/ session'[e] = session[e]
           /\ session'[e].token >= 0 /\ session'[e].updated <= UpdateInterval =>
                 session'[e].token <= session'[e].updated
           /\ \/ job'[j] = [place |-> "away", retries |-> 0]
              \/ /\ job'[j] = Retried(j)
                 /\ session[e].token = Lifetime
                 /\ session'[e].token = Unset
<1> USE SessionConstants
<1> DEFINE s == IF session[e].token = None THEN [token |-> 0, updated |-> 0]
                ELSE [session[e] EXCEPT !.token = Used(session[e].token)]
<1>1. /\ session[e] = [token |-> session[e].token, updated |-> session[e].updated]
      /\ session[e].token \in None .. Lifetime /\ session[e].updated \in 0 .. UpdateInterval + 1
  BY DEF TypeOK
<1>2. PICK t, u : s = [token |-> t, updated |-> u]
  BY <1>1
<1>3. s.token = t /\ s.updated = u
  BY <1>2
<1>4. /\ t = Used(session[e].token) /\ t \in 0 .. Lifetime
      /\ u = (IF session[e].token = None THEN 0 ELSE session[e].updated)
      /\ u \in 0 .. UpdateInterval + 1
  <2>1. CASE session[e].token = None
    BY <2>1, <1>3 DEF Used, None
  <2>2. CASE session[e].token # None
    <3>1. s.token = Used(session[e].token) /\ s.updated = session[e].updated
      BY <2>2, <1>1
    <3> HIDE DEF s
    <3> QED BY <2>2, <3>1, <1>1, <1>3 DEF Used
  <2> QED BY <2>1, <2>2
<1>5. /\ job' = [job EXCEPT ![j] = IF Accepted(s.token) THEN [place |-> "away", retries |-> 0]
                                   ELSE Retried(j)]
      /\ session' = [session EXCEPT ![e] = AfterFetch(s)]
  BY DEF Analyse
<1> HIDE DEF s
<1>6. /\ \A d \in Executors : d # e => session'[d] = session[d]
      /\ \A i \in Jobs : i # j => job'[i] = job[i]
      /\ session'[e] = AfterFetch(s)
      /\ job'[j] = IF Accepted(t) THEN [place |-> "away", retries |-> 0] ELSE Retried(j)
  BY <1>3, <1>5 DEF TypeOK
<1>7. session[e].token >= 0 /\ session[e].updated <= UpdateInterval =>
         session[e].token <= session[e].updated
  BY DEF TokensYoungerThanUpdates
<1>8. CASE u > UpdateInterval
  <2>1. session'[e] = [token |-> Unset, updated |-> 0]
    BY <1>3, <1>6, <1>8 DEF AfterFetch
  <2>2. session'[e].token = Unset
    BY <2>1
  <2>3. ~Accepted(t) => session[e].token = Lifetime
    BY <1>1, <1>4 DEF Accepted, Used
  <2> QED BY <2>2, <2>3, <1>6 DEF Unset
<1>9. CASE ~(u > UpdateInterval)
  <2>1. session'[e] = [token |-> t, updated |-> u]
    BY <1>2, <1>3, <1>6, <1>9 DEF AfterFetch
  <2>2. session'[e].token = t /\ session'[e].updated = u
    BY <2>1
  <2>3. t <= u
    BY <1>1, <1>4, <1>7, <1>9 DEF Used, None
  <2>4. Accepted(t)
    BY <2>3, <1>4, <1>9 DEF Accepted, Used, Longest
  <2>5. t <= 0 \/ (session'[e] = session[e])
    <3>1. CASE session[e].token < 0
      BY <3>1, <1>4 DEF Used
    <3>2. CASE ~(session[e].token < 0)
      <4>1. t = session[e].token /\ u = session[e].updated
        BY <3>2, <1>1, <1>4 DEF Used, None
      <4> QED BY <4>1, <2>1, <1>1
    <3> QED BY <3>1, <3>2
  <2> QED BY <2>2, <2>3, <2>4, <2>5, <1>6
<1> QED BY <1>1, <1>4, <1>8, <1>9

LEMMA TokensYoungerNext ==
    ASSUME SessionInv, Calm, Calm', [Next]_vars, ListFetched, TokensYoungerThanUpdates
    PROVE  TokensYoungerThanUpdates'
<1> USE SessionConstants DEF TokensYoungerThanUpdates
<1>0. TypeOK
  BY DEF SessionInv
<1>1. CASE UNCHANGED session
  BY <1>1
<1>2. CASE Tick
  <2> SUFFICES ASSUME NEW e \in Executors, session'[e].token >= 0,
                      session'[e].updated <= UpdateInterval
               PROVE  session'[e].token <= session'[e].updated
    OBVIOUS
  <2>1. /\ session'[e].token = Older(session[e].token)
        /\ session'[e].updated = IF session[e].token = None THEN 0
                                 ELSE Later(session[e].updated, UpdateInterval + 1)
    BY <1>2 DEF Tick
  <2>2. session[e].token \in None .. Lifetime /\ session[e].updated \in 0 .. UpdateInterval + 1
    BY <1>0 DEF TypeOK
  <2> QED BY <2>1, <2>2 DEF Older, Later, None
<1>3. ASSUME NEW e \in Executors, NEW j \in Jobs, Analyse(e, j)
      PROVE  TokensYoungerThanUpdates'
  BY <1>0, <1>3, AnalyseSession
<1>4. CASE UNCHANGED vars \/ MainStep \/ \E j \in Jobs : Finish(j)
  BY <1>1, <1>4 DEF vars, MainStep, ResolveConfigured, StartResolving, AskState, Resolved,
                    FetchAnalyticJobs, Wake, Finish
<1> QED BY <1>0, <1>2, <1>3, <1>4, CalmSteps DEF ExecutorStep

(* If the bound on its tries grows as fast as the tokens, a job keeps the  *)
(* executors that gave it up.                                              *)
LEMMA RenewedStay ==
    ASSUME NEW j \in Jobs,
           \A e \in Executors : session[e].token <= SinceFailed(j) =>
                                    session'[e].token <= SinceFailed(j)'
    PROVE  /\ Cardinality(Renewed(j)) <= Cardinality(Renewed(j)')
           /\ Cardinality(Renewed(j)) \in Nat /\ Cardinality(Renewed(j)') \in Nat
<1>1. Renewed(j) \subseteq Renewed(j)' /\ Renewed(j)' \subseteq Executors
  BY DEF Renewed
<1>2. IsFiniteSet(Renewed(j)')
  BY <1>1, SessionAssumption, FS_Subset DEF SessionAssumption
<1> QED BY <1>1, <1>2, FS_Subset, FS_CardinalityType

(* The executor that gives up a job has not given it up before.            *)
LEMMA GivenUpByAnother ==
    ASSUME SessionInv, TriedAtOnce, TokensYoungerThanUpdates, TriesSuffice, OneFailureEach,
           NEW e \in Executors, NEW j \in Jobs, Analyse(e, j),
           job'[j] = Retried(j), session[e].token = Lifetime, session'[e].token = Unset
    PROVE  /\ job'[j].place = "retries"
           /\ job'[j].retries <= Cardinality(Renewed(j)')
<1> DEFINE r == job[j].retries
<1>0. TypeOK
  BY DEF SessionInv
<1>1. /\ job[j].place = "queue" /\ phase = "waiting" /\ waited = 0
      /\ phase' = phase /\ waited' = waited
      /\ r \in Nat /\ RetryLimit \in Nat
  <2>1. r \in Nat /\ RetryLimit \in Nat
    BY <1>0, SessionConstants DEF TypeOK
  <2>2. job[j].place = "queue" /\ phase' = phase /\ waited' = waited
    BY DEF Analyse, mainVars
  <2> QED BY <2>1, <2>2 DEF TriedAtOnce
<1>2. SinceFailed(j) = Rounds(r) /\ r <= Cardinality(Renewed(j))
  BY <1>1 DEF SinceFailed, OneFailureEach
<1>3. /\ IsFiniteSet(Executors) /\ Cardinality(Executors) \in Nat
      /\ Cardinality(Executors) <= RetryLimit
      /\ Rounds(Cardinality(Executors)) < Lifetime /\ Lifetime \in Nat
  BY SessionAssumption, SessionConstants, FS_CardinalityType
  DEF SessionAssumption, TriesSuffice, Rounds
<1>4. /\ Renewed(j) \subseteq Executors /\ IsFiniteSet(Renewed(j))
      /\ Cardinality(Renewed(j)) \in Nat
      /\ Cardinality(Renewed(j)) <= Cardinality(Executors)
  BY <1>3, FS_Subset, FS_CardinalityType DEF Renewed
<1>5. Rounds(r) < Lifetime /\ Rounds(r) \in Nat
  <2>1. Rounds(r) <= Rounds(Cardinality(Executors)) /\ Rounds(r) \in Nat
        /\ Rounds(Cardinality(Executors)) \in Nat
    <3>1. r <= Cardinality(Executors)
      BY <1>1, <1>2, <1>3, <1>4
    <3> HIDE DEF r
    <3> QED BY <1>1, <1>3, <3>1, RoundsGrow
  <2> QED BY <2>1, <1>3
<1>6. e \notin Renewed(j)
  BY <1>2, <1>3, <1>5 DEF Renewed
<1>7. Cardinality(Renewed(j) \cup {e}) = Cardinality(Renewed(j)) + 1
  BY <1>4, <1>6, FS_AddElement
<1>8. /\ Renewed(j) \cup {e} \subseteq Executors
      /\ Cardinality(Renewed(j) \cup {e}) <= Cardinality(Executors)
  BY <1>3, <1>4, FS_Subset
<1>9. job'[j] = [place |-> "retries", retries |-> r + 1]
  BY <1>1, <1>2, <1>3, <1>4, <1>7, <1>8 DEF Retried
<1>10. job'[j].place = "retries" /\ job'[j].retries = r + 1
  BY <1>9
<1>11. SinceFailed(j)' = Rounds(r)
  <2>1. SinceFailed(j)' = Rounds((r + 1) - 1) + 0
    BY <1>1, <1>10 DEF SinceFailed, Rounds
  <2>2. (r + 1) - 1 = r
    BY <1>1
  <2> QED BY <1>5, <2>1, <2>2
<1>12. \A d \in Executors : d # e => session'[d] = session[d]
  BY <1>0, AnalyseSession
<1>13. Renewed(j) \cup {e} \subseteq Renewed(j)'
  <2>1. Renewed(j) \subseteq Renewed(j)'
    BY <1>2, <1>6, <1>11, <1>12 DEF Renewed
  <2>2. Unset <= Rounds(r)
    BY <1>5 DEF Unset
  <2> QED BY <1>11, <2>1, <2>2 DEF Renewed
<1>14. IsFiniteSet(Renewed(j)') /\ Cardinality(Renewed(j)') \in Nat
  BY <1>3, FS_Subset, FS_CardinalityType DEF Renewed
<1>15. Cardinality(Renewed(j) \cup {e}) <= Cardinality(Renewed(j)')
  BY <1>13, <1>14, FS_Subset
<1> QED BY <1>1, <1>2, <1>4, <1>7, <1>10, <1>14, <1>15

LEMMA OneFailureNext ==
    ASSUME SessionInv, Calm, Calm', [Next]_vars, ListFetched, TriedAtOnce,
           TokensYoungerThanUpdates, TriesSuffice, OneFailureEach, NoneDropped
    PROVE  OneFailureEach' /\ NoneDropped'
<1> USE SessionConstants
<1>0. TypeOK
  BY DEF SessionInv
<1>1. ASSUME NEW i \in Jobs
      PROVE  /\ job[i].retries \in Nat /\ waited \in Nat
             /\ Rounds(job[i].retries) \in Nat
             /\ job[i].place = "retries" =>
                   /\ Rounds(job[i].retries - 1) \in Nat
                   /\ Rounds(job[i].retries) = Rounds(job[i].retries - 1) + FetchInterval
  <2>1. job[i].retries \in Nat /\ waited \in Nat
    BY <1>0 DEF TypeOK
  <2>2. job[i].place = "retries" =>
           job[i].retries - 1 \in Nat /\ (job[i].retries - 1) + 1 = job[i].retries
    BY <2>1 DEF TriedAtOnce
  <2> QED BY <2>1, <2>2, RoundsGrow
<1>2. ASSUME job' = job, session' = session, phase # "dead",
             \A i \in Jobs : SinceFailed(i) <= SinceFailed(i)',
             \A i \in Jobs : SinceFailed(i) \in Nat /\ SinceFailed(i)' \in Nat
      PROVE  OneFailureEach' /\ NoneDropped'
  <2>1. ASSUME NEW i \in Jobs, job[i].place \in {"queue", "retries"}
        PROVE  job[i].retries <= Cardinality(Renewed(i)')
    <3>1. \A e \in Executors : session[e].token \in None .. Lifetime
      BY <1>0 DEF TypeOK
    <3>2. \A e \in Executors : session[e].token <= SinceFailed(i) =>
                                  session'[e].token <= SinceFailed(i)'
      BY <1>2, <3>1 DEF None
    <3>3. job[i].retries <= Cardinality(Renewed(i))
      BY <1>2, <2>1 DEF OneFailureEach
    <3> QED BY <1>1, <3>2, <3>3, RenewedStay
  <2> QED BY <1>2, <2>1 DEF OneFailureEach, NoneDropped
<1>3. CASE UNCHANGED vars
  <2>1. job' = job /\ session' = session /\ phase' = phase /\ waited' = waited
    BY <1>3 DEF vars, mainVars
  <2> QED BY <2>1 DEF OneFailureEach, NoneDropped, Renewed, SinceFailed, Rounds
<1>4. ASSUME NEW j \in Jobs, Finish(j) PROVE OneFailureEach' /\ NoneDropped'
  <2>1. /\ job' = [job EXCEPT ![j] = [place |-> "listed", retries |-> 0]]
        /\ session' = session /\ phase' = phase /\ waited' = waited
    BY <1>4 DEF Finish, mainVars
  <2>2. job'[j].place = "listed" /\ \A i \in Jobs : i # j => job'[i] = job[i]
    BY <1>0, <2>1 DEF TypeOK
  <2>3. \A i \in Jobs : i # j => Renewed(i)' = Renewed(i)
    BY <2>1, <2>2 DEF Renewed, SinceFailed, Rounds
  <2> QED BY <2>1, <2>2, <2>3 DEF OneFailureEach, NoneDropped
<1>5. CASE ResolveConfigured \/ StartResolving \/ AskState \/ Resolved
  <2>1. /\ job' = job /\ session' = session
        /\ phase \in {"starting", "resolving"} /\ phase' # "waiting"
    BY <1>5 DEF ResolveConfigured, StartResolving, AskState, Resolved
  <2>2. \A i \in Jobs : /\ SinceFailed(i) = Rounds(job[i].retries)
                        /\ SinceFailed(i)' = Rounds(job[i].retries)
    BY <2>1 DEF SinceFailed, Rounds
  <2> QED BY <1>1, <1>2, <2>1, <2>2
<1>6. CASE FetchAnalyticJobs
  <2>1. /\ session' = session /\ phase = "fetching" /\ phase' = "waiting"
        /\ job' = [j \in Jobs |-> IF job[j].place \in {"listed", "retries"}
                                  THEN [job[j] EXCEPT !.place = "queue"] ELSE job[j]]
    <3>1. node[address] = "ACTIVE" /\ Accepted(NewToken(FetchDelay).token)
      BY <1>0, <1>6, KeptTokenAccepted
      DEF FetchAnalyticJobs, Calm, ListFetched, SessionInv
    <3> QED BY <1>6, <3>1 DEF FetchAnalyticJobs
  <2>2. ASSUME NEW i \in Jobs
        PROVE  \/ job'[i] = job[i] /\ job[i].place \notin {"listed", "retries"}
               \/ /\ job[i].place \in {"listed", "retries"}
                  /\ job'[i].place = "queue" /\ job'[i].retries = job[i].retries
    <3>1. job[i] \in [place : Places, retries : 0 .. RetryLimit]
      BY <1>0 DEF TypeOK
    <3>2. DEFINE new == [job[i] EXCEPT !.place = "queue"]
    <3>3. new.place = "queue" /\ new.retries = job[i].retries
      BY <3>1
    <3>4. job'[i] = IF job[i].place \in {"listed", "retries"} THEN new ELSE job[i]
      BY <2>1
    <3> QED BY <3>3, <3>4
  <2>3. ASSUME NEW i \in Jobs, job'[i].place \in {"queue", "retries"}
        PROVE  job'[i].retries <= Cardinality(Renewed(i)')
    <3>1. job'[i].retries = job[i].retries
      BY <2>2
    <3>2. CASE job[i].place = "listed"
      <4>1. job[i].retries = 0
        BY <3>2 DEF TriedAtOnce
      <4>2. IsFiniteSet(Renewed(i)') /\ Cardinality(Renewed(i)') \in Nat
        BY SessionAssumption, FS_Subset, FS_CardinalityType DEF SessionAssumption, Renewed
      <4> QED BY <3>1, <4>1, <4>2
    <3>3. CASE job[i].place = "retries" /\ job'[i].place = "queue"
      <4>1. SinceFailed(i) = Rounds(job[i].retries) /\ SinceFailed(i)' = Rounds(job[i].retries)
        BY <2>1, <3>1, <3>3 DEF SinceFailed, Rounds
      <4>2. Renewed(i)' = Renewed(i)
        BY <2>1, <4>1 DEF Renewed
      <4> QED BY <2>1, <3>1, <3>3, <4>2 DEF OneFailureEach
    <3>4. job'[i] = job[i] => job[i].place # "queue"
      BY <2>1 DEF TriedAtOnce
    <3> QED BY <2>2, <2>3, <3>2, <3>3, <3>4
  <2>4. \A i \in Jobs : job'[i].place # "dropped"
    BY <2>2 DEF NoneDropped
  <2> QED BY <2>1, <2>3, <2>4 DEF OneFailureEach, NoneDropped
<1>7. CASE Wake
  <2>1. /\ job' = job /\ session' = session /\ waited \in Nat
        /\ phase = "waiting" /\ phase' = "starting" /\ waited <= FetchInterval
    BY <1>0, <1>7 DEF Wake, ListFetched, TypeOK
  <2>2. ASSUME NEW i \in Jobs
        PROVE  /\ SinceFailed(i) <= SinceFailed(i)'
               /\ SinceFailed(i) \in Nat /\ SinceFailed(i)' \in Nat
    <3>1. SinceFailed(i)' = Rounds(job[i].retries)
      BY <2>1 DEF SinceFailed, Rounds
    <3>2. CASE job[i].place = "retries"
      <4>1. SinceFailed(i) = Rounds(job[i].retries - 1) + waited
        BY <2>1, <3>2 DEF SinceFailed
      <4> QED BY <1>1, <2>1, <3>1, <3>2, <4>1
    <3>3. CASE job[i].place # "retries"
      <4>1. SinceFailed(i) = Rounds(job[i].retries)
        BY <3>3 DEF SinceFailed
      <4> QED BY <1>1, <3>1, <4>1
    <3> QED BY <3>2, <3>3
  <2> QED BY <1>2, <2>1, <2>2
<1>8. CASE Tick
  <2>1. /\ job' = job /\ phase' = phase /\ \A i \in Jobs : job[i].place # "queue"
        /\ phase = "waiting" \/ phase = "dead"
        /\ phase = "waiting" => waited' = waited + 1
        /\ \A e \in Executors : session'[e].token = Older(session[e].token)
    BY <1>8 DEF Tick
  <2>2. ASSUME NEW i \in Jobs, job[i].place = "retries", phase = "waiting"
        PROVE  job[i].retries <= Cardinality(Renewed(i)')
    <3>1. /\ SinceFailed(i) = Rounds(job[i].retries - 1) + waited
          /\ SinceFailed(i)' = Rounds(job[i].retries - 1) + (waited + 1)
      BY <2>1, <2>2 DEF SinceFailed, Rounds
    <3>2. \A e \in Executors : session[e].token \in None .. Lifetime
      BY <1>0 DEF TypeOK
    <3>3. ASSUME NEW e \in Executors, session[e].token <= SinceFailed(i)
          PROVE  session'[e].token <= SinceFailed(i)'
      <4>1. SinceFailed(i) \in Nat /\ SinceFailed(i)' = SinceFailed(i) + 1
        BY <1>1, <2>2, <3>1
      <4>2. session[e].token \in Int /\ session'[e].token \in Int
        <5>1. Older(session[e].token) \in None .. Lifetime
          BY <3>2, TokenAges
        <5>2. \A t \in None .. Lifetime : t \in Int
          BY SessionConstants DEF None
        <5> QED BY <2>1, <3>2, <5>1, <5>2
      <4>3. session'[e].token <= session[e].token + 1
        BY <2>1, <3>2 DEF Older, Later, None
      <4> QED BY <3>3, <4>1, <4>2, <4>3
    <3>4. job[i].retries <= Cardinality(Renewed(i))
      BY <2>2 DEF OneFailureEach
    <3> QED BY <1>1, <3>3, <3>4, RenewedStay
  <2> QED BY <2>1, <2>2 DEF OneFailureEach, NoneDropped
<1>9. ASSUME NEW e \in Executors, NEW j \in Jobs, Analyse(e, j)
      PROVE  OneFailureEach' /\ NoneDropped'
  <2>1. /\ phase' = phase /\ waited' = waited /\ phase # "dead"
    BY <1>9 DEF Analyse, mainVars, TriedAtOnce
  <2>2. ASSUME NEW i \in Jobs, i # j, job[i].place \in {"queue", "retries"}
        PROVE  job[i].retries <= Cardinality(Renewed(i)')
    <3>1. SinceFailed(i) \in Nat
      BY <1>0, SinceFailedType DEF TriedAtOnce
    <3>2. job'[i] = job[i] /\ SinceFailed(i)' = SinceFailed(i)
      BY <1>0, <1>9, <2>1, <2>2, AnalyseSession DEF SinceFailed, Rounds
    <3>3. /\ \A d \in Executors : d # e => session'[d] = session[d]
          /\ session'[e].token <= 0 \/ session'[e] = session[e]
      BY <1>0, <1>9, AnalyseSession
    <3>4. session'[e].token \in None .. Lifetime
      <4>1. TypeOK'
        BY <1>0, <1>9, SessionTypeNext DEF Next, ExecutorStep
      <4> QED BY <4>1 DEF TypeOK
    <3>5. \A d \in Executors : session[d].token <= SinceFailed(i) =>
                                  session'[d].token <= SinceFailed(i)'
      BY <3>1, <3>2, <3>3, <3>4 DEF None
    <3>6. job[i].retries <= Cardinality(Renewed(i))
      BY <2>1, <2>2 DEF OneFailureEach
    <3> QED BY <1>1, <3>5, <3>6, RenewedStay
  <2>3. job'[j].place = "away" \/ (job'[j].place = "retries"
                                    /\ job'[j].retries <= Cardinality(Renewed(j)'))
    <3>1. CASE job'[j] = [place |-> "away", retries |-> 0]
      BY <3>1
    <3>2. CASE job'[j] = Retried(j) /\ session[e].token = Lifetime /\ session'[e].token = Unset
      BY <1>9, <3>2, GivenUpByAnother
    <3> QED BY <1>0, <1>9, <3>1, <3>2, AnalyseSession
  <2>4. \A i \in Jobs : i # j => job'[i] = job[i]
    BY <1>0, <1>9, AnalyseSession
  <2> QED BY <2>1, <2>2, <2>3, <2>4 DEF OneFailureEach, NoneDropped
<1> QED BY <1>0, <1>3, <1>4, <1>5, <1>6, <1>7, <1>8, <1>9, CalmSteps DEF MainStep, ExecutorStep

LEMMA JobsNext ==
    ASSUME SessionInv, JobsInv, [Next]_vars
    PROVE  JobsInv'
<1> SUFFICES ASSUME Calm'
             PROVE  /\ ListFetched' /\ TriedAtOnce' /\ TokensYoungerThanUpdates'
                    /\ TriesSuffice' => OneFailureEach' /\ NoneDropped'
  BY DEF JobsInv
<1>1. Calm
  BY CalmBefore DEF SessionInv
<1>2. ListFetched /\ TriedAtOnce /\ TokensYoungerThanUpdates
  BY <1>1 DEF JobsInv
<1>3. TriesSuffice' => TriesSuffice
  BY DEF TriesSuffice
<1>4. ListFetched' /\ TriedAtOnce' /\ TokensYoungerThanUpdates'
  BY <1>1, <1>2, ListFetchedNext, TriedAtOnceNext, TokensYoungerNext
<1>5. TriesSuffice => OneFailureEach' /\ NoneDropped'
  BY <1>1, <1>2, OneFailureNext DEF JobsInv
<1> QED BY <1>3, <1>4, <1>5

(* No job is dropped because tokens run out, for any number of executors   *)
(* up to the retries of a job, although every executor fails once after a  *)
(* quiet night: retry() of AnalyticJob, updateAuthToken after the fetch.   *)
THEOREM QuietNightSurvived == Spec => []JobsKept
<1>1. SessionInv /\ JobsInv /\ [Next]_vars => JobsInv'
  BY JobsNext
<1>2. SessionInv /\ JobsInv => JobsKept
  <2> SUFFICES ASSUME SessionInv, JobsInv, failovers + restarts = 0, TriesSuffice
               PROVE  \A j \in Jobs : job[j].place # "dropped"
    BY DEF JobsKept
  <2>1. Calm
    <3>1. failovers \in Nat /\ restarts \in Nat
      BY SessionConstants DEF SessionInv, TypeOK
    <3> QED BY <3>1 DEF Calm
  <2> QED BY <2>1 DEF JobsInv, NoneDropped
<1> QED BY JobsInit, SessionInvariant, <1>1, <1>2, PTL DEF Spec

=============================================================================
