--------------------------- MODULE ManagerSession ---------------------------
(***************************************************************************)
(* The sessions of the daemon with the Hadoop servers: which resource      *)
(* manager the main thread takes for the active one, when it and each      *)
(* executor replace their authentication tokens, and what becomes of jobs  *)
(* whose fetch is refused.                                                 *)
(*                                                                         *)
(* Time is counted from the events that matter.  Requests take no time:    *)
(* the clock ticks only while all threads wait.  A token is authenticated  *)
(* when it is used first.  Servers share the secret tokens are signed with *)
(* and accept them for a while, but may be restarted and forget it.        *)
(***************************************************************************)
EXTENDS Integers, Sequences, FiniteSets

CONSTANTS
    Ids,                \* the ids of the resource managers, in their order
    Executors,
    Jobs,
    RetryLimit,         \* _RETRY_LIMIT
    UpdateInterval,     \* TOKEN_UPDATE_INTERVAL and _LOCAL_UPDATE_INTERVAL
    FetchDelay,         \* FETCH_DELAY
    FetchInterval,
    RetryInterval,
    Lifetime,           \* how long a server accepts a token
    MaxFailovers,       \* bound: times a resource manager stops being active
    MaxRestarts         \* bound: times tokens are forgotten

None == -2              \* a thread local token that was not asked for yet
Unset == -1             \* a token that was not used yet
Managers == {Ids[i] : i \in DOMAIN Ids}

ASSUME SessionAssumption ==
    /\ Ids \in Seq(Managers) /\ Ids # <<>>
    /\ "none" \notin Managers
    /\ IsFiniteSet(Executors) /\ Executors # {}
    /\ {RetryLimit, UpdateInterval, FetchDelay, MaxFailovers, MaxRestarts} \subseteq Nat
    /\ {FetchInterval, RetryInterval} \subseteq Nat \ {0}
    /\ Lifetime \in Nat
    /\ Lifetime > UpdateInterval + FetchDelay + FetchInterval + RetryInterval

VARIABLES
    ha,                 \* yarn.resourcemanager.ha.enabled
    node,               \* what each resource manager is: its haState, or DOWN
    failovers,
    restarts,
    phase,              \* where the main thread is
    configured,         \* configure has been called
    next,               \* the id updateResourceManagerAddresses asks next
    address,            \* _resourceManagerAddress
    token,              \* the age of _token, Lifetime once it is refused
    updated,            \* time since _tokenUpdatedTime
    waited,             \* time since lastRun
    due,                \* what waitInterval waits for
    answer,             \* how the last fetch of the job list ended
    session,            \* token and time of its update, of each executor
    job                 \* where each job is, and how often it was retried

clusterVars == <<node, failovers, restarts>>
tokenVars == <<token, updated>>
mainVars == <<phase, configured, next, address, waited, due, answer>>
vars == <<ha, clusterVars, mainVars, tokenVars, session, job>>

(* Time is counted up to where it makes no difference any more.            *)
Longest == UpdateInterval + FetchDelay + 1
Later(time, limit) == IF time < limit THEN time + 1 ELSE limit
Older(t) == IF t < 0 THEN t ELSE Later(t, Lifetime)

Used(t) == IF t < 0 THEN 0 ELSE t
Accepted(t) == Used(t) < Lifetime
Forgotten(t) == IF t < 0 THEN t ELSE Lifetime

(* A job is away before it finishes, and again when it is stored.          *)
Places == {"away", "listed", "queue", "retries", "dropped"}

TypeOK ==
    /\ ha \in BOOLEAN
    /\ node \in [Managers -> {"ACTIVE", "STANDBY", "DOWN"}]
    /\ failovers \in 0 .. MaxFailovers
    /\ restarts \in 0 .. MaxRestarts
    /\ phase \in {"starting", "resolving", "fetching", "waiting", "dead"}
    /\ configured \in BOOLEAN
    /\ next \in 1 .. Len(Ids) + 1
    /\ address \in Managers \cup {"none"}
    /\ token \in Unset .. Lifetime
    /\ updated \in 0 .. Longest
    /\ waited \in Nat
    /\ due \in {FetchInterval, RetryInterval}
    /\ answer \in {"none", "apps", "refused", "failed"}
    /\ session \in [Executors -> [token : None .. Lifetime, updated : 0 .. UpdateInterval + 1]]
    /\ job \in [Jobs -> [place : Places, retries : 0 .. RetryLimit]]

(* At the start _tokenUpdatedTime is 0, which is long ago.                 *)
Init ==
    /\ ha \in BOOLEAN
    /\ node = [m \in Managers |-> IF m = Ids[1] THEN "ACTIVE" ELSE "STANDBY"]
    /\ failovers = 0
    /\ restarts = 0
    /\ phase = "starting"
    /\ configured = FALSE
    /\ next = 1
    /\ address = "none"
    /\ token = Unset
    /\ updated = Longest
    /\ waited = 0
    /\ due = FetchInterval
    /\ answer = "none"
    /\ session = [e \in Executors |-> [token |-> None, updated |-> 0]]
    /\ job = [j \in Jobs |-> [place |-> "away", retries |-> 0]]

-----------------------------------------------------------------------------
(* The cluster *)

Active == {m \in Managers : node[m] = "ACTIVE"}

StepDown(m) ==
    /\ ha
    /\ failovers < MaxFailovers
    /\ node[m] = "ACTIVE"
    /\ node' \in {[node EXCEPT ![m] = "STANDBY"], [node EXCEPT ![m] = "DOWN"]}
    /\ failovers' = failovers + 1
    /\ UNCHANGED <<ha, restarts, mainVars, tokenVars, session, job>>

Elect(m) ==
    /\ Active = {}
    /\ node[m] = "STANDBY"
    /\ node' = [node EXCEPT ![m] = "ACTIVE"]
    /\ UNCHANGED <<ha, failovers, restarts, mainVars, tokenVars, session, job>>

Recover(m) ==
    /\ node[m] = "DOWN"
    /\ node' = [node EXCEPT ![m] = "STANDBY"]
    /\ UNCHANGED <<ha, failovers, restarts, mainVars, tokenVars, session, job>>

(* The resource managers forget the tokens they have given, or the history *)
(* server does.                                                            *)
Forget ==
    /\ restarts < MaxRestarts
    /\ restarts' = restarts + 1
    /\ \/ token' = Forgotten(token) /\ UNCHANGED session
       \/ /\ session' = [e \in Executors |->
                            [session[e] EXCEPT !.token = Forgotten(session[e].token)]]
          /\ UNCHANGED token
    /\ UNCHANGED <<ha, node, failovers, mainVars, updated, job>>

(* An application finishes.  A job of the model stands for many, one after *)
(* the other.                                                              *)
Finish(j) ==
    /\ job[j].place = "away"
    /\ job' = [job EXCEPT ![j] = [place |-> "listed", retries |-> 0]]
    /\ UNCHANGED <<ha, clusterVars, mainVars, tokenVars, session>>

-----------------------------------------------------------------------------
(* The main thread *)

(* updateAuthToken, which compares the time of its update with             *)
(* _currentTime; that is the present time less the delay in               *)
(* fetchAnalyticJobs.  The mutant notes the time and keeps the token.      *)
NewTokenKeptOld(delay) ==
    IF updated - delay > UpdateInterval THEN [token |-> token, updated |-> delay]
    ELSE [token |-> token, updated |-> updated]

NewToken(delay) ==
    IF updated - delay > UpdateInterval THEN [token |-> Unset, updated |-> delay]
    ELSE [token |-> token, updated |-> updated]

(* updateResourceManagerAddresses: without HA the address is configured,   *)
(* with HA the managers are asked one after the other.                     *)
ResolveConfigured ==
    /\ phase = "starting"
    /\ ~ha
    /\ address' = Ids[1]
    /\ next' = Len(Ids) + 1
    /\ phase' = "resolving"
    /\ UNCHANGED <<ha, clusterVars, configured, waited, due, answer, tokenVars, session, job>>

StartResolving ==
    /\ phase = "starting"
    /\ ha
    /\ token' = NewToken(0).token
    /\ updated' = NewToken(0).updated
    /\ next' = 1
    /\ phase' = "resolving"
    /\ UNCHANGED <<ha, clusterVars, configured, address, waited, due, answer, session, job>>

(* Whether a manager that answers is the one to use.  The mutant does not  *)
(* look any further once it has an address.                                *)
IsActiveIfUnknown(m) == node[m] = "ACTIVE" /\ address = "none"

IsActive(m) == node[m] = "ACTIVE"

(* One manager is asked for its state; a manager that is down or refuses   *)
(* the token is passed over.                                               *)
AskState ==
    /\ phase = "resolving"
    /\ next \in DOMAIN Ids
    /\ LET m == Ids[next]
           up == node[m] # "DOWN"
       IN  /\ token' = IF up THEN Used(token) ELSE token
           /\ IF up /\ Accepted(token) /\ IsActive(m)
              THEN address' = m /\ next' = Len(Ids) + 1
              ELSE address' = address /\ next' = next + 1
    /\ UNCHANGED <<ha, clusterVars, phase, configured, waited, due, answer, updated, session, job>>

(* Without an address the main thread ends.  The first call is from        *)
(* configure; the loop begins with the next one.                           *)
Resolved ==
    /\ phase = "resolving"
    /\ next = Len(Ids) + 1
    /\ phase' = IF address = "none" THEN "dead"
                ELSE IF configured THEN "fetching" ELSE "starting"
    /\ configured' = TRUE
    /\ waited' = 0
    /\ next' = 1
    /\ UNCHANGED <<ha, clusterVars, address, due, answer, tokenVars, session, job>>

(* fetchAnalyticJobs: both queries go to the same manager, with the same   *)
(* token.  The job list comes from the active manager only; with it come   *)
(* the jobs to be tried again.                                             *)
FetchAnalyticJobs ==
    /\ phase = "fetching"
    /\ LET new == NewToken(FetchDelay)
           up == node[address] # "DOWN"
           ok == node[address] = "ACTIVE" /\ Accepted(new.token)
       IN  /\ updated' = new.updated
           /\ token' = IF up THEN Used(new.token) ELSE new.token
           /\ answer' = IF ok THEN "apps" ELSE IF up /\ ~Accepted(new.token) THEN "refused" ELSE "failed"
           /\ due' = IF ok THEN FetchInterval ELSE RetryInterval
           /\ job' = IF ok THEN [j \in Jobs |-> IF job[j].place \in {"listed", "retries"}
                                                THEN [job[j] EXCEPT !.place = "queue"] ELSE job[j]]
                     ELSE job
    /\ phase' = "waiting"
    /\ UNCHANGED <<ha, clusterVars, configured, next, address, waited, session>>

(* waitInterval has waited long enough since lastRun. *)
Wake ==
    /\ phase = "waiting"
    /\ waited >= due
    /\ phase' = "starting"
    /\ UNCHANGED <<ha, clusterVars, configured, next, address, waited, due, answer, tokenVars,
                   session, job>>

-----------------------------------------------------------------------------
(* The executors *)

(* ThreadContextMR2.updateAuthToken after a fetch, whether it failed or    *)
(* not.  The mutant is one after a fetch that succeeded.                   *)
AfterSuccess(s) ==
    IF s.token < Lifetime /\ s.updated > UpdateInterval THEN [token |-> Unset, updated |-> 0] ELSE s

AfterFetch(s) ==
    IF s.updated > UpdateInterval THEN [token |-> Unset, updated |-> 0] ELSE s

(* retry(); the mutant counts one more.                                    *)
RetriedOnceMore(j) ==
    IF job[j].retries <= RetryLimit THEN [place |-> "retries", retries |-> job[j].retries + 1]
    ELSE [job[j] EXCEPT !.place = "dropped"]

Retried(j) ==
    IF job[j].retries < RetryLimit THEN [place |-> "retries", retries |-> job[j].retries + 1]
    ELSE [job[j] EXCEPT !.place = "dropped"]

(* The fetch of a job fails only when its token is refused.  The token and *)
(* the time of its update are made when the executor asks for them first.  *)
Analyse(e, j) ==
    /\ job[j].place = "queue"
    /\ LET s == IF session[e].token = None THEN [token |-> 0, updated |-> 0]
                ELSE [session[e] EXCEPT !.token = Used(session[e].token)]
       IN  /\ job' = [job EXCEPT ![j] = IF Accepted(s.token) THEN [place |-> "away", retries |-> 0]
                                        ELSE Retried(j)]
           /\ session' = [session EXCEPT ![e] = AfterFetch(s)]
    /\ UNCHANGED <<ha, clusterVars, mainVars, tokenVars>>

-----------------------------------------------------------------------------
Tick ==
    /\ phase \in {"waiting", "dead"}
    /\ phase = "waiting" => waited < due
    /\ \A j \in Jobs : job[j].place # "queue"
    /\ waited' = IF phase = "waiting" THEN waited + 1 ELSE waited
    /\ token' = Older(token)
    /\ updated' = Later(updated, Longest)
    /\ session' = [e \in Executors |->
                      [token   |-> Older(session[e].token),
                       updated |-> IF session[e].token = None THEN 0
                                   ELSE Later(session[e].updated, UpdateInterval + 1)]]
    /\ UNCHANGED <<ha, clusterVars, phase, configured, next, address, due, answer, job>>

MainStep ==
    \/ ResolveConfigured
    \/ StartResolving
    \/ AskState
    \/ Resolved
    \/ FetchAnalyticJobs
    \/ Wake

ExecutorStep == \E e \in Executors, j \in Jobs : Analyse(e, j)

Next ==
    \/ \E m \in Managers : StepDown(m) \/ Elect(m) \/ Recover(m)
    \/ Forget
    \/ \E j \in Jobs : Finish(j)
    \/ MainStep
    \/ ExecutorStep
    \/ Tick

(* Threads are scheduled and the clock runs; a manager that is down comes  *)
(* back, and the managers elect one of them.                               *)
Fairness ==
    /\ WF_vars(MainStep)
    /\ WF_vars(ExecutorStep)
    /\ WF_vars(Tick)
    /\ \A m \in Managers : WF_vars(Recover(m)) /\ WF_vars(Elect(m))

Spec == Init /\ [][Next]_vars /\ Fairness

-----------------------------------------------------------------------------
(* Properties *)

(* The main thread uses two clocks for the age of its token, the present   *)
(* time and a minute before it, and writes either of them down.  Its token *)
(* is nevertheless replaced before it runs out: no fetch is refused unless *)
(* the servers have forgotten the token.                                   *)
MainTokenAccepted == restarts = 0 => answer # "refused"

(* An executor looks at the age of its token only after it has used it, so *)
(* that after a quiet night each executor fails once.  A job survives this *)
(* if there are no more executors than retries, no token runs out twice    *)
(* during the tries, of which there is one per fetch of the job list, and  *)
(* the list can always be fetched: a job that waits for its next try       *)
(* during a failover may meet a token that ran out a second time.          *)
TriesSuffice ==
    /\ Cardinality(Executors) <= RetryLimit
    /\ Cardinality(Executors) * FetchInterval < Lifetime

JobsKept ==
    failovers + restarts = 0 /\ TriesSuffice =>
        \A j \in Jobs : job[j].place # "dropped"

(* Once there are no more failovers and restarts, the main thread finds    *)
(* the active manager, replaces a token that was forgotten, and from then  *)
(* on every fetch of the job list succeeds, unless it never knew an        *)
(* address and ended.                                                      *)
FetchesSettle == <>[](answer = "apps" \/ phase = "dead")
=============================================================================
