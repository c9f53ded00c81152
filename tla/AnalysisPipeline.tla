-------------------------- MODULE AnalysisPipeline --------------------------
(***************************************************************************)
(* The analysis daemon: the main thread of ElephantRunner, the application *)
(* windows of AnalyticJobGeneratorHadoop2, the executor threads, the       *)
(* bounded retries of AnalyticJob and the result table, together with the  *)
(* environment they meet (the clock, the YARN resource manager, kill() and *)
(* crashes).                                                               *)
(*                                                                         *)
(* Time is counted in ticks.  The resource manager and the daemon read the *)
(* same clock, which never steps back, and the resource manager keeps its  *)
(* finished applications for as long as the model runs.                    *)
(***************************************************************************)
EXTENDS Naturals, Sequences, SequencesExt

CONSTANTS
    Apps,           \* YARN applications
    Executors,      \* executor threads (drelephant.analysis.thread.count)
    FinalStatus,    \* the final status each application will have
    Supported,      \* applications whose type has a fetcher and heuristics
    HAEnabled,      \* yarn.resourcemanager.ha.enabled
    FetchDelay,     \* FETCH_DELAY
    ListLag,        \* ticks the resource manager may take to list a finished app
    RetryLimit,     \* _RETRY_LIMIT
    MaxTime,        \* bound: last tick of the clock
    MaxRestarts     \* bound: restarts of the process

Statuses == {"SUCCEEDED", "FAILED", "KILLED"}

ASSUME PipelineAssumption ==
    /\ IsFiniteSet(Apps)
    /\ FinalStatus \in [Apps -> Statuses]
    /\ Supported \subseteq Apps
    /\ HAEnabled \in BOOLEAN
    /\ FetchDelay \in Nat
    /\ ListLag \in Nat
    /\ ListLag < FetchDelay
    /\ RetryLimit \in Nat
    /\ MaxTime \in Nat
    /\ MaxRestarts \in Nat

VARIABLES
    \* the environment
    now,            \* the clock
    finish,         \* tick at which each application finished, 0 if it has not
    listed,         \* finished applications the resource manager reports
    db,             \* applications with a row in yarn_app_result
    restarts,       \* restarts so far
    \* the main thread
    pc,             \* where ElephantRunner.run is
    lastTime,       \* _lastTime: end of the last window fetched
    currentTime,    \* _currentTime: end of the window during a fetch
    appList,        \* the list fetchAnalyticJobs is building
    todos,          \* the retries drained, then the result not yet queued
    \* shared by the threads
    retryQueue,     \* _retryQueue
    jobQueue,       \* _jobQueue
    \* the executor threads
    exec,           \* where each ExecutorThread is
    hold,           \* the job each one works on: <<>> or <<job>>
    \* shutdown
    kill,           \* progress of kill(); _running is TRUE while it is "idle"
    service,        \* _service has been created
    shutdown,       \* shutdownNow() was called: executors are interrupted
    \* history of the current process, kept by the code only in its log
    attempts,       \* times an executor took each application
    dropped,        \* applications dropped after their last retry
    lost            \* applications whose job died with an Error or interrupt

envVars  == <<now, finish, listed>>
mainVars == <<pc, lastTime, currentTime, appList, todos>>
killVars == <<kill, service, shutdown>>
histVars == <<attempts, dropped, lost>>
vars == <<envVars, db, restarts, mainVars, retryQueue, jobQueue,
          exec, hold, killVars, histVars>>

-----------------------------------------------------------------------------
(* Jobs and lists of jobs *)

Job == [app : Apps, retries : 0 .. RetryLimit]

NewJob(a) == [app |-> a, retries |-> 0]

AppsOf(jobs) == {job.app : job \in ToSet(jobs)}

InHand == UNION {AppsOf(hold[e]) : e \in Executors}

(* Applications whose analysis the process still owes. *)
Pending == AppsOf(todos) \cup AppsOf(retryQueue) \cup AppsOf(jobQueue) \cup InHand

Closed == dropped \cup lost

(* The order of the resource manager's answer is not specified. *)
Orderings(S) ==
    {s \in [1 .. Cardinality(S) -> S] :
        /\ \A i, j \in 1 .. Cardinality(S) : s[i] = s[j] => i = j
        /\ \A a \in S : \E i \in 1 .. Cardinality(S) : s[i] = a}

MainStates == {"init", "pool", "submit", "loop", "resolve", "login",
               "succeeded", "failed", "commit", "enqueue", "sleep", "ended"}
ExecStates == {"none", "check", "take", "busy", "ended"}

TypeOK ==
    /\ now \in Nat
    /\ finish \in [Apps -> Nat]
    /\ listed \subseteq Apps
    /\ db \subseteq Apps
    /\ restarts \in Nat
    /\ pc \in MainStates
    /\ lastTime \in Nat
    /\ currentTime \in Nat
    /\ appList \in Seq(Job)
    /\ todos \in Seq(Job)
    /\ retryQueue \in Seq(Job)
    /\ jobQueue \in Seq(Job)
    /\ exec \in [Executors -> ExecStates]
    /\ hold \in [Executors -> Seq(Job)]
    /\ kill \in {"idle", "stopping", "done"}
    /\ service \in BOOLEAN
    /\ shutdown \in BOOLEAN
    /\ attempts \in [Apps -> Nat]
    /\ dropped \subseteq Apps
    /\ lost \subseteq Apps

(* The clock starts past FetchDelay, so that no window ends before tick 1. *)
Init ==
    /\ now = FetchDelay + 1
    /\ finish = [a \in Apps |-> 0]
    /\ listed = {}
    /\ db = {}
    /\ restarts = 0
    /\ pc = "init"
    /\ lastTime = 0
    /\ currentTime = 0
    /\ appList = <<>>
    /\ todos = <<>>
    /\ retryQueue = <<>>
    /\ jobQueue = <<>>
    /\ exec = [e \in Executors |-> "none"]
    /\ hold = [e \in Executors |-> <<>>]
    /\ kill = "idle"
    /\ service = FALSE
    /\ shutdown = FALSE
    /\ attempts = [a \in Apps |-> 0]
    /\ dropped = {}
    /\ lost = {}

-----------------------------------------------------------------------------
(* The environment *)

Tick ==
    /\ now < MaxTime
    /\ \A a \in Apps : finish[a] # 0 /\ a \notin listed => now < finish[a] + ListLag
    /\ now' = now + 1
    /\ UNCHANGED <<finish, listed, db, restarts, mainVars, retryQueue, jobQueue,
                   exec, hold, killVars, histVars>>

AppFinishes(a) ==
    /\ finish[a] = 0
    /\ now + FetchDelay <= MaxTime
    /\ finish' = [finish EXCEPT ![a] = now]
    /\ UNCHANGED <<now, listed, db, restarts, mainVars, retryQueue, jobQueue,
                   exec, hold, killVars, histVars>>

AppListed(a) ==
    /\ finish[a] # 0
    /\ a \notin listed
    /\ listed' = listed \cup {a}
    /\ UNCHANGED <<now, finish, db, restarts, mainVars, retryQueue, jobQueue,
                   exec, hold, killVars, histVars>>

(* The process dies at any point and is started again.  Only the result    *)
(* table survives; _lastTime is 0 again.                                   *)
Crash ==
    /\ restarts < MaxRestarts
    /\ restarts' = restarts + 1
    /\ pc' = "init"
    /\ lastTime' = 0
    /\ currentTime' = 0
    /\ appList' = <<>>
    /\ todos' = <<>>
    /\ retryQueue' = <<>>
    /\ jobQueue' = <<>>
    /\ exec' = [e \in Executors |-> "none"]
    /\ hold' = [e \in Executors |-> <<>>]
    /\ kill' = "idle"
    /\ service' = FALSE
    /\ shutdown' = FALSE
    /\ attempts' = [a \in Apps |-> 0]
    /\ dropped' = {}
    /\ lost' = {}
    /\ UNCHANGED <<envVars, db>>

-----------------------------------------------------------------------------
(* The main thread: ElephantRunner.run *)

unchangedByMain == <<envVars, db, restarts, exec, hold, kill, shutdown, histVars>>

(* updateResourceManagerAddresses, which configure() calls too, sets        *)
(* _currentTime when there are several resource managers to ask.           *)
ResolvedTime == IF HAEnabled THEN now ELSE currentTime

Configure ==
    /\ pc = "init"
    /\ pc' = "pool"
    /\ currentTime' = ResolvedTime
    /\ UNCHANGED <<unchangedByMain, service, lastTime, appList, todos,
                   retryQueue, jobQueue>>

(* Any exception before the loop ends the thread; none is retried. *)
ConfigureFails ==
    /\ pc = "init"
    /\ pc' = "ended"
    /\ currentTime' \in {currentTime, ResolvedTime}
    /\ UNCHANGED <<unchangedByMain, service, lastTime, appList, todos,
                   retryQueue, jobQueue>>

CreatePool ==
    /\ pc = "pool"
    /\ service' = (Executors # {})
    /\ pc' = IF Executors = {} THEN "loop" ELSE "submit"
    /\ UNCHANGED <<unchangedByMain, lastTime, currentTime, appList, todos,
                   retryQueue, jobQueue>>

(* submit() of one ExecutorThread; after shutdownNow() it throws           *)
(* RejectedExecutionException, which ends the main thread.                 *)
SubmitExecutor(e) ==
    /\ pc = "submit"
    /\ exec[e] = "none"
    /\ IF shutdown
       THEN pc' = "ended" /\ UNCHANGED exec
       ELSE /\ exec' = [exec EXCEPT ![e] = "check"]
            /\ pc' = IF \A f \in Executors : exec'[f] # "none" THEN "loop" ELSE "submit"
    /\ UNCHANGED <<envVars, db, restarts, hold, killVars, histVars,
                   lastTime, currentTime, appList, todos, retryQueue, jobQueue>>

mainStepsOnly == <<unchangedByMain, service, lastTime, currentTime, appList, todos,
                   retryQueue, jobQueue>>

LoopCheck ==
    /\ pc = "loop"
    /\ pc' = IF kill = "idle" THEN "resolve" ELSE "ended"
    /\ UNCHANGED mainStepsOnly

ResolveRM ==
    /\ pc = "resolve"
    /\ pc' = "login"
    /\ currentTime' = ResolvedTime
    /\ UNCHANGED <<unchangedByMain, service, lastTime, appList, todos,
                   retryQueue, jobQueue>>

(* Only checked exceptions of the login and exceptions of the fetch are     *)
(* caught.  updateResourceManagerAddresses stands outside every try block, *)
(* and an Error is caught nowhere: the main thread dies, the executors stay.*)
(* The retries it has drained and the jobs it has not queued die with it.   *)
MainThreadDies ==
    /\ pc \in {"resolve", "login", "succeeded", "failed", "commit", "enqueue"}
    /\ pc' = "ended"
    /\ appList' = <<>>
    /\ todos' = <<>>
    /\ lost' = lost \cup AppsOf(todos)
    /\ \/ UNCHANGED currentTime
       \/ pc = "resolve" /\ currentTime' = ResolvedTime
    /\ UNCHANGED <<envVars, db, restarts, exec, hold, killVars, attempts, dropped,
                   lastTime, retryQueue, jobQueue>>

LoginFails ==
    /\ pc = "login"
    /\ pc' = "sleep"
    /\ UNCHANGED mainStepsOnly

(* checkLogin returns and fetchAnalyticJobs computes the end of the window. *)
(* The mutant forgets the delay.                                           *)
StartFetchWithoutDelay ==
    /\ pc = "login"
    /\ pc' = "succeeded"
    /\ currentTime' = now
    /\ UNCHANGED <<unchangedByMain, service, lastTime, appList, todos,
                   retryQueue, jobQueue>>

StartFetch ==
    /\ pc = "login"
    /\ pc' = "succeeded"
    /\ currentTime' = now - FetchDelay
    /\ UNCHANGED <<unchangedByMain, service, lastTime, appList, todos,
                   retryQueue, jobQueue>>

(* The applications a query for the window (lastTime, currentTime] returns, *)
(* and those readApps keeps: the table is consulted by the first fetch     *)
(* only.  The mutants reopen the last tick of the last window, and consult *)
(* the table in every fetch but the first.                                 *)
MatchingFromLastTime(status) ==
    {a \in listed : FinalStatus[a] = status
                    /\ lastTime <= finish[a] /\ finish[a] <= currentTime}

Matching(status) ==
    {a \in listed : FinalStatus[a] = status
                    /\ lastTime + 1 <= finish[a] /\ finish[a] <= currentTime}

IsNewSwapped(a) == lastTime = 0 \/ (lastTime > 0 /\ a \notin db)

IsNew(a) == lastTime > 0 \/ (lastTime = 0 /\ a \notin db)

NewApps(status) == {a \in Matching(status) : IsNew(a) /\ a \in Supported}

Query(status) ==
    \E s \in Orderings(NewApps(status)) :
        appList' = appList \o [i \in 1 .. Len(s) |-> NewJob(s[i])]

QuerySucceeded ==
    /\ pc = "succeeded"
    /\ Query("SUCCEEDED")
    /\ pc' = "failed"
    /\ UNCHANGED <<unchangedByMain, service, lastTime, currentTime, todos,
                   retryQueue, jobQueue>>

QueryFailed ==
    /\ pc = "failed"
    /\ Query("FAILED")
    /\ pc' = "commit"
    /\ UNCHANGED <<unchangedByMain, service, lastTime, currentTime, todos,
                   retryQueue, jobQueue>>

(* Either query (or a lookup in the table) throws: the whole list is       *)
(* discarded and the window stays open.                                    *)
FetchFails ==
    /\ pc \in {"succeeded", "failed"}
    /\ pc' = "sleep"
    /\ appList' = <<>>
    /\ UNCHANGED <<unchangedByMain, service, lastTime, currentTime, todos,
                   retryQueue, jobQueue>>

(* The retry queue is drained one job at a time (isEmpty, then poll) while  *)
(* the executors add to it; only this thread removes.  Until the window is  *)
(* closed, the list being built is appList \o todos.  The mutants forget to *)
(* poll what they add, and to add what they poll.                           *)
DrainWithoutPolling ==
    /\ pc = "commit"
    /\ retryQueue # <<>>
    /\ todos' = Append(todos, Head(retryQueue))
    /\ UNCHANGED <<unchangedByMain, service, pc, lastTime, currentTime, appList,
                   retryQueue, jobQueue>>

DrainWithoutAdding ==
    /\ pc = "commit"
    /\ retryQueue # <<>>
    /\ retryQueue' = Tail(retryQueue)
    /\ UNCHANGED <<unchangedByMain, service, pc, lastTime, currentTime, appList,
                   todos, jobQueue>>

DrainRetry ==
    /\ pc = "commit"
    /\ retryQueue # <<>>
    /\ todos' = Append(todos, Head(retryQueue))
    /\ retryQueue' = Tail(retryQueue)
    /\ UNCHANGED <<unchangedByMain, service, pc, lastTime, currentTime, appList,
                   jobQueue>>

(* The queue is found empty and the window is closed. *)
Commit ==
    /\ pc = "commit"
    /\ retryQueue = <<>>
    /\ todos' = appList \o todos
    /\ appList' = <<>>
    /\ lastTime' = currentTime
    /\ pc' = "enqueue"
    /\ UNCHANGED <<unchangedByMain, service, currentTime, retryQueue, jobQueue>>

(* _jobQueue.addAll(todos), element by element. *)
Enqueue ==
    /\ pc = "enqueue"
    /\ todos # <<>>
    /\ jobQueue' = Append(jobQueue, Head(todos))
    /\ todos' = Tail(todos)
    /\ UNCHANGED <<unchangedByMain, service, pc, lastTime, currentTime, appList,
                   retryQueue>>

EnqueueDone ==
    /\ pc = "enqueue"
    /\ todos = <<>>
    /\ pc' = "sleep"
    /\ UNCHANGED mainStepsOnly

(* waitInterval returns; kill() does not interrupt this sleep.  Intervals   *)
(* may be configured as 0, so any delay is possible.                       *)
Wake ==
    /\ pc = "sleep"
    /\ pc' = "loop"
    /\ UNCHANGED mainStepsOnly

-----------------------------------------------------------------------------
(* The executor threads: ExecutorThread.run *)

unchangedByExecutors == <<envVars, restarts, mainVars, killVars>>

CheckRunning(e) ==
    /\ exec[e] = "check"
    /\ exec' = [exec EXCEPT ![e] = IF kill = "idle" /\ ~shutdown THEN "take" ELSE "ended"]
    /\ UNCHANGED <<unchangedByExecutors, db, retryQueue, jobQueue, hold, histVars>>

Take(e) ==
    /\ exec[e] = "take"
    /\ ~shutdown
    /\ jobQueue # <<>>
    /\ exec' = [exec EXCEPT ![e] = "busy"]
    /\ hold' = [hold EXCEPT ![e] = <<Head(jobQueue)>>]
    /\ jobQueue' = Tail(jobQueue)
    /\ attempts' = [attempts EXCEPT ![Head(jobQueue).app] = @ + 1]
    /\ UNCHANGED <<unchangedByExecutors, db, retryQueue, dropped, lost>>

(* take() of an interrupted thread throws even when a job is queued. *)
TakeInterrupted(e) ==
    /\ exec[e] = "take"
    /\ shutdown
    /\ exec' = [exec EXCEPT ![e] = "check"]
    /\ UNCHANGED <<unchangedByExecutors, db, retryQueue, jobQueue, hold, histVars>>

(* The job leaves the thread, which goes back to the head of its loop. *)
Release(e) ==
    /\ hold' = [hold EXCEPT ![e] = <<>>]
    /\ exec' = [exec EXCEPT ![e] = "check"]

(* AnalyticJob.retry, the condition it returns; the mutants compare with <= *)
(* and increment first.                                                    *)
RetryInclusive(job) == job.retries <= RetryLimit
RetryIncrementFirst(job) == job.retries + 1 < RetryLimit

Retry(job) == job.retries < RetryLimit

(* The catch block: one more retry, or the job is dropped. *)
RetryOrDrop(job) ==
    \/ /\ Retry(job)
       /\ retryQueue' = Append(retryQueue, [job EXCEPT !.retries = @ + 1])
       /\ UNCHANGED dropped
    \/ /\ ~Retry(job)
       /\ dropped' = dropped \cup {job.app}
       /\ UNCHANGED retryQueue

(* getAnalysis and save succeed; the primary key rules out a second row. *)
AnalyseAndSave(e) ==
    /\ exec[e] = "busy"
    /\ hold[e][1].app \notin db
    /\ db' = db \cup {hold[e][1].app}
    /\ Release(e)
    /\ UNCHANGED <<unchangedByExecutors, retryQueue, jobQueue, histVars>>

(* getAnalysis or save throws an Exception and no row is written. *)
AnalysisFails(e) ==
    /\ exec[e] = "busy"
    /\ RetryOrDrop(hold[e][1])
    /\ Release(e)
    /\ UNCHANGED <<unchangedByExecutors, db, jobQueue, attempts, lost>>

(* The row is committed, but save throws: the connection broke meanwhile. *)
SaveUnconfirmed(e) ==
    /\ exec[e] = "busy"
    /\ hold[e][1].app \notin db
    /\ db' = db \cup {hold[e][1].app}
    /\ RetryOrDrop(hold[e][1])
    /\ Release(e)
    /\ UNCHANGED <<unchangedByExecutors, jobQueue, attempts, lost>>

(* An InterruptedException during the analysis: the job is not retried. *)
AnalysisInterrupted(e) ==
    /\ exec[e] = "busy"
    /\ shutdown
    /\ lost' = lost \cup {hold[e][1].app}
    /\ Release(e)
    /\ UNCHANGED <<unchangedByExecutors, db, retryQueue, jobQueue, attempts, dropped>>

(* An Error is no Exception: it ends the thread, and its job with it. *)
AnalysisError(e) ==
    /\ exec[e] = "busy"
    /\ lost' = lost \cup {hold[e][1].app}
    /\ hold' = [hold EXCEPT ![e] = <<>>]
    /\ exec' = [exec EXCEPT ![e] = "ended"]
    /\ UNCHANGED <<unchangedByExecutors, db, retryQueue, jobQueue, attempts, dropped>>

-----------------------------------------------------------------------------
(* ElephantRunner.kill, called by Play's thread: two separate steps *)

unchangedByKill == <<envVars, db, restarts, mainVars, retryQueue, jobQueue, exec, hold,
                     service, histVars>>

KillClearsRunning ==
    /\ kill = "idle"
    /\ kill' = "stopping"
    /\ UNCHANGED <<unchangedByKill, shutdown>>

(* The mutant calls shutdown(), which interrupts nobody. *)
KillWithoutInterrupt ==
    /\ kill = "stopping"
    /\ kill' = "done"
    /\ UNCHANGED <<unchangedByKill, shutdown>>

KillShutsDown ==
    /\ kill = "stopping"
    /\ kill' = "done"
    /\ shutdown' = service
    /\ UNCHANGED unchangedByKill

-----------------------------------------------------------------------------
Environment ==
    \/ Tick
    \/ \E a \in Apps : AppFinishes(a) \/ AppListed(a)
    \/ Crash

MainStep ==
    \/ Configure \/ ConfigureFails \/ CreatePool
    \/ \E e \in Executors : SubmitExecutor(e)
    \/ LoopCheck \/ ResolveRM \/ MainThreadDies \/ LoginFails \/ StartFetch
    \/ QuerySucceeded \/ QueryFailed \/ FetchFails
    \/ DrainRetry \/ Commit \/ Enqueue \/ EnqueueDone \/ Wake

ExecutorStep(e) ==
    \/ CheckRunning(e) \/ Take(e) \/ TakeInterrupted(e)
    \/ AnalyseAndSave(e) \/ AnalysisFails(e) \/ SaveUnconfirmed(e)
    \/ AnalysisInterrupted(e) \/ AnalysisError(e)

KillStep == KillClearsRunning \/ KillShutsDown

Next ==
    \/ Environment
    \/ MainStep
    \/ \E e \in Executors : ExecutorStep(e)
    \/ KillStep

Spec == Init /\ [][Next]_vars

(* Every thread that can step eventually does (in particular every remote  *)
(* call returns), the clock runs, kill() is finished once begun, and logins*)
(* and queries that are tried again and again succeed again and again.     *)
Fairness ==
    /\ WF_vars(Tick)
    /\ \A a \in Apps : WF_vars(AppListed(a))
    /\ WF_vars(MainStep)
    /\ \A e \in Executors : WF_vars(ExecutorStep(e))
    /\ WF_vars(KillShutsDown)
    /\ SF_vars(StartFetch)
    /\ SF_vars(QuerySucceeded)
    /\ SF_vars(QueryFailed)

FairSpec == Spec /\ Fairness

-----------------------------------------------------------------------------
(* Properties *)

(* No application has two jobs in the process at once, and none has a job  *)
(* left after it was dropped or lost: windows never overlap, a drained     *)
(* retry queue is empty, and no queue keeps what it handed over.           *)
Distinct(jobs) == \A i, j \in DOMAIN jobs : jobs[i].app = jobs[j].app => i = j

SingleHolder ==
    /\ Distinct(todos) /\ Distinct(retryQueue) /\ Distinct(jobQueue)
    /\ \A e, f \in Executors : e # f => AppsOf(hold[e]) \cap AppsOf(hold[f]) = {}
    /\ AppsOf(todos) \cap AppsOf(retryQueue) = {}
    /\ AppsOf(todos) \cap AppsOf(jobQueue) = {}
    /\ AppsOf(todos) \cap InHand = {}
    /\ AppsOf(retryQueue) \cap AppsOf(jobQueue) = {}
    /\ AppsOf(retryQueue) \cap InHand = {}
    /\ AppsOf(jobQueue) \cap InHand = {}
    /\ Pending \cap Closed = {}

(* Once a window is closed, every supported application that succeeded or  *)
(* failed in it has a row, is still owed an analysis, or was given up      *)
(* explicitly: the fetch delay covers the listing lag, a failed query      *)
(* closes no window, and a restart looks at the whole past again.          *)
Eligible(a) == FinalStatus[a] \in {"SUCCEEDED", "FAILED"} /\ a \in Supported

NoAppMissed ==
    \A a \in Apps :
        Eligible(a) /\ finish[a] # 0 /\ finish[a] <= lastTime =>
            a \in db \cup Pending \cup Closed

(* A job that was never tried before is not for an application that has a  *)
(* row already, whatever restarts happened and although only the first     *)
(* fetch after a restart consults the table.                               *)
FreshNotInDb ==
    \A a \in db :
        /\ NewJob(a) \notin ToSet(todos) \cup ToSet(jobQueue)
        /\ \A e \in Executors : NewJob(a) \notin ToSet(hold[e])

(* An application is dropped only after RetryLimit retries of its first    *)
(* try, and it is never tried more often than that, however its job moves  *)
(* between the queues and the threads.                                     *)
TriesBeforeDrop ==
    /\ \A a \in Apps : attempts[a] <= RetryLimit + 1
    /\ \A a \in dropped : attempts[a] = RetryLimit + 1

(* The daemon implements the ledger of what it promises. *)
Ledger == INSTANCE AnalysisLedger
              WITH stored <- db, pending <- Pending, closed <- Closed
LedgerSpec == Ledger!Spec

(* Under fairness, a finished eligible application gets its row or is      *)
(* given up, and a restart, which forgets what was given up, settles it    *)
(* again.  It may be left alone only once the daemon is killed, no         *)
(* executor is alive, or the main thread has died without having queued    *)
(* it: what is queued then is still analysed, and what one executor's      *)
(* death left behind is taken by the others.                               *)
LeftAlone(a) ==
    \/ kill # "idle"
    \/ \A e \in Executors : exec[e] = "ended"
    \/ pc = "ended" /\ a \notin AppsOf(jobQueue) \cup InHand

EventuallySettled ==
    \A a \in Apps :
        Eligible(a) /\ finish[a] # 0 ~> a \in db \cup Closed \/ LeftAlone(a)

(* After kill() the main thread and every executor thread end, whenever    *)
(* during start-up, a fetch, a sleep or an analysis the call comes.        *)
Stopped ==
    /\ pc = "ended"
    /\ \A e \in Executors : exec[e] \in {"none", "ended"}

KillStops == kill = "done" ~> Stopped \/ kill # "done"

(* AnalyticJob's comment on its retry limit: "Number of times a job needs  *)
(* to be tried before dropping".                                           *)
DroppedAtRetryLimit == \A a \in Apps : attempts[a] <= RetryLimit
-----------------------------------------------------------------------------
(* The inductive invariant behind the properties, part by part.  It is     *)
(* proved in AnalysisPipelineProofs.                                       *)

(* Windows end FetchDelay before the clock and never run backwards. *)
Fetching == pc \in {"succeeded", "failed", "commit"}

ClockInv ==
    /\ FetchDelay + 1 <= now
    /\ lastTime + FetchDelay <= now
    /\ Fetching => lastTime <= currentTime /\ currentTime + FetchDelay <= now

(* The resource manager lists an application within ListLag. *)
ListingInv ==
    \A a \in Apps :
        /\ finish[a] <= now
        /\ a \in listed => finish[a] # 0
        /\ finish[a] # 0 /\ a \notin listed => now <= finish[a] + ListLag

(* What a thread may hold at each place of its code. *)
ThreadInv ==
    /\ \A e \in Executors :
          \/ exec[e] = "busy" /\ \E job \in Job : hold[e] = <<job>>
          \/ exec[e] # "busy" /\ hold[e] = <<>>
    /\ pc \notin {"failed", "commit"} => appList = <<>>
    /\ pc \notin {"commit", "enqueue"} => todos = <<>>

(* Everything collected, tried or given up lies in the closed windows, and *)
(* so does everything in the table once the first window is closed.        *)
InClosedWindow(a) == 1 <= finish[a] /\ finish[a] <= lastTime

WindowInv ==
    /\ \A a \in Pending \cup Closed : InClosedWindow(a)
    /\ \A a \in Apps : attempts[a] # 0 => InClosedWindow(a)
    /\ \A a \in db :
          /\ finish[a] # 0
          /\ finish[a] + FetchDelay <= now
          /\ lastTime > 0 => finish[a] <= lastTime
          /\ Fetching => finish[a] <= currentTime

(* The list being built holds exactly the new applications of the window   *)
(* whose status has been queried, once each.                               *)
InOpenWindow(a) == lastTime < finish[a] /\ finish[a] <= currentTime

BuildInv ==
    /\ Distinct(appList)
    /\ \A job \in ToSet(appList) : job.retries = 0
    /\ \A a \in AppsOf(appList) : InOpenWindow(a) /\ a \notin db
    /\ pc = "failed" => \A a \in AppsOf(appList) : FinalStatus[a] = "SUCCEEDED"
    /\ \A a \in Supported :
          /\ InOpenWindow(a)
          /\ \/ pc \in {"failed", "commit"} /\ FinalStatus[a] = "SUCCEEDED"
             \/ pc = "commit" /\ FinalStatus[a] = "FAILED"
          => a \in AppsOf(appList) \cup db

(* A job's retry count agrees with how often its application was tried. *)
RetryInv ==
    /\ \A job \in ToSet(todos) \cup ToSet(retryQueue) \cup ToSet(jobQueue) :
          attempts[job.app] = job.retries
    /\ \A e \in Executors : \A job \in ToSet(hold[e]) :
          attempts[job.app] = job.retries + 1
    /\ \A job \in ToSet(retryQueue) : job.retries # 0

IInv ==
    /\ TypeOK
    /\ ClockInv
    /\ ListingInv
    /\ ThreadInv
    /\ WindowInv
    /\ BuildInv
    /\ SingleHolder
    /\ RetryInv
    /\ NoAppMissed
    /\ FreshNotInDb
    /\ TriesBeforeDrop
=============================================================================
