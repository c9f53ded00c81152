----------------------- MODULE AnalysisPipelineProofs -----------------------
(***************************************************************************)
(* Proofs about the analysis daemon: its inductive invariant, and that it  *)
(* implements the ledger.  Every action is first reduced to one of a few   *)
(* kinds of step (the operators PlainStep to FinishStep); each part of the *)
(* invariant is then shown to survive each kind.                           *)
(***************************************************************************)
EXTENDS AnalysisPipeline, TLAPS, SequenceTheorems, FiniteSetTheorems

-----------------------------------------------------------------------------
(* Lists of jobs *)

(* _retryQueue.add and _jobQueue.addAll put one job behind a list. *)
LEMMA AppendJobs ==
    ASSUME NEW s \in Seq(Job), NEW j \in Job
    PROVE  /\ Append(s, j) \in Seq(Job)
           /\ ToSet(Append(s, j)) = ToSet(s) \cup {j}
           /\ AppsOf(Append(s, j)) = AppsOf(s) \cup {j.app}
           /\ Distinct(s) /\ j.app \notin AppsOf(s) => Distinct(Append(s, j))
<1>0. /\ Len(s) \in Nat
      /\ DOMAIN s = 1 .. Len(s)
      /\ DOMAIN Append(s, j) = 1 .. Len(s) + 1
      /\ \A i \in 1 .. Len(s) : Append(s, j)[i] = s[i] /\ i \in 1 .. Len(s) + 1
      /\ Append(s, j)[Len(s) + 1] = j /\ Len(s) + 1 \in 1 .. Len(s) + 1
      /\ \A i \in 1 .. Len(s) + 1 : i \in 1 .. Len(s) \/ i = Len(s) + 1
  BY LenProperties
<1>1. ToSet(Append(s, j)) = ToSet(s) \cup {j}
  BY <1>0, Zenon DEF ToSet
<1>2. AppsOf(Append(s, j)) = AppsOf(s) \cup {j.app}
  BY <1>1 DEF AppsOf
<1>3. Distinct(s) /\ j.app \notin AppsOf(s) => Distinct(Append(s, j))
  BY <1>0 DEF Distinct, AppsOf, ToSet
<1> QED BY <1>1, <1>2, <1>3

(* take() and the addAll loop remove the first job of a list. *)
LEMMA TailJobs ==
    ASSUME NEW s \in Seq(Job), s # <<>>
    PROVE  /\ Head(s) \in Job
           /\ Tail(s) \in Seq(Job)
           /\ ToSet(s) = ToSet(Tail(s)) \cup {Head(s)}
           /\ AppsOf(s) = AppsOf(Tail(s)) \cup {Head(s).app}
           /\ Distinct(s) => Distinct(Tail(s)) /\ Head(s).app \notin AppsOf(Tail(s))
<1>1. /\ Tail(s) \in Seq(Job) /\ Head(s) \in Job /\ Len(s) \in Nat \ {0} /\ Head(s) = s[1]
      /\ DOMAIN s = 1 .. Len(s)
      /\ DOMAIN Tail(s) = 1 .. Len(s) - 1
      /\ \A i \in 1 .. Len(s) - 1 : Tail(s)[i] = s[i + 1]
  BY HeadTailProperties, EmptySeq, LenProperties
<1>2. ToSet(s) = ToSet(Tail(s)) \cup {Head(s)}
  <2>1. ASSUME NEW i \in 1 .. Len(s), i # 1 PROVE s[i] \in ToSet(Tail(s))
    <3>1. i - 1 \in 1 .. Len(s) - 1 /\ (i - 1) + 1 = i
      BY <2>1, <1>1
    <3> QED BY <3>1, <1>1 DEF ToSet
  <2>2. \A i \in 1 .. Len(s) - 1 : i + 1 \in 1 .. Len(s)
    BY <1>1
  <2> QED BY <1>1, <2>1, <2>2 DEF ToSet
<1>3. AppsOf(s) = AppsOf(Tail(s)) \cup {Head(s).app}
  BY <1>2 DEF AppsOf
<1>4. ASSUME Distinct(s) PROVE Distinct(Tail(s)) /\ Head(s).app \notin AppsOf(Tail(s))
  BY <1>1, <1>4 DEF Distinct, AppsOf, ToSet
<1> QED BY <1>1, <1>2, <1>3, <1>4

(* fetchAnalyticJobs appends one list of jobs to another. *)
LEMMA ConcatJobs ==
    ASSUME NEW s \in Seq(Job), NEW t \in Seq(Job)
    PROVE  /\ s \o t \in Seq(Job)
           /\ ToSet(s \o t) = ToSet(s) \cup ToSet(t)
           /\ AppsOf(s \o t) = AppsOf(s) \cup AppsOf(t)
           /\ Distinct(s) /\ Distinct(t) /\ AppsOf(s) \cap AppsOf(t) = {} =>
                Distinct(s \o t)
<1>1. /\ s \o t \in Seq(Job)
      /\ Len(s) \in Nat /\ Len(t) \in Nat
      /\ DOMAIN s = 1 .. Len(s)
      /\ DOMAIN t = 1 .. Len(t)
      /\ DOMAIN (s \o t) = 1 .. Len(s) + Len(t)
      /\ \A i \in 1 .. Len(s) + Len(t) :
            (s \o t)[i] = IF i <= Len(s) THEN s[i] ELSE t[i - Len(s)]
  BY ConcatProperties, LenProperties
<1>2. ASSUME NEW i \in 1 .. Len(s) + Len(t)
      PROVE  \/ i \in 1 .. Len(s) /\ (s \o t)[i] = s[i]
             \/ i - Len(s) \in 1 .. Len(t) /\ (s \o t)[i] = t[i - Len(s)]
  BY <1>1
<1>3. ASSUME NEW i \in 1 .. Len(s)
      PROVE  i \in 1 .. Len(s) + Len(t) /\ (s \o t)[i] = s[i]
  BY <1>1
<1>4. ASSUME NEW i \in 1 .. Len(t)
      PROVE  i + Len(s) \in 1 .. Len(s) + Len(t) /\ (s \o t)[i + Len(s)] = t[i]
  BY <1>1
<1>5. ToSet(s \o t) = ToSet(s) \cup ToSet(t)
  <2>1. \A j \in ToSet(s \o t) : j \in ToSet(s) \cup ToSet(t)
    BY <1>1, <1>2, Zenon DEF ToSet
  <2>2. \A j \in ToSet(s) : j \in ToSet(s \o t)
    BY <1>1, <1>3 DEF ToSet
  <2>3. \A j \in ToSet(t) : j \in ToSet(s \o t)
    BY <1>1, <1>4 DEF ToSet
  <2> QED BY <2>1, <2>2, <2>3
<1>6. AppsOf(s \o t) = AppsOf(s) \cup AppsOf(t)
  BY <1>5 DEF AppsOf
<1>7. ASSUME Distinct(s), Distinct(t), AppsOf(s) \cap AppsOf(t) = {}
      PROVE  Distinct(s \o t)
  <2> SUFFICES ASSUME NEW i \in 1 .. Len(s) + Len(t), NEW k \in 1 .. Len(s) + Len(t),
                      (s \o t)[i].app = (s \o t)[k].app
               PROVE  i = k
    BY <1>1 DEF Distinct
  <2>1. \A m \in 1 .. Len(s), n \in 1 .. Len(t) : s[m].app # t[n].app
    BY <1>1, <1>7 DEF AppsOf, ToSet
  <2>2. CASE i \in 1 .. Len(s) /\ k \in 1 .. Len(s)
    BY <2>2, <1>1, <1>3, <1>7 DEF Distinct
  <2>3. CASE i - Len(s) \in 1 .. Len(t) /\ k - Len(s) \in 1 .. Len(t)
    <3>1. (s \o t)[i] = t[i - Len(s)] /\ (s \o t)[k] = t[k - Len(s)]
      BY <2>3, <1>1
    <3>2. i - Len(s) = k - Len(s)
      BY <2>3, <3>1, <1>1, <1>7 DEF Distinct
    <3> QED BY <3>2, <1>1
  <2> QED BY <1>2, <2>1, <2>2, <2>3, <1>1
<1> QED BY <1>1, <1>5, <1>6, <1>7

(* readApps turns an answer into one new job per application, in any order. *)
LEMMA OrderingJobs ==
    ASSUME NEW S \in SUBSET Apps, NEW s \in Orderings(S), NEW jobs,
           jobs = [i \in 1 .. Len(s) |-> NewJob(s[i])]
    PROVE  /\ jobs \in Seq(Job)
           /\ ToSet(jobs) = {NewJob(a) : a \in S}
           /\ AppsOf(jobs) = S
           /\ Distinct(jobs)
<1> DEFINE n == Cardinality(S)
<1>1. n \in Nat
  BY FS_Subset, FS_CardinalityType, PipelineAssumption
<1>2. /\ s \in Seq(S) /\ Len(s) = n /\ s \in [1 .. n -> S]
      /\ \A i, j \in 1 .. n : s[i] = s[j] => i = j
      /\ \A a \in S : \E i \in 1 .. n : s[i] = a
  <2> HIDE DEF n
  <2>1. /\ s \in [1 .. n -> S]
        /\ \A i, j \in 1 .. n : s[i] = s[j] => i = j
        /\ \A a \in S : \E i \in 1 .. n : s[i] = a
    BY DEF Orderings, n
  <2> QED BY <1>1, <2>1
<1> HIDE DEF n
<1>3. \A a \in Apps : NewJob(a) \in Job /\ NewJob(a).app = a
  BY PipelineAssumption DEF Job, NewJob
<1>4. jobs \in [1 .. n -> Job] /\ DOMAIN jobs = 1 .. n
      /\ \A i \in 1 .. n : jobs[i] = NewJob(s[i]) /\ jobs[i].app = s[i]
  BY <1>2, <1>3
<1>5. jobs \in Seq(Job)
  BY <1>1, <1>4
<1>6. ToSet(jobs) = {NewJob(a) : a \in S}
  <2>1. ASSUME NEW i \in 1 .. n PROVE jobs[i] \in {NewJob(a) : a \in S}
    BY <1>2, <1>4
  <2>2. ASSUME NEW a \in S PROVE NewJob(a) \in {jobs[i] : i \in 1 .. n}
    BY <1>2, <1>4
  <2> QED BY <1>4, <2>1, <2>2 DEF ToSet
<1>7. AppsOf(jobs) = S
  <2>1. ASSUME NEW a \in S PROVE NewJob(a).app = a
    BY <1>3
  <2> QED BY <1>6, <2>1 DEF AppsOf
<1>8. Distinct(jobs)
  BY <1>2, <1>4 DEF Distinct
<1> QED BY <1>5, <1>6, <1>7, <1>8

(* The lists with no job and with one job. *)
LEMMA SmallJobs ==
    ASSUME NEW job \in Job
    PROVE  /\ ToSet(<<>>) = {} /\ AppsOf(<<>>) = {} /\ Distinct(<<>>)
           /\ ToSet(<<job>>) = {job} /\ AppsOf(<<job>>) = {job.app}
<1>1. ToSet(<<>>) = {} /\ ToSet(<<job>>) = {job}
  BY DEF ToSet
<1>2. AppsOf(<<>>) = {} /\ AppsOf(<<job>>) = {job.app}
  BY <1>1 DEF AppsOf
<1>3. Distinct(<<>>)
  BY DEF Distinct
<1> QED BY <1>1, <1>2, <1>3

(* The empty list, when there is no job to name. *)
LEMMA NoJobs == ToSet(<<>>) = {} /\ AppsOf(<<>>) = {} /\ Distinct(<<>>)
BY DEF ToSet, AppsOf, Distinct

(* The applications of a list of jobs are applications. *)
LEMMA AppsOfJobs ==
    ASSUME NEW s \in Seq(Job)
    PROVE  AppsOf(s) \subseteq Apps /\ ToSet(s) \subseteq Job
<1>1. ToSet(s) \subseteq Job
  BY LenProperties DEF ToSet
<1> QED BY <1>1 DEF AppsOf, Job

(* A job put back by addIntoRetries differs in its retry count only. *)
LEMMA RetriedJob ==
    ASSUME NEW job \in Job, job.retries < RetryLimit
    PROVE  /\ [job EXCEPT !.retries = @ + 1] \in Job
           /\ [job EXCEPT !.retries = @ + 1].app = job.app
           /\ [job EXCEPT !.retries = @ + 1].retries = job.retries + 1
<1>1. PICK a \in Apps, r \in 0 .. RetryLimit : job = [app |-> a, retries |-> r]
  BY DEF Job
<1>2. job.app = a /\ job.retries = r
  BY <1>1
<1>3. r + 1 \in 0 .. RetryLimit
  BY <1>2, PipelineAssumption
<1>4. [job EXCEPT !.retries = @ + 1] = [app |-> a, retries |-> r + 1]
  BY <1>1
<1> QED BY <1>2, <1>3, <1>4 DEF Job

-----------------------------------------------------------------------------
(* Kinds of steps *)

(* Nothing but the places of the threads and the shutdown flags changes,   *)
(* and a main thread that moves is not in the middle of a fetch.           *)
PlainStep ==
    /\ UNCHANGED <<now, finish, listed, db, lastTime, appList, todos,
                   retryQueue, jobQueue, hold, attempts, dropped, lost>>
    /\ \A e \in Executors : exec'[e] = "busy" <=> exec[e] = "busy"
    /\ \/ UNCHANGED <<pc, currentTime>>
       \/ /\ pc' \notin {"succeeded", "failed", "commit", "enqueue"}
          /\ appList = <<>>
          /\ todos = <<>>

(* The environment moves. *)
EnvStep == Tick \/ \E a \in Apps : AppFinishes(a) \/ AppListed(a)

(* An executor is done with a job, one way or another. *)
FinishStep(e, job) ==
    /\ exec[e] = "busy"
    /\ hold[e] = <<job>>
    /\ hold' = [hold EXCEPT ![e] = <<>>]
    /\ exec'[e] # "busy"
    /\ \A f \in Executors : f # e => exec'[f] = exec[f]
    /\ \/ UNCHANGED db
       \/ job.app \notin db /\ db' = db \cup {job.app}
    /\ \/ /\ job.retries < RetryLimit
          /\ retryQueue' = Append(retryQueue, [job EXCEPT !.retries = @ + 1])
          /\ UNCHANGED <<dropped, lost>>
       \/ /\ job.retries = RetryLimit
          /\ dropped' = dropped \cup {job.app}
          /\ UNCHANGED <<retryQueue, lost>>
       \/ /\ lost' = lost \cup {job.app}
          /\ UNCHANGED <<retryQueue, dropped, db>>
       \/ /\ job.app \notin db /\ db' = db \cup {job.app}
          /\ UNCHANGED <<retryQueue, dropped, lost>>
    /\ UNCHANGED <<now, finish, listed, mainVars, jobQueue, attempts>>

(* Each of the five ways an executor is done with its job is a FinishStep.  *)
LEMMA FinishSteps ==
    ASSUME TypeOK, ThreadInv, NEW e \in Executors,
           \/ AnalyseAndSave(e) \/ AnalysisFails(e) \/ SaveUnconfirmed(e)
           \/ AnalysisInterrupted(e) \/ AnalysisError(e)
    PROVE  \E job \in Job : FinishStep(e, job)
<1>1. PICK job \in Job : exec[e] = "busy" /\ hold[e] = <<job>>
  BY DEF ThreadInv, AnalyseAndSave, AnalysisFails, SaveUnconfirmed, AnalysisInterrupted,
         AnalysisError
<1>2. hold[e][1] = job /\ job.retries \in 0 .. RetryLimit
  BY <1>1 DEF Job
<1>3. /\ hold' = [hold EXCEPT ![e] = <<>>]
      /\ exec'[e] # "busy"
      /\ \A f \in Executors : f # e => exec'[f] = exec[f]
      /\ UNCHANGED <<now, finish, listed, mainVars, jobQueue, attempts>>
  BY DEF TypeOK, AnalyseAndSave, AnalysisFails, SaveUnconfirmed, AnalysisInterrupted,
         AnalysisError, Release, unchangedByExecutors, envVars, histVars
<1>4. CASE AnalyseAndSave(e)
  BY <1>1, <1>2, <1>3, <1>4 DEF AnalyseAndSave, FinishStep, histVars
<1>5. CASE AnalysisFails(e)
  <2>1. \/ job.retries < RetryLimit
        \/ ~(job.retries < RetryLimit) /\ job.retries = RetryLimit
    BY <1>2, PipelineAssumption
  <2> QED BY <1>1, <1>2, <1>3, <1>5, <2>1
          DEF AnalysisFails, FinishStep, RetryOrDrop, Retry
<1>6. CASE SaveUnconfirmed(e)
  <2>1. \/ job.retries < RetryLimit
        \/ ~(job.retries < RetryLimit) /\ job.retries = RetryLimit
    BY <1>2, PipelineAssumption
  <2> QED BY <1>1, <1>2, <1>3, <1>6, <2>1
          DEF SaveUnconfirmed, FinishStep, RetryOrDrop, Retry
<1>7. CASE AnalysisInterrupted(e)
  BY <1>1, <1>2, <1>3, <1>7 DEF AnalysisInterrupted, FinishStep
<1>8. CASE AnalysisError(e)
  BY <1>1, <1>2, <1>3, <1>8 DEF AnalysisError, FinishStep
<1> QED BY <1>4, <1>5, <1>6, <1>7, <1>8

(* Every step of the daemon is of one of the kinds the proofs go through.   *)
LEMMA StepKinds ==
    ASSUME TypeOK, ThreadInv, [Next]_vars
    PROVE  \/ PlainStep \/ EnvStep \/ FetchFails \/ StartFetch
           \/ QuerySucceeded \/ QueryFailed \/ DrainRetry \/ Commit \/ Enqueue
           \/ MainThreadDies \/ Crash
           \/ \E e \in Executors : Take(e)
           \/ \E e \in Executors, job \in Job : FinishStep(e, job)
<1> USE DEF unchangedByMain, mainStepsOnly, mainVars, envVars, killVars, histVars
<1>1. CASE UNCHANGED vars
  BY <1>1 DEF PlainStep, vars
<1>2. CASE Environment
  BY <1>2 DEF Environment, EnvStep
<1>3. CASE Configure \/ ConfigureFails \/ CreatePool
  BY <1>3 DEF Configure, ConfigureFails, CreatePool, PlainStep, ThreadInv
<1>4. CASE \E e \in Executors : SubmitExecutor(e)
  BY <1>4 DEF SubmitExecutor, PlainStep, ThreadInv, TypeOK
<1>5. CASE LoopCheck \/ ResolveRM \/ LoginFails \/ EnqueueDone \/ Wake
  BY <1>5 DEF LoopCheck, ResolveRM, LoginFails, EnqueueDone, Wake, PlainStep, ThreadInv
<1>6. CASE KillStep
  BY <1>6 DEF KillStep, KillClearsRunning, KillShutsDown, unchangedByKill, PlainStep
<1>7. ASSUME NEW e \in Executors, CheckRunning(e) \/ TakeInterrupted(e)
      PROVE  PlainStep
  BY <1>7 DEF CheckRunning, TakeInterrupted, unchangedByExecutors, PlainStep, TypeOK
<1>8. ASSUME NEW e \in Executors, ExecutorStep(e)
      PROVE  PlainStep \/ Take(e) \/ \E job \in Job : FinishStep(e, job)
  BY <1>7, <1>8, FinishSteps DEF ExecutorStep
<1>9. CASE MainStep
  BY <1>3, <1>4, <1>5, <1>9 DEF MainStep
<1> QED BY <1>1, <1>2, <1>6, <1>8, <1>9 DEF Next

-----------------------------------------------------------------------------
(* Types and places *)

(* A process that has just started is well typed.                          *)
LEMMA TypeInit == Init => TypeOK
<1> SUFFICES ASSUME Init PROVE TypeOK
  OBVIOUS
<1>1. <<>> \in Seq(Job)
  BY EmptySeq
<1>2. /\ appList \in Seq(Job) /\ todos \in Seq(Job)
      /\ retryQueue \in Seq(Job) /\ jobQueue \in Seq(Job)
      /\ hold \in [Executors -> Seq(Job)]
  BY <1>1 DEF Init
<1>3. /\ now \in Nat /\ finish \in [Apps -> Nat] /\ attempts \in [Apps -> Nat]
      /\ exec \in [Executors -> ExecStates] /\ pc \in MainStates
      /\ lastTime \in Nat /\ currentTime \in Nat /\ restarts \in Nat
  BY PipelineAssumption DEF Init, MainStates, ExecStates
<1>4. service \in BOOLEAN /\ shutdown \in BOOLEAN
  BY Zenon DEF Init
<1>5. /\ listed \subseteq Apps /\ db \subseteq Apps
      /\ dropped \subseteq Apps /\ lost \subseteq Apps
      /\ kill \in {"idle", "stopping", "done"}
  BY DEF Init
<1> QED BY <1>2, <1>3, <1>4, <1>5 DEF TypeOK

(* A query appends well-formed jobs to the list. *)
LEMMA QueryJobs ==
    ASSUME TypeOK, NEW status \in Statuses, Query(status)
    PROVE  \E jobs \in Seq(Job) :
              /\ appList' = appList \o jobs
              /\ ToSet(jobs) = {NewJob(a) : a \in NewApps(status)}
              /\ AppsOf(jobs) = NewApps(status)
              /\ Distinct(jobs)
<1>1. NewApps(status) \in SUBSET Apps
  BY DEF NewApps, Matching, TypeOK
<1>2. PICK s \in Orderings(NewApps(status)) :
          appList' = appList \o [i \in 1 .. Len(s) |-> NewJob(s[i])]
  BY DEF Query
<1> DEFINE jobs == [i \in 1 .. Len(s) |-> NewJob(s[i])]
<1>3. /\ jobs \in Seq(Job)
      /\ ToSet(jobs) = {NewJob(a) : a \in NewApps(status)}
      /\ AppsOf(jobs) = NewApps(status)
      /\ Distinct(jobs)
  BY <1>1, OrderingJobs
<1> QED BY <1>2, <1>3

(* No step of any thread breaks a type.                                    *)
LEMMA TypeNext ==
    ASSUME TypeOK, ThreadInv, ClockInv, [Next]_vars
    PROVE  TypeOK'
<1> USE PipelineAssumption
    DEF TypeOK, MainStates, ExecStates, unchangedByMain, mainStepsOnly, mainVars, envVars,
        killVars, histVars
<1>1. CASE UNCHANGED vars
  BY <1>1 DEF vars
<1>2. CASE Environment
  <2>1. CASE Tick
    BY <2>1 DEF Tick
  <2>2. ASSUME NEW a \in Apps, AppFinishes(a) \/ AppListed(a) PROVE TypeOK'
    BY <2>2 DEF AppFinishes, AppListed
  <2>3. CASE Crash
    <3>1. <<>> \in Seq(Job)
      BY EmptySeq
    <3>2. /\ appList' \in Seq(Job) /\ todos' \in Seq(Job)
          /\ retryQueue' \in Seq(Job) /\ jobQueue' \in Seq(Job)
          /\ hold' \in [Executors -> Seq(Job)]
      BY <2>3, <3>1 DEF Crash
    <3>3. service' \in BOOLEAN /\ shutdown' \in BOOLEAN
      BY <2>3, Zenon DEF Crash
    <3> QED BY <2>3, <3>2, <3>3 DEF Crash
  <2> QED BY <1>2, <2>1, <2>2, <2>3 DEF Environment
<1>3. CASE \/ Configure \/ ConfigureFails \/ CreatePool \/ LoopCheck \/ ResolveRM
           \/ MainThreadDies \/ LoginFails \/ EnqueueDone \/ Wake \/ FetchFails
  <2>1. CASE Configure \/ ConfigureFails \/ CreatePool
    BY <2>1 DEF Configure, ConfigureFails, CreatePool, ResolvedTime
  <2>2. CASE LoopCheck \/ ResolveRM \/ LoginFails \/ EnqueueDone \/ Wake
    BY <2>2 DEF LoopCheck, ResolveRM, LoginFails, EnqueueDone, Wake, ResolvedTime
  <2>3. CASE FetchFails
    <3>1. appList' \in Seq(Job)
      BY <2>3, EmptySeq DEF FetchFails
    <3> QED BY <2>3, <3>1 DEF FetchFails
  <2>4. CASE MainThreadDies
    <3>1. appList' \in Seq(Job) /\ todos' \in Seq(Job)
      BY <2>4, EmptySeq DEF MainThreadDies
    <3>2. lost' \subseteq Apps
      BY <2>4, AppsOfJobs DEF MainThreadDies
    <3>3. currentTime' \in Nat
      BY <2>4 DEF MainThreadDies, ResolvedTime
    <3> QED BY <2>4, <3>1, <3>2, <3>3 DEF MainThreadDies
  <2> QED BY <1>3, <2>1, <2>2, <2>3, <2>4
<1>4. ASSUME NEW e \in Executors, SubmitExecutor(e) PROVE TypeOK'
  BY <1>4 DEF SubmitExecutor
<1>5. CASE StartFetch
  <2>1. now - FetchDelay \in Nat
    BY DEF ClockInv
  <2> QED BY <1>5, <2>1 DEF StartFetch
<1>6. CASE QuerySucceeded \/ QueryFailed
  <2>1. PICK status \in Statuses : Query(status)
    BY <1>6 DEF QuerySucceeded, QueryFailed, Statuses
  <2>2. PICK jobs \in Seq(Job) : appList' = appList \o jobs
    BY <2>1, QueryJobs
  <2>3. appList' \in Seq(Job)
    BY <2>2, ConcatProperties
  <2> QED BY <1>6, <2>3 DEF QuerySucceeded, QueryFailed
<1>7. CASE Commit
  <2>1. appList \o todos \in Seq(Job)
    BY ConcatProperties
  <2> QED BY <1>7, <2>1 DEF Commit
<1>8. CASE Enqueue
  <2>1. Tail(todos) \in Seq(Job) /\ Append(jobQueue, Head(todos)) \in Seq(Job)
    BY <1>8, TailJobs, AppendJobs DEF Enqueue
  <2> QED BY <1>8, <2>1 DEF Enqueue
<1>9. ASSUME NEW e \in Executors, ExecutorStep(e) PROVE TypeOK'
  <2> USE DEF unchangedByExecutors
  <2>1. CASE CheckRunning(e) \/ TakeInterrupted(e)
    BY <2>1 DEF CheckRunning, TakeInterrupted
  <2>2. CASE Take(e)
    <3>1. Tail(jobQueue) \in Seq(Job) /\ Head(jobQueue) \in Job
      BY <2>2, TailJobs DEF Take
    <3>2. attempts' \in [Apps -> Nat]
      <4>1. Head(jobQueue).app \in Apps
        BY <3>1 DEF Job
      <4>2. attempts' = [attempts EXCEPT ![Head(jobQueue).app] = @ + 1]
        BY <2>2 DEF Take
      <4> QED BY <4>1, <4>2
    <3>3. hold' \in [Executors -> Seq(Job)]
      BY <2>2, <3>1 DEF Take
    <3> QED BY <2>2, <3>1, <3>2, <3>3 DEF Take
  <2>3. CASE \/ AnalyseAndSave(e) \/ AnalysisFails(e) \/ SaveUnconfirmed(e)
             \/ AnalysisInterrupted(e) \/ AnalysisError(e)
    <3>1. PICK job \in Job : FinishStep(e, job)
      BY <2>3, FinishSteps
    <3>2. job.app \in Apps
      BY DEF Job
    <3>4. retryQueue' \in Seq(Job)
      <4>1. CASE UNCHANGED retryQueue
        BY <4>1
      <4>2. CASE job.retries < RetryLimit
                   /\ retryQueue' = Append(retryQueue, [job EXCEPT !.retries = @ + 1])
        BY <4>2, RetriedJob, AppendJobs
      <4> QED BY <3>1, <4>1, <4>2 DEF FinishStep
    <3>5. /\ UNCHANGED <<now, finish, listed, mainVars, jobQueue, attempts>>
          /\ hold' \in [Executors -> Seq(Job)]
          /\ db' \subseteq Apps /\ dropped' \subseteq Apps /\ lost' \subseteq Apps
      BY <3>1, <3>2 DEF FinishStep
    <3>6. /\ UNCHANGED <<restarts, killVars>>
          /\ exec' \in [Executors -> ExecStates]
      BY <2>3 DEF AnalyseAndSave, AnalysisFails, SaveUnconfirmed, AnalysisInterrupted,
                  AnalysisError, Release
    <3> QED BY <3>4, <3>5, <3>6
  <2> QED BY <1>9, <2>1, <2>2, <2>3 DEF ExecutorStep
<1>10. CASE KillStep
  BY <1>10 DEF KillStep, KillClearsRunning, KillShutsDown, unchangedByKill
<1>11. CASE DrainRetry
  <2>1. Tail(retryQueue) \in Seq(Job) /\ Append(todos, Head(retryQueue)) \in Seq(Job)
    BY <1>11, TailJobs, AppendJobs DEF DrainRetry
  <2> QED BY <1>11, <2>1 DEF DrainRetry
<1> QED BY <1>1, <1>2, <1>3, <1>4, <1>5, <1>6, <1>7, <1>8, <1>9, <1>10, <1>11
        DEF Next, MainStep

(* A thread holds a job exactly while it is busy, and the main thread has  *)
(* a list only at the places of run() that work on it.                     *)
LEMMA ThreadNext ==
    ASSUME TypeOK, ThreadInv, [Next]_vars
    PROVE  ThreadInv'
<1> USE DEF mainVars
<1>1. CASE PlainStep
  BY <1>1 DEF PlainStep, ThreadInv
<1>2. CASE EnvStep
  BY <1>2 DEF EnvStep, Tick, AppFinishes, AppListed, ThreadInv
<1>3. CASE FetchFails \/ StartFetch
  BY <1>3 DEF FetchFails, StartFetch, unchangedByMain, ThreadInv
<1>4. CASE QuerySucceeded \/ QueryFailed
  BY <1>4 DEF QuerySucceeded, QueryFailed, unchangedByMain, ThreadInv
<1>5. CASE DrainRetry \/ Commit \/ Enqueue \/ MainThreadDies
  BY <1>5 DEF DrainRetry, Commit, Enqueue, MainThreadDies, unchangedByMain, ThreadInv
<1>6. CASE Crash
  BY <1>6 DEF Crash, ThreadInv
<1>7. ASSUME NEW e \in Executors, Take(e) PROVE ThreadInv'
  <2>1. Head(jobQueue) \in Job
    BY <1>7, TailJobs DEF Take, TypeOK
  <2> QED BY <1>7, <2>1 DEF Take, unchangedByExecutors, ThreadInv, TypeOK
<1>8. ASSUME NEW e \in Executors, NEW job \in Job, FinishStep(e, job) PROVE ThreadInv'
  BY <1>8 DEF FinishStep, ThreadInv, TypeOK
<1> QED BY <1>1, <1>2, <1>3, <1>4, <1>5, <1>6, <1>7, <1>8, StepKinds

-----------------------------------------------------------------------------
(* What each kind of step does to the jobs *)

(* The variables that say which jobs there are. *)
jobVars == <<todos, retryQueue, jobQueue, hold, dropped, lost>>

(* A step that leaves the queues, threads and losses alone keeps what is   *)
(* said about them.                                                        *)
LEMMA JobFrame ==
    ASSUME UNCHANGED jobVars
    PROVE  /\ InHand' = InHand /\ Pending' = Pending /\ Closed' = Closed
           /\ SingleHolder => SingleHolder'
<1>1. InHand' = InHand
  BY DEF jobVars, InHand
<1>2. Pending' = Pending /\ Closed' = Closed
  BY <1>1 DEF jobVars, Pending, Closed
<1> QED BY <1>1, <1>2 DEF jobVars, SingleHolder

(* Steps that touch no job at all. *)
LEMMA FrameSteps ==
    ASSUME \/ PlainStep \/ EnvStep \/ FetchFails \/ StartFetch
           \/ QuerySucceeded \/ QueryFailed
    PROVE  UNCHANGED <<jobVars, attempts, db>>
BY DEF jobVars, PlainStep, EnvStep, Tick, AppFinishes, AppListed, FetchFails, StartFetch, QuerySucceeded, QueryFailed, unchangedByMain, mainVars,
       envVars, histVars

(* One job moves from the retry queue to the list being built. *)
LEMMA DrainEffect ==
    ASSUME TypeOK, SingleHolder, DrainRetry
    PROVE  \E job \in Job :
              /\ ToSet(retryQueue) = ToSet(retryQueue') \cup {job}
              /\ AppsOf(retryQueue) = AppsOf(retryQueue') \cup {job.app}
              /\ job.app \notin AppsOf(retryQueue')
              /\ Distinct(retryQueue')
              /\ ToSet(todos') = ToSet(todos) \cup {job}
              /\ AppsOf(todos') = AppsOf(todos) \cup {job.app}
              /\ Distinct(todos')
              /\ UNCHANGED <<jobQueue, hold, dropped, lost, attempts, db>>
              /\ InHand' = InHand /\ Closed' = Closed /\ Pending' = Pending
<1> DEFINE job == Head(retryQueue)
<1>1. /\ retryQueue # <<>> /\ retryQueue' = Tail(retryQueue) /\ todos' = Append(todos, job)
      /\ UNCHANGED <<jobQueue, hold, dropped, lost, attempts, db>>
  BY DEF DrainRetry, unchangedByMain, histVars
<1>2. /\ job \in Job
      /\ ToSet(retryQueue) = ToSet(retryQueue') \cup {job}
      /\ AppsOf(retryQueue) = AppsOf(retryQueue') \cup {job.app}
      /\ job.app \notin AppsOf(retryQueue')
      /\ Distinct(retryQueue')
  BY <1>1, TailJobs DEF TypeOK, SingleHolder
<1>3. job.app \notin AppsOf(todos)
  BY <1>2 DEF SingleHolder
<1>4. /\ ToSet(todos') = ToSet(todos) \cup {job}
      /\ AppsOf(todos') = AppsOf(todos) \cup {job.app}
      /\ Distinct(todos')
  BY <1>1, <1>2, <1>3, AppendJobs DEF TypeOK, SingleHolder
<1>5. InHand' = InHand /\ Closed' = Closed
  BY <1>1 DEF InHand, Closed
<1>6. Pending' = Pending
  BY <1>1, <1>2, <1>4, <1>5 DEF Pending
<1> QED BY <1>1, <1>2, <1>4, <1>5, <1>6

(* The new list and the drained retries become todos. *)
LEMMA CommitEffect ==
    ASSUME TypeOK, SingleHolder, Commit, Distinct(appList),
           AppsOf(appList) \cap Pending = {}
    PROVE  /\ ToSet(todos') = ToSet(appList) \cup ToSet(todos)
           /\ AppsOf(todos') = AppsOf(appList) \cup AppsOf(todos)
           /\ Distinct(todos')
           /\ appList' = <<>>
           /\ UNCHANGED <<retryQueue, jobQueue, hold, dropped, lost, attempts, db>>
           /\ InHand' = InHand /\ Closed' = Closed
           /\ Pending' = Pending \cup AppsOf(appList)
<1>1. /\ todos' = appList \o todos /\ appList' = <<>>
      /\ UNCHANGED <<retryQueue, jobQueue, hold, dropped, lost, attempts, db>>
  BY DEF Commit, unchangedByMain, histVars
<1>2. AppsOf(appList) \cap AppsOf(todos) = {}
  BY DEF Pending
<1>3. /\ ToSet(todos') = ToSet(appList) \cup ToSet(todos)
      /\ AppsOf(todos') = AppsOf(appList) \cup AppsOf(todos)
      /\ Distinct(todos')
  BY <1>1, <1>2, ConcatJobs DEF TypeOK, SingleHolder
<1>4. InHand' = InHand /\ Closed' = Closed
  BY <1>1 DEF InHand, Closed
<1>5. Pending' = Pending \cup AppsOf(appList)
  BY <1>1, <1>3, <1>4 DEF Pending
<1> QED BY <1>1, <1>3, <1>4, <1>5

(* The main thread dies and takes with it what only it knew of. *)
LEMMA DieEffect ==
    ASSUME SingleHolder, MainThreadDies
    PROVE  /\ todos' = <<>> /\ appList' = <<>> /\ pc' = "ended"
           /\ UNCHANGED <<now, finish, listed, lastTime, retryQueue, jobQueue, hold,
                          dropped, attempts, db>>
           /\ InHand' = InHand
           /\ AppsOf(todos) \subseteq Pending
           /\ Pending' = Pending \ AppsOf(todos)
           /\ Closed' = Closed \cup AppsOf(todos)
<1>1. /\ todos' = <<>> /\ appList' = <<>> /\ pc' = "ended"
      /\ lost' = lost \cup AppsOf(todos)
      /\ UNCHANGED <<now, finish, listed, lastTime, retryQueue, jobQueue, hold,
                     dropped, attempts, db>>
  BY DEF MainThreadDies, envVars
<1>2. InHand' = InHand /\ Closed' = Closed \cup AppsOf(todos)
  BY <1>1 DEF InHand, Closed
<1>3. AppsOf(todos') = {}
  BY <1>1, NoJobs
<1>4. Pending' = Pending \ AppsOf(todos)
  BY <1>1, <1>2, <1>3 DEF Pending, SingleHolder
<1> QED BY <1>1, <1>2, <1>4 DEF Pending

(* One job moves from todos to the job queue. *)
LEMMA EnqueueEffect ==
    ASSUME TypeOK, SingleHolder, Enqueue
    PROVE  \E job \in Job :
              /\ ToSet(todos) = ToSet(todos') \cup {job}
              /\ AppsOf(todos) = AppsOf(todos') \cup {job.app}
              /\ job.app \notin AppsOf(todos')
              /\ Distinct(todos')
              /\ ToSet(jobQueue') = ToSet(jobQueue) \cup {job}
              /\ AppsOf(jobQueue') = AppsOf(jobQueue) \cup {job.app}
              /\ Distinct(jobQueue')
              /\ UNCHANGED <<retryQueue, hold, dropped, lost, attempts, db>>
              /\ InHand' = InHand /\ Closed' = Closed /\ Pending' = Pending
<1> DEFINE job == Head(todos)
<1>1. /\ todos # <<>> /\ todos' = Tail(todos) /\ jobQueue' = Append(jobQueue, job)
      /\ UNCHANGED <<retryQueue, hold, dropped, lost, attempts, db>>
  BY DEF Enqueue, unchangedByMain, histVars
<1>2. /\ job \in Job
      /\ ToSet(todos) = ToSet(todos') \cup {job}
      /\ AppsOf(todos) = AppsOf(todos') \cup {job.app}
      /\ job.app \notin AppsOf(todos')
      /\ Distinct(todos')
  BY <1>1, TailJobs DEF TypeOK, SingleHolder
<1>3. job.app \notin AppsOf(jobQueue)
  BY <1>2 DEF SingleHolder
<1>4. /\ ToSet(jobQueue') = ToSet(jobQueue) \cup {job}
      /\ AppsOf(jobQueue') = AppsOf(jobQueue) \cup {job.app}
      /\ Distinct(jobQueue')
  BY <1>1, <1>2, <1>3, AppendJobs DEF TypeOK, SingleHolder
<1>5. InHand' = InHand /\ Closed' = Closed
  BY <1>1 DEF InHand, Closed
<1>6. Pending' = Pending
  BY <1>1, <1>2, <1>4, <1>5 DEF Pending
<1> QED BY <1>1, <1>2, <1>4, <1>5, <1>6

(* One job moves from the job queue to a thread. *)
LEMMA TakeEffect ==
    ASSUME TypeOK, ThreadInv, SingleHolder, NEW e \in Executors, Take(e)
    PROVE  \E job \in Job :
              /\ ToSet(jobQueue) = ToSet(jobQueue') \cup {job}
              /\ AppsOf(jobQueue) = AppsOf(jobQueue') \cup {job.app}
              /\ job.app \notin AppsOf(jobQueue')
              /\ Distinct(jobQueue')
              /\ hold[e] = <<>> /\ hold'[e] = <<job>>
              /\ \A f \in Executors : f # e => hold'[f] = hold[f]
              /\ attempts' = [attempts EXCEPT ![job.app] = @ + 1]
              /\ UNCHANGED <<todos, retryQueue, dropped, lost, db>>
              /\ InHand' = InHand \cup {job.app}
              /\ Closed' = Closed /\ Pending' = Pending
<1> DEFINE job == Head(jobQueue)
<1>1. /\ jobQueue # <<>> /\ jobQueue' = Tail(jobQueue)
      /\ hold' = [hold EXCEPT ![e] = <<job>>]
      /\ attempts' = [attempts EXCEPT ![job.app] = @ + 1]
      /\ exec[e] = "take"
      /\ UNCHANGED <<todos, retryQueue, dropped, lost, db>>
  BY DEF Take, unchangedByExecutors, mainVars
<1>2. /\ job \in Job
      /\ ToSet(jobQueue) = ToSet(jobQueue') \cup {job}
      /\ AppsOf(jobQueue) = AppsOf(jobQueue') \cup {job.app}
      /\ job.app \notin AppsOf(jobQueue')
      /\ Distinct(jobQueue')
  BY <1>1, TailJobs DEF TypeOK, SingleHolder
<1> HIDE DEF job
<1>3. /\ hold[e] = <<>> /\ hold'[e] = <<job>>
      /\ \A f \in Executors : f # e => hold'[f] = hold[f]
  BY <1>1 DEF ThreadInv, TypeOK
<1>4. AppsOf(hold[e]) = {} /\ AppsOf(hold'[e]) = {job.app}
  BY <1>2, <1>3, SmallJobs
<1>5. InHand' = InHand \cup {job.app}
  BY <1>3, <1>4 DEF InHand
<1>6. Closed' = Closed
  BY <1>1 DEF Closed
<1>7. Pending' = Pending
  BY <1>1, <1>2, <1>5 DEF Pending
<1> QED BY <1>1, <1>2, <1>3, <1>5, <1>6, <1>7

(* Putting a job back adds it to the retry queue, one retry older. *)
LEMMA RetryEffect ==
    ASSUME TypeOK, NEW job \in Job, job.retries < RetryLimit,
           retryQueue' = Append(retryQueue, [job EXCEPT !.retries = @ + 1])
    PROVE  \E again \in Job :
              /\ again.app = job.app
              /\ again.retries = job.retries + 1
              /\ ToSet(retryQueue') = ToSet(retryQueue) \cup {again}
              /\ AppsOf(retryQueue') = AppsOf(retryQueue) \cup {job.app}
              /\ Distinct(retryQueue) /\ job.app \notin AppsOf(retryQueue) =>
                   Distinct(retryQueue')
<1> DEFINE again == [job EXCEPT !.retries = @ + 1]
<1>1. again \in Job /\ again.app = job.app /\ again.retries = job.retries + 1
  BY RetriedJob
<1>2. retryQueue \in Seq(Job) /\ retryQueue' = Append(retryQueue, again)
  BY DEF TypeOK
<1> HIDE DEF again
<1>3. /\ ToSet(retryQueue') = ToSet(retryQueue) \cup {again}
      /\ AppsOf(retryQueue') = AppsOf(retryQueue) \cup {again.app}
      /\ Distinct(retryQueue) /\ again.app \notin AppsOf(retryQueue) =>
           Distinct(retryQueue')
  BY <1>1, <1>2, AppendJobs
<1> QED BY <1>1, <1>3

(* A job leaves a thread, for the retry queue or for good. *)
LEMMA FinishEffect ==
    ASSUME TypeOK, ThreadInv, SingleHolder, NEW e \in Executors, NEW job \in Job,
           FinishStep(e, job)
    PROVE  /\ job.app \in InHand /\ InHand' = InHand \ {job.app}
           /\ hold[e] = <<job>> /\ hold'[e] = <<>>
           /\ AppsOf(hold[e]) = {job.app} /\ AppsOf(hold'[e]) = {}
           /\ \A f \in Executors : f # e =>
                 hold'[f] = hold[f] /\ job.app \notin AppsOf(hold[f])
           /\ job.app \notin AppsOf(todos) \cup AppsOf(retryQueue) \cup AppsOf(jobQueue)
           /\ UNCHANGED <<todos, jobQueue, attempts>>
           /\ Pending' = Pending \/ Pending' = Pending \ {job.app}
           /\ job.app \in Pending
           /\ Closed' = Closed \/ Closed' = Closed \cup {job.app}
<1>1. /\ hold[e] = <<job>> /\ hold' = [hold EXCEPT ![e] = <<>>]
      /\ UNCHANGED <<todos, jobQueue, attempts>>
  BY DEF FinishStep, mainVars
<1>2. AppsOf(hold[e]) = {job.app} /\ hold'[e] = <<>> /\ AppsOf(hold'[e]) = {}
  BY <1>1, SmallJobs DEF TypeOK
<1>3. \A f \in Executors : f # e => hold'[f] = hold[f] /\ job.app \notin AppsOf(hold[f])
  BY <1>1, <1>2 DEF TypeOK, SingleHolder
<1>4. job.app \in InHand /\ InHand' = InHand \ {job.app}
  BY <1>2, <1>3 DEF InHand
<1>5. job.app \notin AppsOf(todos) \cup AppsOf(retryQueue) \cup AppsOf(jobQueue)
  BY <1>4 DEF SingleHolder
<1>6. \/ AppsOf(retryQueue') = AppsOf(retryQueue)
      \/ AppsOf(retryQueue') = AppsOf(retryQueue) \cup {job.app}
  <2>1. CASE UNCHANGED retryQueue
    BY <2>1
  <2>2. CASE job.retries < RetryLimit
             /\ retryQueue' = Append(retryQueue, [job EXCEPT !.retries = @ + 1])
    BY <2>2, RetryEffect
  <2> QED BY <2>1, <2>2 DEF FinishStep
<1>7. Pending' = Pending \/ Pending' = Pending \ {job.app}
  BY <1>1, <1>4, <1>5, <1>6 DEF Pending
<1>8. Closed' = Closed \/ Closed' = Closed \cup {job.app}
  BY DEF FinishStep, Closed
<1> QED BY <1>1, <1>2, <1>3, <1>4, <1>5, <1>7, <1>8 DEF Pending

-----------------------------------------------------------------------------
(* The clock, the resource manager and the windows *)

(* Every window ends FetchDelay before the clock, and the next one starts  *)
(* where the last one ended.                                               *)
LEMMA ClockNext ==
    ASSUME TypeOK, ThreadInv, ClockInv, [Next]_vars
    PROVE  ClockInv'
<1> USE PipelineAssumption DEF TypeOK, ClockInv, Fetching, unchangedByMain, mainVars, envVars
<1>1. CASE PlainStep
  BY <1>1 DEF PlainStep
<1>2. CASE EnvStep
  <2>1. CASE Tick
    BY <2>1 DEF Tick
  <2> QED BY <1>2, <2>1 DEF EnvStep, AppFinishes, AppListed
<1>3. CASE FetchFails
  BY <1>3 DEF FetchFails
<1>4. CASE StartFetch
  BY <1>4 DEF StartFetch
<1>5. CASE QuerySucceeded \/ QueryFailed
  BY <1>5 DEF QuerySucceeded, QueryFailed
<1>6. CASE DrainRetry \/ Commit \/ Enqueue
  BY <1>6 DEF DrainRetry, Commit, Enqueue
<1>7. CASE MainThreadDies \/ Crash
  BY <1>7 DEF MainThreadDies, Crash
<1>8. ASSUME NEW e \in Executors, Take(e) PROVE ClockInv'
  BY <1>8 DEF Take, unchangedByExecutors
<1>9. ASSUME NEW e \in Executors, NEW job \in Job, FinishStep(e, job) PROVE ClockInv'
  BY <1>9 DEF FinishStep
<1> QED BY <1>1, <1>2, <1>3, <1>4, <1>5, <1>6, <1>7, <1>8, <1>9, StepKinds

(* Only the environment moves the clock and the applications. *)
LEMMA EnvFrame ==
    ASSUME TypeOK, ThreadInv, [Next]_vars
    PROVE  EnvStep \/ UNCHANGED <<now, finish, listed>>
<1> USE DEF unchangedByMain, mainVars, envVars
<1>1. CASE PlainStep \/ FetchFails \/ StartFetch
  BY <1>1 DEF PlainStep, FetchFails, StartFetch
<1>2. CASE \/ QuerySucceeded \/ QueryFailed \/ DrainRetry \/ Commit \/ Enqueue
           \/ MainThreadDies \/ Crash
  BY <1>2 DEF QuerySucceeded, QueryFailed, DrainRetry, Commit, Enqueue, MainThreadDies, Crash
<1>3. ASSUME NEW e \in Executors, Take(e) PROVE UNCHANGED <<now, finish, listed>>
  BY <1>3 DEF Take, unchangedByExecutors
<1>4. ASSUME NEW e \in Executors, NEW job \in Job, FinishStep(e, job)
      PROVE  UNCHANGED <<now, finish, listed>>
  BY <1>4 DEF FinishStep
<1> QED BY <1>1, <1>2, <1>3, <1>4, StepKinds

(* The resource manager keeps its listing lag.                             *)
LEMMA ListingNext ==
    ASSUME TypeOK, ThreadInv, ClockInv, ListingInv, [Next]_vars
    PROVE  ListingInv'
<1> USE PipelineAssumption DEF TypeOK, ListingInv, ClockInv
<1>1. CASE UNCHANGED <<now, finish, listed>>
  BY <1>1
<1>2. CASE Tick
  BY <1>2 DEF Tick
<1>3. ASSUME NEW a \in Apps, AppFinishes(a) PROVE ListingInv'
  BY <1>3 DEF AppFinishes
<1>4. ASSUME NEW a \in Apps, AppListed(a) PROVE ListingInv'
  BY <1>4 DEF AppListed
<1> QED BY <1>1, <1>2, <1>3, <1>4, EnvFrame DEF EnvStep

(* No step gives an application a second job.                              *)
LEMMA HolderNext ==
    ASSUME TypeOK, ThreadInv, WindowInv, BuildInv, SingleHolder, [Next]_vars
    PROVE  SingleHolder'
<1>1. CASE PlainStep \/ EnvStep \/ FetchFails \/ StartFetch \/ QuerySucceeded \/ QueryFailed
  BY <1>1, FrameSteps, JobFrame
<1>2. CASE Commit
  <2>1. \A a \in AppsOf(appList) : a \notin Pending \cup Closed
    BY AppsOfJobs DEF BuildInv, WindowInv, InOpenWindow, InClosedWindow, TypeOK
  <2>2. /\ AppsOf(todos') = AppsOf(appList) \cup AppsOf(todos)
        /\ Distinct(todos')
        /\ UNCHANGED <<retryQueue, jobQueue, hold>>
        /\ InHand' = InHand /\ Closed' = Closed
        /\ Pending' = Pending \cup AppsOf(appList)
    BY <1>2, <2>1, CommitEffect DEF BuildInv
  <2>3. \A a \in AppsOf(appList) :
            a \notin AppsOf(retryQueue) \cup AppsOf(jobQueue) \cup InHand
    BY <2>1 DEF Pending
  <2>4. Pending' \cap Closed' = {}
    BY <2>1, <2>2 DEF SingleHolder
  <2> QED BY <2>2, <2>3, <2>4 DEF SingleHolder
<1>3. CASE Enqueue
  <2>1. PICK job \in Job :
              /\ AppsOf(todos) = AppsOf(todos') \cup {job.app}
              /\ job.app \notin AppsOf(todos')
              /\ Distinct(todos')
              /\ AppsOf(jobQueue') = AppsOf(jobQueue) \cup {job.app}
              /\ Distinct(jobQueue')
              /\ UNCHANGED <<retryQueue, hold>>
              /\ InHand' = InHand /\ Closed' = Closed /\ Pending' = Pending
    BY <1>3, EnqueueEffect
  <2> QED BY <2>1 DEF SingleHolder
<1>4. CASE Crash
  <2>1. /\ todos' = <<>> /\ retryQueue' = <<>> /\ jobQueue' = <<>>
        /\ \A e \in Executors : hold'[e] = <<>>
        /\ dropped' = {} /\ lost' = {}
    BY <1>4 DEF Crash
  <2>2. InHand' = {}
    BY <2>1, NoJobs DEF InHand
  <2>3. Pending' = {}
    BY <2>1, <2>2, NoJobs DEF Pending
  <2> QED BY <2>1, <2>2, <2>3, NoJobs DEF SingleHolder
<1>5. ASSUME NEW e \in Executors, Take(e) PROVE SingleHolder'
  <2>1. PICK job \in Job :
              /\ AppsOf(jobQueue) = AppsOf(jobQueue') \cup {job.app}
              /\ job.app \notin AppsOf(jobQueue')
              /\ Distinct(jobQueue')
              /\ hold'[e] = <<job>>
              /\ \A f \in Executors : f # e => hold'[f] = hold[f]
              /\ UNCHANGED <<todos, retryQueue>>
              /\ InHand' = InHand \cup {job.app}
              /\ Closed' = Closed /\ Pending' = Pending
    BY <1>5, TakeEffect
  <2>2. AppsOf(hold'[e]) = {job.app} /\ job.app \notin InHand
    BY <2>1, SmallJobs DEF SingleHolder
  <2>3. \A f \in Executors : job.app \notin AppsOf(hold[f])
    BY <2>2 DEF InHand
  <2>4. \A f, g \in Executors : f # g => AppsOf(hold'[f]) \cap AppsOf(hold'[g]) = {}
    BY <2>1, <2>2, <2>3 DEF SingleHolder
  <2> QED BY <2>1, <2>2, <2>4 DEF SingleHolder
<1>6. ASSUME NEW e \in Executors, NEW job \in Job, FinishStep(e, job) PROVE SingleHolder'
  <2>1. /\ job.app \in InHand /\ InHand' = InHand \ {job.app}
        /\ AppsOf(hold'[e]) = {}
        /\ \A f \in Executors : f # e => hold'[f] = hold[f]
        /\ job.app \notin AppsOf(todos) \cup AppsOf(retryQueue) \cup AppsOf(jobQueue)
        /\ UNCHANGED <<todos, jobQueue>>
    BY <1>6, FinishEffect
  <2>2. \A f, g \in Executors : f # g => AppsOf(hold'[f]) \cap AppsOf(hold'[g]) = {}
    BY <2>1 DEF SingleHolder
  <2>3. CASE UNCHANGED retryQueue
    <3>1. Pending' = Pending \ {job.app}
      BY <2>1, <2>3 DEF Pending
    <3>2. Pending' \cap Closed' = {}
      BY <1>6, <3>1, FinishEffect DEF SingleHolder
    <3> QED BY <2>1, <2>2, <2>3, <3>2 DEF SingleHolder
  <2>4. CASE /\ job.retries < RetryLimit
             /\ retryQueue' = Append(retryQueue, [job EXCEPT !.retries = @ + 1])
             /\ UNCHANGED <<dropped, lost>>
    <3>1. /\ AppsOf(retryQueue') = AppsOf(retryQueue) \cup {job.app}
          /\ Distinct(retryQueue')
      BY <2>1, <2>4, RetryEffect DEF SingleHolder
    <3>2. Pending' = Pending /\ Closed' = Closed
      BY <2>1, <2>4, <3>1 DEF Pending, Closed
    <3> QED BY <2>1, <2>2, <3>1, <3>2 DEF SingleHolder
  <2> QED BY <1>6, <2>3, <2>4 DEF FinishStep
<1>7. CASE DrainRetry
  <2>1. PICK job \in Job :
              /\ AppsOf(retryQueue) = AppsOf(retryQueue') \cup {job.app}
              /\ job.app \notin AppsOf(retryQueue')
              /\ Distinct(retryQueue')
              /\ AppsOf(todos') = AppsOf(todos) \cup {job.app}
              /\ Distinct(todos')
              /\ UNCHANGED <<jobQueue, hold>>
              /\ InHand' = InHand /\ Closed' = Closed /\ Pending' = Pending
    BY <1>7, DrainEffect
  <2> QED BY <2>1 DEF SingleHolder
<1>8. CASE MainThreadDies
  <2>1. /\ todos' = <<>>
        /\ UNCHANGED <<retryQueue, jobQueue, hold>>
        /\ InHand' = InHand
        /\ Pending' = Pending \ AppsOf(todos)
        /\ Closed' = Closed \cup AppsOf(todos)
    BY <1>8, DieEffect
  <2> QED BY <2>1, NoJobs DEF SingleHolder
<1> QED BY <1>1, <1>2, <1>3, <1>4, <1>5, <1>6, <1>7, <1>8, StepKinds

(* The list being built has nothing in common with what was collected. *)
LEMMA BuiltIsNew ==
    ASSUME TypeOK, WindowInv, BuildInv
    PROVE  /\ AppsOf(appList) \subseteq Apps
           /\ AppsOf(appList) \cap Pending = {}
           /\ \A a \in AppsOf(appList) : attempts[a] = 0
<1>1. AppsOf(appList) \subseteq Apps
  BY AppsOfJobs DEF TypeOK
<1>2. ASSUME NEW a \in AppsOf(appList) PROVE ~InClosedWindow(a)
  BY <1>1, <1>2 DEF BuildInv, InOpenWindow, InClosedWindow, TypeOK
<1> QED BY <1>1, <1>2 DEF WindowInv

(* Whatever happens to a job, its application does not get lost. *)
LEMMA FinishKeeps ==
    ASSUME TypeOK, ThreadInv, SingleHolder, NEW e \in Executors, NEW job \in Job,
           FinishStep(e, job)
    PROVE  /\ db \subseteq db' /\ db' \subseteq db \cup {job.app}
           /\ Closed \subseteq Closed'
           /\ job.app \in db' \cup Pending' \cup Closed'
<1>1. CASE /\ job.retries < RetryLimit
           /\ retryQueue' = Append(retryQueue, [job EXCEPT !.retries = @ + 1])
           /\ UNCHANGED <<dropped, lost>>
  <2>1. job.app \in Pending'
    BY <1>1, RetryEffect DEF Pending
  <2> QED BY <1>1, <2>1 DEF FinishStep, Closed
<1>2. CASE dropped' = dropped \cup {job.app} /\ UNCHANGED lost
  BY <1>2 DEF FinishStep, Closed
<1>3. CASE lost' = lost \cup {job.app} /\ UNCHANGED dropped
  BY <1>3 DEF FinishStep, Closed
<1>4. CASE db' = db \cup {job.app} /\ UNCHANGED <<dropped, lost>>
  BY <1>4 DEF FinishStep, Closed
<1> QED BY <1>1, <1>2, <1>3, <1>4 DEF FinishStep

(* After a crash the process owes nothing and has given nothing up. *)
LEMMA CrashEffect ==
    ASSUME Crash
    PROVE  /\ Pending' = {} /\ Closed' = {}
           /\ todos' = <<>> /\ retryQueue' = <<>> /\ jobQueue' = <<>> /\ appList' = <<>>
           /\ \A e \in Executors : hold'[e] = <<>>
           /\ \A a \in Apps : attempts'[a] = 0
           /\ lastTime' = 0 /\ pc' = "init"
           /\ dropped' = {}
           /\ UNCHANGED <<now, finish, listed, db>>
<1>1. /\ todos' = <<>> /\ retryQueue' = <<>> /\ jobQueue' = <<>> /\ appList' = <<>>
      /\ \A e \in Executors : hold'[e] = <<>>
      /\ \A a \in Apps : attempts'[a] = 0
      /\ lastTime' = 0 /\ pc' = "init"
      /\ dropped' = {} /\ lost' = {}
      /\ UNCHANGED <<now, finish, listed, db>>
  BY DEF Crash, envVars
<1>2. InHand' = {}
  BY <1>1, NoJobs DEF InHand
<1> QED BY <1>1, <1>2, NoJobs DEF Pending, Closed

(* What was collected, tried or given up lies in the closed windows.       *)
LEMMA WindowNext ==
    ASSUME TypeOK, ThreadInv, ClockInv, ListingInv, WindowInv, BuildInv, SingleHolder,
           [Next]_vars
    PROVE  WindowInv'
<1> USE DEF WindowInv, InClosedWindow, Fetching
<1>1. CASE PlainStep
  <2>1. Pending' = Pending /\ Closed' = Closed
    BY <1>1, FrameSteps, JobFrame
  <2> QED BY <1>1, <2>1 DEF PlainStep
<1>2. CASE EnvStep
  <2>1. Pending' = Pending /\ Closed' = Closed /\ UNCHANGED <<db, attempts>>
    BY <1>2, FrameSteps, JobFrame
  <2>2. Pending \cup Closed \subseteq Apps
    <3>1. \A e \in Executors : AppsOf(hold[e]) \subseteq Apps
      BY AppsOfJobs DEF TypeOK
    <3> QED BY <3>1, AppsOfJobs DEF TypeOK, Pending, Closed, InHand
  <2>3. UNCHANGED <<lastTime, currentTime, pc>>
    BY <1>2 DEF EnvStep, Tick, AppFinishes, AppListed, mainVars
  <2>4. CASE Tick
    BY <2>1, <2>2, <2>3, <2>4, PipelineAssumption DEF Tick, TypeOK
  <2>5. ASSUME NEW a \in Apps, AppFinishes(a) PROVE WindowInv'
    <3>1. /\ finish[a] = 0 /\ now' = now
          /\ \A b \in Apps : b # a => finish'[b] = finish[b]
      BY <2>5 DEF AppFinishes, TypeOK
    <3>2. a \notin Pending \cup Closed \cup db /\ attempts[a] = 0
      BY <3>1
    <3> QED BY <2>1, <2>2, <2>3, <3>1, <3>2 DEF TypeOK
  <2>6. ASSUME NEW a \in Apps, AppListed(a) PROVE WindowInv'
    BY <2>1, <2>3, <2>6 DEF AppListed
  <2> QED BY <1>2, <2>4, <2>5, <2>6 DEF EnvStep
<1>3. CASE FetchFails \/ StartFetch \/ QuerySucceeded \/ QueryFailed
  <2>1. Pending' = Pending /\ Closed' = Closed /\ UNCHANGED <<db, attempts>>
    BY <1>3, FrameSteps, JobFrame
  <2>2. UNCHANGED <<now, finish, lastTime>>
    BY <1>3 DEF FetchFails, StartFetch, QuerySucceeded,
       QueryFailed, unchangedByMain, envVars
  <2>3. CASE StartFetch
    <3>1. \A a \in db : finish[a] <= now - FetchDelay
      BY PipelineAssumption DEF TypeOK
    <3> QED BY <2>1, <2>2, <2>3, <3>1 DEF StartFetch
  <2>4. CASE FetchFails \/ QuerySucceeded \/ QueryFailed
    <3>1. Fetching' => Fetching /\ currentTime' = currentTime
      BY <2>4 DEF FetchFails, QuerySucceeded, QueryFailed
    <3> QED BY <2>1, <2>2, <3>1
  <2> QED BY <1>3, <2>3, <2>4
<1>4. CASE Commit
  <2>1. /\ Pending' = Pending \cup AppsOf(appList) /\ Closed' = Closed
        /\ UNCHANGED <<attempts, db>>
    BY <1>4, BuiltIsNew, CommitEffect DEF BuildInv
  <2>2. /\ pc = "commit" /\ pc' = "enqueue" /\ lastTime' = currentTime
        /\ UNCHANGED <<now, finish>>
    BY <1>4 DEF Commit, unchangedByMain, envVars
  <2>3. \A a \in Apps : InClosedWindow(a) \/ InOpenWindow(a) => InClosedWindow(a)'
    BY <2>2 DEF InOpenWindow, ClockInv, TypeOK
  <2>4. Pending \cup Closed \subseteq Apps
    <3>1. \A e \in Executors : AppsOf(hold[e]) \subseteq Apps
      BY AppsOfJobs DEF TypeOK
    <3> QED BY <3>1, AppsOfJobs DEF TypeOK, Pending, Closed, InHand
  <2>5. \A a \in Pending' \cup Closed' : InClosedWindow(a)'
    BY <2>1, <2>3, <2>4, BuiltIsNew DEF BuildInv
  <2>6. \A a \in Apps : attempts'[a] # 0 => InClosedWindow(a)'
    BY <2>1, <2>3
  <2>7. \A a \in db : finish[a] <= currentTime
    BY <2>2
  <2> QED BY <2>1, <2>2, <2>5, <2>6, <2>7
<1>5. CASE Enqueue
  <2>1. Pending' = Pending /\ Closed' = Closed /\ UNCHANGED <<attempts, db>>
    BY <1>5, EnqueueEffect
  <2> QED BY <1>5, <2>1 DEF Enqueue, unchangedByMain, envVars
<1>6. CASE Crash
  BY <1>6, CrashEffect DEF TypeOK
<1>7. ASSUME NEW e \in Executors, Take(e) PROVE WindowInv'
  <2>1. PICK job \in Job :
            /\ attempts' = [attempts EXCEPT ![job.app] = @ + 1]
            /\ UNCHANGED db
            /\ InHand' = InHand \cup {job.app}
            /\ Closed' = Closed /\ Pending' = Pending
    BY <1>7, TakeEffect
  <2>2. UNCHANGED <<now, finish, mainVars>>
    BY <1>7 DEF Take, unchangedByExecutors, envVars
  <2>3. InClosedWindow(job.app)
    BY <2>1 DEF Pending
  <2>4. \A a \in Apps : attempts'[a] # 0 => InClosedWindow(a)
    BY <2>1, <2>3 DEF TypeOK
  <2> QED BY <2>1, <2>2, <2>4 DEF mainVars
<1>8. ASSUME NEW e \in Executors, NEW job \in Job, FinishStep(e, job) PROVE WindowInv'
  <2>1. /\ job.app \in Pending
        /\ Pending' = Pending \/ Pending' = Pending \ {job.app}
        /\ Closed' = Closed \/ Closed' = Closed \cup {job.app}
        /\ UNCHANGED attempts
        /\ db' \subseteq db \cup {job.app}
    BY <1>8, FinishEffect, FinishKeeps
  <2>2. UNCHANGED <<now, finish, mainVars>>
    BY <1>8 DEF FinishStep
  <2>3. 1 <= finish[job.app] /\ finish[job.app] <= lastTime
    BY <2>1
  <2>4. /\ finish[job.app] # 0
        /\ finish[job.app] + FetchDelay <= now
        /\ Fetching => finish[job.app] <= currentTime
    <3>1. job.app \in Apps
      BY DEF Job
    <3> QED BY <2>3, <3>1, PipelineAssumption DEF ClockInv, TypeOK
  <2> QED BY <2>1, <2>2, <2>3, <2>4 DEF mainVars
<1>9. CASE DrainRetry
  <2>1. Pending' = Pending /\ Closed' = Closed /\ UNCHANGED <<attempts, db>>
    BY <1>9, DrainEffect
  <2> QED BY <1>9, <2>1 DEF DrainRetry, unchangedByMain, envVars
<1>10. CASE MainThreadDies
  <2>1. /\ Pending' \cup Closed' = Pending \cup Closed
        /\ pc' = "ended"
        /\ UNCHANGED <<now, finish, lastTime, attempts, db>>
    BY <1>10, DieEffect
  <2> QED BY <2>1
<1> QED BY <1>1, <1>2, <1>3, <1>4, <1>5, <1>6, <1>7, <1>8, <1>9, <1>10, StepKinds

-----------------------------------------------------------------------------
(* The list being built *)

(* A query returns all that finished in the window with its status, less   *)
(* what the table has already, and nothing else: the resource manager has  *)
(* listed every application that finished FetchDelay ago.                  *)
LEMMA WindowComplete ==
    ASSUME TypeOK, ClockInv, ListingInv, WindowInv, NEW status \in Statuses,
           pc \in {"succeeded", "failed"}
    PROVE  /\ \A a \in NewApps(status) :
                 a \in Apps /\ InOpenWindow(a) /\ a \notin db /\ FinalStatus[a] = status
           /\ \A a \in Supported :
                 InOpenWindow(a) /\ FinalStatus[a] = status => a \in NewApps(status) \cup db
<1> USE PipelineAssumption DEF TypeOK, NewApps, Matching, IsNew, InOpenWindow
<1>1. ASSUME NEW a \in NewApps(status)
      PROVE  a \in Apps /\ InOpenWindow(a) /\ a \notin db /\ FinalStatus[a] = status
  BY <1>1 DEF WindowInv
<1>2. ASSUME NEW a \in Supported, InOpenWindow(a), FinalStatus[a] = status, a \notin db
      PROVE  a \in NewApps(status)
  <2>1. a \in listed
    <3>1. /\ a \in Apps /\ finish[a] \in Nat /\ lastTime < finish[a]
          /\ finish[a] <= currentTime /\ currentTime + FetchDelay <= now
      BY <1>2 DEF ClockInv, Fetching
    <3>2. finish[a] # 0 /\ ~(now <= finish[a] + ListLag)
      BY <3>1
    <3> QED BY <3>1, <3>2 DEF ListingInv
  <2>2. lastTime + 1 <= finish[a] /\ finish[a] <= currentTime
    BY <1>2
  <2> QED BY <1>2, <2>1, <2>2
<1> QED BY <1>1, <1>2

(* The list stays the new part of the open window: only the queries add to *)
(* it, and no thread saves a row for an application it holds.              *)
LEMMA BuildNext ==
    ASSUME TypeOK, ThreadInv, ClockInv, ListingInv, WindowInv, BuildInv, SingleHolder,
           [Next]_vars
    PROVE  BuildInv'
<1>1. ASSUME appList' = <<>>, pc' \notin {"failed", "commit"} PROVE BuildInv'
  BY <1>1, NoJobs DEF BuildInv
<1>2. CASE PlainStep
  <2>1. CASE UNCHANGED <<pc, currentTime>>
    BY <1>2, <2>1 DEF PlainStep, BuildInv, InOpenWindow
  <2>2. CASE ~UNCHANGED <<pc, currentTime>>
    BY <1>1, <1>2, <2>2 DEF PlainStep
  <2> QED BY <2>1, <2>2
<1>3. CASE EnvStep
  <2>1. UNCHANGED <<pc, lastTime, currentTime, appList, db>>
    BY <1>3 DEF EnvStep, Tick, AppFinishes, AppListed, mainVars
  <2>2. CASE UNCHANGED finish
    BY <2>1, <2>2 DEF BuildInv, InOpenWindow
  <2>3. ASSUME NEW a \in Apps, AppFinishes(a) PROVE BuildInv'
    <3>1. CASE pc \notin {"failed", "commit"}
      BY <1>1, <2>1, <3>1 DEF ThreadInv
    <3>2. CASE pc \in {"failed", "commit"}
      <4>1. /\ finish[a] = 0 /\ finish'[a] = now
            /\ \A b \in Apps : b # a => finish'[b] = finish[b]
        BY <2>3 DEF AppFinishes, TypeOK
      <4>2. ~InOpenWindow(a) /\ ~InOpenWindow(a)'
        BY <2>1, <3>2, <4>1, PipelineAssumption DEF InOpenWindow, ClockInv, Fetching, TypeOK
      <4>3. \A b \in Apps : InOpenWindow(b)' = InOpenWindow(b)
        BY <2>1, <4>1, <4>2 DEF InOpenWindow
      <4>4. AppsOf(appList) \subseteq Apps
        BY AppsOfJobs DEF TypeOK
      <4> QED BY <2>1, <4>3, <4>4, PipelineAssumption DEF BuildInv
    <3> QED BY <3>1, <3>2
  <2> QED BY <1>3, <2>2, <2>3 DEF EnvStep, Tick, AppListed
<1>4. CASE FetchFails \/ StartFetch
  BY <1>1, <1>4 DEF FetchFails, StartFetch, ThreadInv
<1>5. CASE Commit \/ MainThreadDies \/ Crash
  BY <1>1, <1>5 DEF Commit, MainThreadDies, Crash
<1>6. CASE Enqueue
  BY <1>1, <1>6 DEF Enqueue, ThreadInv
<1>7. CASE QuerySucceeded
  <2>1. /\ appList = <<>> /\ pc = "succeeded" /\ pc' = "failed"
        /\ UNCHANGED <<finish, lastTime, currentTime, db>>
    BY <1>7 DEF QuerySucceeded, ThreadInv, unchangedByMain, envVars
  <2>2. PICK jobs \in Seq(Job) :
            /\ appList' = appList \o jobs
            /\ ToSet(jobs) = {NewJob(a) : a \in NewApps("SUCCEEDED")}
            /\ AppsOf(jobs) = NewApps("SUCCEEDED")
            /\ Distinct(jobs)
    BY <1>7, QueryJobs DEF QuerySucceeded, Statuses
  <2>3. /\ ToSet(appList') = {NewJob(a) : a \in NewApps("SUCCEEDED")}
        /\ AppsOf(appList') = NewApps("SUCCEEDED")
        /\ Distinct(appList')
    BY <2>1, <2>2, ConcatJobs, NoJobs DEF TypeOK
  <2>4. /\ \A a \in NewApps("SUCCEEDED") :
              InOpenWindow(a) /\ a \notin db /\ FinalStatus[a] = "SUCCEEDED"
        /\ \A a \in Supported : InOpenWindow(a) /\ FinalStatus[a] = "SUCCEEDED" =>
              a \in NewApps("SUCCEEDED") \cup db
    BY <2>1, WindowComplete DEF Statuses
  <2>5. \A job \in ToSet(appList') : job.retries = 0
    BY <2>3 DEF NewJob
  <2>6. \A a : InOpenWindow(a)' = InOpenWindow(a)
    BY <2>1 DEF InOpenWindow
  <2> QED BY <2>1, <2>3, <2>4, <2>5, <2>6 DEF BuildInv
<1>8. CASE QueryFailed
  <2>1. /\ pc = "failed" /\ pc' = "commit"
        /\ UNCHANGED <<finish, lastTime, currentTime, db>>
    BY <1>8 DEF QueryFailed, unchangedByMain, envVars
  <2>2. PICK jobs \in Seq(Job) :
            /\ appList' = appList \o jobs
            /\ ToSet(jobs) = {NewJob(a) : a \in NewApps("FAILED")}
            /\ AppsOf(jobs) = NewApps("FAILED")
            /\ Distinct(jobs)
    BY <1>8, QueryJobs DEF QueryFailed, Statuses
  <2>3. /\ \A a \in NewApps("FAILED") :
              InOpenWindow(a) /\ a \notin db /\ FinalStatus[a] = "FAILED"
        /\ \A a \in Supported : InOpenWindow(a) /\ FinalStatus[a] = "FAILED" =>
              a \in NewApps("FAILED") \cup db
    BY <2>1, WindowComplete DEF Statuses
  <2>4. \A a \in AppsOf(appList) :
              InOpenWindow(a) /\ a \notin db /\ FinalStatus[a] = "SUCCEEDED"
    BY <2>1 DEF BuildInv
  <2>5. AppsOf(appList) \cap AppsOf(jobs) = {}
    BY <2>2, <2>3, <2>4
  <2>6. /\ ToSet(appList') = ToSet(appList) \cup ToSet(jobs)
        /\ AppsOf(appList') = AppsOf(appList) \cup NewApps("FAILED")
        /\ Distinct(appList')
    BY <2>2, <2>5, ConcatJobs DEF TypeOK, BuildInv
  <2>7. \A job \in ToSet(appList') : job.retries = 0
    BY <2>2, <2>6 DEF BuildInv, NewJob
  <2>8. \A a : InOpenWindow(a)' = InOpenWindow(a)
    BY <2>1 DEF InOpenWindow
  <2>9. \A a \in Supported : InOpenWindow(a) /\ FinalStatus[a] = "SUCCEEDED" =>
              a \in AppsOf(appList) \cup db
    BY <2>1 DEF BuildInv
  <2> QED BY <2>1, <2>3, <2>4, <2>6, <2>7, <2>8, <2>9 DEF BuildInv
<1>9. ASSUME NEW e \in Executors, Take(e) PROVE BuildInv'
  BY <1>9 DEF Take, unchangedByExecutors, envVars, mainVars, BuildInv, InOpenWindow
<1>10. ASSUME NEW e \in Executors, NEW job \in Job, FinishStep(e, job) PROVE BuildInv'
  <2>1. /\ job.app \notin AppsOf(appList)
        /\ db \subseteq db' /\ db' \subseteq db \cup {job.app}
    BY <1>10, BuiltIsNew, FinishEffect, FinishKeeps
  <2>2. UNCHANGED <<finish, mainVars>>
    BY <1>10 DEF FinishStep
  <2> QED BY <2>1, <2>2 DEF BuildInv, InOpenWindow, mainVars
<1>11. CASE DrainRetry
  BY <1>11 DEF DrainRetry, unchangedByMain, envVars, BuildInv, InOpenWindow
<1> QED BY <1>2, <1>3, <1>4, <1>5, <1>6, <1>7, <1>8, <1>9, <1>10, <1>11, StepKinds

-----------------------------------------------------------------------------
(* Retries, losses and the table *)

(* The application of a job in a list is one of the list's applications. *)
LEMMA JobInAppsOf ==
    ASSUME NEW jobs, NEW job \in ToSet(jobs)
    PROVE  job.app \in AppsOf(jobs)
BY DEF AppsOf

(* The retry count of a job keeps up with the number of its tries. *)
LEMMA RetryNext ==
    ASSUME TypeOK, ThreadInv, WindowInv, BuildInv, SingleHolder, RetryInv, [Next]_vars
    PROVE  RetryInv'
<1>1. CASE PlainStep \/ EnvStep \/ FetchFails \/ StartFetch \/ QuerySucceeded \/ QueryFailed
  BY <1>1, FrameSteps DEF RetryInv, jobVars
<1>2. CASE Commit
  <2>1. /\ ToSet(todos') = ToSet(appList) \cup ToSet(todos)
        /\ UNCHANGED <<retryQueue, jobQueue, hold, attempts>>
    BY <1>2, BuiltIsNew, CommitEffect DEF BuildInv
  <2>2. \A job \in ToSet(appList) : attempts[job.app] = job.retries
    BY BuiltIsNew, JobInAppsOf DEF BuildInv
  <2> QED BY <2>1, <2>2 DEF RetryInv
<1>3. CASE Enqueue
  <2>1. PICK job \in Job :
            /\ ToSet(todos) = ToSet(todos') \cup {job}
            /\ ToSet(jobQueue') = ToSet(jobQueue) \cup {job}
            /\ UNCHANGED <<retryQueue, hold, attempts>>
    BY <1>3, EnqueueEffect
  <2> QED BY <2>1 DEF RetryInv
<1>4. CASE Crash
  BY <1>4, CrashEffect, NoJobs DEF RetryInv
<1>5. ASSUME NEW e \in Executors, Take(e) PROVE RetryInv'
  <2>1. PICK job \in Job :
            /\ ToSet(jobQueue) = ToSet(jobQueue') \cup {job}
            /\ AppsOf(jobQueue) = AppsOf(jobQueue') \cup {job.app}
            /\ job.app \notin AppsOf(jobQueue')
            /\ hold'[e] = <<job>>
            /\ \A f \in Executors : f # e => hold'[f] = hold[f]
            /\ attempts' = [attempts EXCEPT ![job.app] = @ + 1]
            /\ UNCHANGED <<todos, retryQueue>>
    BY <1>5, TakeEffect
  <2>2. /\ attempts[job.app] = job.retries
        /\ attempts'[job.app] = job.retries + 1
        /\ \A a \in Apps : a # job.app => attempts'[a] = attempts[a]
    BY <2>1 DEF RetryInv, TypeOK, Job
  <2>3. job.app \notin AppsOf(todos) \cup AppsOf(retryQueue) \cup AppsOf(jobQueue') \cup InHand
    BY <2>1 DEF SingleHolder
  <2>4. /\ ToSet(todos) \subseteq Job /\ ToSet(retryQueue) \subseteq Job
        /\ ToSet(jobQueue) \subseteq Job
        /\ \A f \in Executors : ToSet(hold[f]) \subseteq Job
    BY AppsOfJobs DEF TypeOK
  <2>5. \A other \in Job :
            other \in ToSet(todos) \cup ToSet(retryQueue) \cup ToSet(jobQueue') =>
                attempts'[other.app] = attempts[other.app]
    BY <2>2, <2>3, JobInAppsOf DEF Job
  <2>6. ASSUME NEW f \in Executors, NEW other \in ToSet(hold'[f])
        PROVE  attempts'[other.app] = other.retries + 1
    <3>1. CASE f = e
      <4>1. hold'[f] = <<job>> /\ ToSet(<<job>>) = {job}
        BY <2>1, <3>1, SmallJobs
      <4>2. other = job
        BY <2>6, <4>1
      <4> QED BY <2>2, <4>2
    <3>2. CASE f # e
      <4>1. other \in ToSet(hold[f]) /\ other.app \in InHand /\ other.app \in Apps
        BY <2>1, <2>4, <2>6, <3>2, JobInAppsOf DEF InHand, Job
      <4> QED BY <2>2, <2>3, <4>1 DEF RetryInv
    <3> QED BY <3>1, <3>2
  <2> QED BY <2>1, <2>4, <2>5, <2>6 DEF RetryInv
<1>6. ASSUME NEW e \in Executors, NEW job \in Job, FinishStep(e, job) PROVE RetryInv'
  <2>1. /\ hold[e] = <<job>> /\ hold'[e] = <<>>
        /\ \A f \in Executors : f # e => hold'[f] = hold[f]
        /\ UNCHANGED <<todos, jobQueue, attempts>>
    BY <1>6, FinishEffect
  <2>2. attempts[job.app] = job.retries + 1
    BY <2>1, SmallJobs DEF RetryInv
  <2>3. CASE UNCHANGED retryQueue
    BY <2>1, <2>3, NoJobs DEF RetryInv
  <2>4. CASE /\ job.retries < RetryLimit
             /\ retryQueue' = Append(retryQueue, [job EXCEPT !.retries = @ + 1])
    <3>1. PICK again \in Job :
              /\ again.app = job.app
              /\ again.retries = job.retries + 1
              /\ ToSet(retryQueue') = ToSet(retryQueue) \cup {again}
      BY <2>4, RetryEffect
    <3>2. attempts[again.app] = again.retries /\ again.retries # 0
      BY <2>2, <3>1 DEF Job
    <3> QED BY <2>1, <3>1, <3>2, NoJobs DEF RetryInv
  <2> QED BY <1>6, <2>3, <2>4 DEF FinishStep
<1>7. CASE DrainRetry
  <2>1. PICK job \in Job :
            /\ ToSet(retryQueue) = ToSet(retryQueue') \cup {job}
            /\ ToSet(todos') = ToSet(todos) \cup {job}
            /\ UNCHANGED <<jobQueue, hold, attempts>>
    BY <1>7, DrainEffect
  <2> QED BY <2>1 DEF RetryInv
<1>8. CASE MainThreadDies
  BY <1>8, DieEffect, NoJobs DEF RetryInv
<1> QED BY <1>1, <1>2, <1>3, <1>4, <1>5, <1>6, <1>7, <1>8, StepKinds

(* An application is dropped after its last retry and not before. *)
LEMMA TriesNext ==
    ASSUME TypeOK, ThreadInv, WindowInv, BuildInv, SingleHolder, RetryInv, TriesBeforeDrop,
           [Next]_vars
    PROVE  TriesBeforeDrop'
<1>1. CASE UNCHANGED <<attempts, dropped>>
  BY <1>1 DEF TriesBeforeDrop
<1>2. CASE DrainRetry \/ Commit \/ Enqueue \/ MainThreadDies
  BY <1>1, <1>2, BuiltIsNew, DrainEffect, CommitEffect, EnqueueEffect, DieEffect DEF BuildInv
<1>3. CASE Crash
  BY <1>3, CrashEffect, PipelineAssumption DEF TriesBeforeDrop
<1>4. ASSUME NEW e \in Executors, Take(e) PROVE TriesBeforeDrop'
  <2>1. PICK job \in Job :
            /\ ToSet(jobQueue) = ToSet(jobQueue') \cup {job}
            /\ AppsOf(jobQueue) = AppsOf(jobQueue') \cup {job.app}
            /\ attempts' = [attempts EXCEPT ![job.app] = @ + 1]
            /\ UNCHANGED <<dropped, lost>>
    BY <1>4, TakeEffect
  <2>2. attempts[job.app] = job.retries /\ job.retries \in 0 .. RetryLimit /\ job.app \in Apps
    BY <2>1 DEF RetryInv, Job
  <2>3. job.app \notin dropped
    BY <2>1 DEF SingleHolder, Pending, Closed
  <2> QED BY <2>1, <2>2, <2>3, PipelineAssumption DEF TriesBeforeDrop, TypeOK
<1>5. ASSUME NEW e \in Executors, NEW job \in Job, FinishStep(e, job) PROVE TriesBeforeDrop'
  <2>1. hold[e] = <<job>> /\ UNCHANGED attempts
    BY <1>5, FinishEffect
  <2>2. attempts[job.app] = job.retries + 1
    BY <2>1, SmallJobs DEF RetryInv
  <2> QED BY <1>5, <2>1, <2>2 DEF FinishStep, TriesBeforeDrop
<1>6. CASE PlainStep \/ EnvStep \/ FetchFails \/ StartFetch \/ QuerySucceeded \/ QueryFailed
  BY <1>1, <1>6, FrameSteps DEF jobVars
<1> QED BY <1>2, <1>3, <1>4, <1>5, <1>6, StepKinds

(* No application of a closed window is forgotten. *)
LEMMA MissedNext ==
    ASSUME TypeOK, ThreadInv, ClockInv, WindowInv, BuildInv, SingleHolder, NoAppMissed,
           [Next]_vars
    PROVE  NoAppMissed'
<1>1. ASSUME db \cup Pending \cup Closed \subseteq db' \cup Pending' \cup Closed',
             UNCHANGED <<finish, lastTime>>
      PROVE  NoAppMissed'
  BY <1>1 DEF NoAppMissed, Eligible
<1>2. CASE PlainStep \/ EnvStep \/ FetchFails \/ StartFetch \/ QuerySucceeded \/ QueryFailed
  <2>1. Pending' = Pending /\ Closed' = Closed /\ db' = db
    BY <1>2, FrameSteps, JobFrame
  <2>2. ASSUME NEW a \in Apps, AppFinishes(a) PROVE NoAppMissed'
    <3>1. /\ UNCHANGED <<now, lastTime>> /\ finish'[a] = now
          /\ \A b \in Apps : b # a => finish'[b] = finish[b]
      BY <2>2 DEF AppFinishes, TypeOK, mainVars
    <3>2. ~(finish'[a] <= lastTime')
      BY <3>1, PipelineAssumption DEF ClockInv, TypeOK
    <3> QED BY <2>1, <3>1, <3>2 DEF NoAppMissed, Eligible
  <2>3. UNCHANGED <<finish, lastTime>> \/ \E a \in Apps : AppFinishes(a)
    BY <1>2 DEF PlainStep, EnvStep, Tick, AppListed, FetchFails,
       StartFetch, QuerySucceeded, QueryFailed, unchangedByMain, mainVars, envVars
  <2> QED BY <1>1, <2>1, <2>2, <2>3
<1>3. CASE Commit
  <2>1. /\ Pending' = Pending \cup AppsOf(appList) /\ Closed' = Closed
        /\ UNCHANGED db
    BY <1>3, BuiltIsNew, CommitEffect DEF BuildInv
  <2>2. pc = "commit" /\ lastTime' = currentTime /\ UNCHANGED finish
    BY <1>3 DEF Commit, unchangedByMain, envVars
  <2>3. ASSUME NEW a \in Apps, Eligible(a), finish[a] # 0, finish[a] <= currentTime
        PROVE  a \in db \cup Pending \cup Closed \cup AppsOf(appList)
    <3>1. CASE finish[a] <= lastTime
      BY <2>3, <3>1 DEF NoAppMissed
    <3>2. CASE ~(finish[a] <= lastTime)
      <4>1. InOpenWindow(a)
        BY <2>3, <3>2 DEF InOpenWindow, TypeOK
      <4> QED BY <2>2, <2>3, <4>1 DEF BuildInv, Eligible
    <3> QED BY <3>1, <3>2
  <2> QED BY <2>1, <2>2, <2>3 DEF NoAppMissed, Eligible
<1>4. CASE Enqueue
  <2>1. UNCHANGED <<finish, lastTime>>
    BY <1>4 DEF Enqueue, unchangedByMain, envVars
  <2> QED BY <1>1, <1>4, <2>1, EnqueueEffect
<1>5. CASE Crash
  BY <1>5, CrashEffect DEF NoAppMissed, TypeOK
<1>6. ASSUME NEW e \in Executors, Take(e) PROVE NoAppMissed'
  <2>1. UNCHANGED <<finish, lastTime>>
    BY <1>6 DEF Take, unchangedByExecutors, envVars, mainVars
  <2> QED BY <1>1, <1>6, <2>1, TakeEffect
<1>7. ASSUME NEW e \in Executors, NEW job \in Job, FinishStep(e, job) PROVE NoAppMissed'
  <2>1. UNCHANGED <<finish, lastTime>>
    BY <1>7 DEF FinishStep, mainVars
  <2> QED BY <1>1, <1>7, <2>1, FinishEffect, FinishKeeps
<1>8. CASE DrainRetry
  <2>1. UNCHANGED <<finish, lastTime>>
    BY <1>8 DEF DrainRetry, unchangedByMain, envVars
  <2> QED BY <1>1, <1>8, <2>1, DrainEffect
<1>9. CASE MainThreadDies
  <2>1. /\ Pending' \cup Closed' = Pending \cup Closed
        /\ UNCHANGED <<finish, lastTime, db>>
    BY <1>9, DieEffect
  <2> QED BY <1>1, <2>1
<1> QED BY <1>2, <1>3, <1>4, <1>5, <1>6, <1>7, <1>8, <1>9, StepKinds

(* What is queued for a first try has no row. *)
LEMMA FreshNext ==
    ASSUME TypeOK, ThreadInv, WindowInv, BuildInv, SingleHolder, RetryInv, FreshNotInDb,
           [Next]_vars
    PROVE  FreshNotInDb'
<1>0. \A a : NewJob(a).app = a /\ NewJob(a).retries = 0
  BY DEF NewJob
<1>1. CASE PlainStep \/ EnvStep \/ FetchFails \/ StartFetch \/ QuerySucceeded \/ QueryFailed
  BY <1>1, FrameSteps DEF FreshNotInDb, jobVars
<1>2. CASE Commit
  <2>1. /\ ToSet(todos') = ToSet(appList) \cup ToSet(todos)
        /\ UNCHANGED <<jobQueue, hold, db>>
    BY <1>2, BuiltIsNew, CommitEffect DEF BuildInv
  <2>2. ASSUME NEW a \in db PROVE NewJob(a) \notin ToSet(appList)
    BY <1>0, <2>2, JobInAppsOf DEF BuildInv
  <2> QED BY <2>1, <2>2 DEF FreshNotInDb
<1>3. CASE Enqueue
  <2>1. PICK job \in Job :
            /\ ToSet(todos) = ToSet(todos') \cup {job}
            /\ ToSet(jobQueue') = ToSet(jobQueue) \cup {job}
            /\ UNCHANGED <<hold, db>>
    BY <1>3, EnqueueEffect
  <2> QED BY <2>1 DEF FreshNotInDb
<1>4. CASE Crash
  BY <1>4, CrashEffect, NoJobs DEF FreshNotInDb
<1>5. ASSUME NEW e \in Executors, Take(e) PROVE FreshNotInDb'
  <2>1. PICK job \in Job :
            /\ ToSet(jobQueue) = ToSet(jobQueue') \cup {job}
            /\ hold'[e] = <<job>>
            /\ \A f \in Executors : f # e => hold'[f] = hold[f]
            /\ UNCHANGED <<todos, db>>
    BY <1>5, TakeEffect
  <2>2. ToSet(hold'[e]) = {job} /\ job \in ToSet(jobQueue)
    BY <2>1, SmallJobs
  <2>3. \A a \in db, f \in Executors : NewJob(a) \notin ToSet(hold'[f])
    BY <2>1, <2>2 DEF FreshNotInDb
  <2> QED BY <2>1, <2>3 DEF FreshNotInDb
<1>6. ASSUME NEW e \in Executors, NEW job \in Job, FinishStep(e, job) PROVE FreshNotInDb'
  <2>1. /\ hold'[e] = <<>>
        /\ \A f \in Executors : f # e =>
              hold'[f] = hold[f] /\ job.app \notin AppsOf(hold[f])
        /\ job.app \notin AppsOf(todos) \cup AppsOf(jobQueue)
        /\ UNCHANGED <<todos, jobQueue>>
        /\ db' \subseteq db \cup {job.app}
    BY <1>6, FinishEffect, FinishKeeps
  <2>2. NewJob(job.app) \notin ToSet(todos) \cup ToSet(jobQueue)
    BY <1>0, <2>1, JobInAppsOf
  <2>3. \A a \in db', f \in Executors : NewJob(a) \notin ToSet(hold'[f])
    <3>1. \A a \in db, f \in Executors : NewJob(a) \notin ToSet(hold'[f])
      BY <2>1, NoJobs DEF FreshNotInDb
    <3>2. \A f \in Executors : NewJob(job.app) \notin ToSet(hold'[f])
      BY <1>0, <2>1, JobInAppsOf, NoJobs
    <3> QED BY <2>1, <3>1, <3>2
  <2> QED BY <2>1, <2>2, <2>3 DEF FreshNotInDb
<1>7. CASE DrainRetry
  <2>1. PICK job \in Job :
            /\ ToSet(retryQueue) = ToSet(retryQueue') \cup {job}
            /\ ToSet(todos') = ToSet(todos) \cup {job}
            /\ UNCHANGED <<jobQueue, hold, db>>
    BY <1>7, DrainEffect
  <2>2. ASSUME NEW a \in db PROVE NewJob(a) # job
    BY <1>0, <2>1 DEF RetryInv
  <2> QED BY <2>1, <2>2 DEF FreshNotInDb
<1>8. CASE MainThreadDies
  BY <1>8, DieEffect, NoJobs DEF FreshNotInDb
<1> QED BY <1>1, <1>2, <1>3, <1>4, <1>5, <1>6, <1>7, <1>8, StepKinds

-----------------------------------------------------------------------------
(* The theorems *)

(* A process that has just started satisfies every part of the invariant. *)
LEMMA InitInv == Init => IInv
<1> SUFFICES ASSUME Init PROVE IInv
  OBVIOUS
<1>1. TypeOK
  BY TypeInit
<1>2. /\ now = FetchDelay + 1 /\ pc = "init" /\ lastTime = 0 /\ currentTime = 0
      /\ finish = [a \in Apps |-> 0] /\ listed = {} /\ db = {} /\ dropped = {} /\ lost = {}
      /\ attempts = [a \in Apps |-> 0]
      /\ appList = <<>> /\ todos = <<>> /\ retryQueue = <<>> /\ jobQueue = <<>>
      /\ exec = [e \in Executors |-> "none"] /\ hold = [e \in Executors |-> <<>>]
  BY DEF Init
<1>3. InHand = {}
  BY <1>2, NoJobs DEF InHand
<1>4. Pending = {} /\ Closed = {}
  BY <1>2, <1>3, NoJobs DEF Pending, Closed
<1>5. ClockInv
  BY <1>2, PipelineAssumption DEF ClockInv, Fetching
<1>6. ListingInv
  BY <1>2, PipelineAssumption DEF ListingInv
<1>7. ThreadInv
  BY <1>2 DEF ThreadInv
<1>8. WindowInv
  BY <1>2, <1>4 DEF WindowInv
<1>9. BuildInv
  BY <1>2, NoJobs DEF BuildInv
<1>10. SingleHolder
  BY <1>2, <1>3, <1>4, NoJobs DEF SingleHolder
<1>11. RetryInv
  BY <1>2, NoJobs DEF RetryInv
<1>12. NoAppMissed
  BY <1>2 DEF NoAppMissed
<1>13. FreshNotInDb
  BY <1>2 DEF FreshNotInDb
<1>14. TriesBeforeDrop
  BY <1>2, PipelineAssumption DEF TriesBeforeDrop
<1> QED BY <1>1, <1>5, <1>6, <1>7, <1>8, <1>9, <1>10, <1>11, <1>12, <1>13, <1>14 DEF IInv

(* The invariant is inductive: it holds in every state the daemon reaches. *)
THEOREM PipelineInvariant == Spec => []IInv
<1>1. IInv /\ [Next]_vars => IInv'
  <2> SUFFICES ASSUME IInv, [Next]_vars PROVE IInv'
    OBVIOUS
  <2> USE DEF IInv
  <2>1. TypeOK' /\ ThreadInv' /\ ClockInv'
    BY TypeNext, ThreadNext, ClockNext
  <2>2. ListingInv' /\ WindowInv' /\ BuildInv'
    BY ListingNext, WindowNext, BuildNext
  <2>3. SingleHolder' /\ RetryInv' /\ TriesBeforeDrop'
    BY HolderNext, RetryNext, TriesNext
  <2>4. NoAppMissed' /\ FreshNotInDb'
    BY MissedNext, FreshNext
  <2> QED BY <2>1, <2>2, <2>3, <2>4
<1> QED BY InitInv, <1>1, PTL DEF Spec

(* Every variable of the daemon keeps its type. *)
THEOREM PipelineTypes == Spec => []TypeOK
<1>1. IInv => TypeOK
  BY DEF IInv
<1> QED BY PipelineInvariant, <1>1, PTL

(* No application is ever in two queues or threads at once, for any number *)
(* of executors, applications and crashes.                                 *)
THEOREM OneJobPerApp == Spec => []SingleHolder
<1>1. IInv => SingleHolder
  BY DEF IInv
<1> QED BY PipelineInvariant, <1>1, PTL

(* No eligible application that finished in a closed window is forgotten,  *)
(* for any fetch delay that exceeds the listing lag.                       *)
THEOREM NothingMissed == Spec => []NoAppMissed
<1>1. IInv => NoAppMissed
  BY DEF IInv
<1> QED BY PipelineInvariant, <1>1, PTL

(* No application with a row is queued for a first try, although the table *)
(* is consulted by the first window after a start only.                    *)
THEOREM NothingRepeated == Spec => []FreshNotInDb
<1>1. IInv => FreshNotInDb
  BY DEF IInv
<1> QED BY PipelineInvariant, <1>1, PTL

(* A dropped application was tried RetryLimit + 1 times, and none is tried *)
(* more often.                                                             *)
THEOREM BoundedTries == Spec => []TriesBeforeDrop
<1>1. IInv => TriesBeforeDrop
  BY DEF IInv
<1> QED BY PipelineInvariant, <1>1, PTL

(* What the end of a job means for the ledger. *)
LEMMA FinishLedger ==
    ASSUME TypeOK, ThreadInv, SingleHolder, NEW e \in Executors, NEW job \in Job,
           FinishStep(e, job)
    PROVE  \/ /\ Pending' = Pending /\ Closed' = Closed
              /\ \/ db' = db
                 \/ job.app \notin db /\ db' = db \cup {job.app}
           \/ /\ Pending' = Pending \ {job.app} /\ Closed' = Closed \cup {job.app}
              /\ \/ db' = db
                 \/ job.app \notin db /\ db' = db \cup {job.app}
           \/ /\ Pending' = Pending \ {job.app} /\ Closed' = Closed
              /\ job.app \notin db /\ db' = db \cup {job.app}
<1>1. /\ InHand' = InHand \ {job.app} /\ job.app \in InHand
      /\ job.app \notin AppsOf(todos) \cup AppsOf(retryQueue) \cup AppsOf(jobQueue)
      /\ UNCHANGED <<todos, jobQueue>>
  BY FinishEffect
<1>2. CASE /\ job.retries < RetryLimit
           /\ retryQueue' = Append(retryQueue, [job EXCEPT !.retries = @ + 1])
           /\ UNCHANGED <<dropped, lost>>
  <2>1. AppsOf(retryQueue') = AppsOf(retryQueue) \cup {job.app}
    BY <1>2, RetryEffect
  <2>2. Pending' = Pending /\ Closed' = Closed
    BY <1>1, <1>2, <2>1 DEF Pending, Closed
  <2> QED BY <2>2 DEF FinishStep
<1>3. CASE UNCHANGED retryQueue
  <2>1. Pending' = Pending \ {job.app}
    BY <1>1, <1>3 DEF Pending
  <2>2. CASE dropped' = dropped \cup {job.app} /\ UNCHANGED lost
    BY <2>1, <2>2 DEF FinishStep, Closed
  <2>3. CASE lost' = lost \cup {job.app} /\ UNCHANGED dropped
    BY <2>1, <2>3 DEF FinishStep, Closed
  <2>4. CASE /\ job.app \notin db /\ db' = db \cup {job.app}
             /\ UNCHANGED <<dropped, lost>>
    BY <2>1, <2>4 DEF Closed
  <2> QED BY <1>2, <2>2, <2>3, <2>4 DEF FinishStep
<1> QED BY <1>2, <1>3 DEF FinishStep

(* The daemon implements the ledger: collecting, storing, giving up and    *)
(* restarting are all an observer of the jobs and the table ever sees.     *)
THEOREM PipelineImplementsLedger == Spec => LedgerSpec
<1>1. Init => Ledger!Init
  <2> SUFFICES ASSUME Init PROVE Ledger!Init
    OBVIOUS
  <2>1. /\ todos = <<>> /\ retryQueue = <<>> /\ jobQueue = <<>> /\ db = {}
        /\ \A e \in Executors : hold[e] = <<>>
        /\ dropped = {} /\ lost = {}
    BY DEF Init
  <2>2. InHand = {}
    BY <2>1, NoJobs DEF InHand
  <2> QED BY <2>1, <2>2, NoJobs DEF Ledger!Init, Pending, Closed
<1>2. IInv /\ [Next]_vars => [Ledger!Next]_(Ledger!vars)
  <2> SUFFICES ASSUME IInv, [Next]_vars PROVE Ledger!Next \/ UNCHANGED Ledger!vars
    OBVIOUS
  <2>0. TypeOK /\ ThreadInv /\ WindowInv /\ BuildInv /\ SingleHolder
    BY DEF IInv
  <2>1. ASSUME Pending' = Pending, Closed' = Closed, db' = db PROVE UNCHANGED Ledger!vars
    BY <2>1 DEF Ledger!vars
  <2>2. CASE PlainStep \/ EnvStep \/ FetchFails \/ StartFetch \/ QuerySucceeded \/ QueryFailed
    BY <2>1, <2>2, FrameSteps, JobFrame
  <2>3. CASE Enqueue
    BY <2>0, <2>1, <2>3, EnqueueEffect
  <2>4. CASE Commit
    <3>1. /\ Pending' = Pending \cup AppsOf(appList) /\ Closed' = Closed
          /\ UNCHANGED db
      BY <2>0, <2>4, BuiltIsNew, CommitEffect DEF BuildInv
    <3>2. AppsOf(appList) \in SUBSET (Apps \ (db \cup Pending \cup Closed))
      BY <2>0, BuiltIsNew DEF BuildInv, WindowInv, InOpenWindow, InClosedWindow, TypeOK
    <3> QED BY <3>1, <3>2 DEF Ledger!Next, Ledger!Collect
  <2>5. CASE Crash
    BY <2>5, CrashEffect DEF Ledger!Next, Ledger!Restart
  <2>6. ASSUME NEW e \in Executors, Take(e) PROVE UNCHANGED Ledger!vars
    BY <2>0, <2>1, <2>6, TakeEffect
  <2>7. ASSUME NEW e \in Executors, NEW job \in Job, FinishStep(e, job)
        PROVE  Ledger!Next \/ UNCHANGED Ledger!vars
    <3>1. job.app \in Apps /\ job.app \in Pending
      BY <2>0, <2>7, FinishEffect DEF Job
    <3>2. CASE /\ Pending' = Pending /\ Closed' = Closed
               /\ job.app \notin db /\ db' = db \cup {job.app}
      BY <3>1, <3>2 DEF Ledger!Next, Ledger!StoreUnconfirmed
    <3>3. CASE /\ Pending' = Pending \ {job.app} /\ Closed' = Closed \cup {job.app}
               /\ db' = db
      <4>1. {job.app} \in SUBSET Pending
        BY <3>1
      <4> QED BY <3>3, <4>1 DEF Ledger!Next, Ledger!GiveUp
    <3>4. CASE /\ Pending' = Pending \ {job.app} /\ Closed' = Closed \cup {job.app}
               /\ job.app \notin db /\ db' = db \cup {job.app}
      BY <3>1, <3>4 DEF Ledger!Next, Ledger!StoreUnconfirmed
    <3>5. CASE /\ Pending' = Pending \ {job.app} /\ Closed' = Closed
               /\ job.app \notin db /\ db' = db \cup {job.app}
      BY <3>1, <3>5 DEF Ledger!Next, Ledger!Store
    <3> QED BY <2>0, <2>1, <2>7, <3>2, <3>3, <3>4, <3>5, FinishLedger
  <2>8. CASE DrainRetry
    BY <2>0, <2>1, <2>8, DrainEffect
  <2>9. CASE MainThreadDies
    BY <2>0, <2>9, DieEffect DEF Ledger!Next, Ledger!GiveUp
  <2> QED BY <2>0, <2>2, <2>3, <2>4, <2>5, <2>6, <2>7, <2>8, <2>9, StepKinds
<1> QED BY <1>1, <1>2, PipelineInvariant, PTL DEF Spec, LedgerSpec, Ledger!Spec
=============================================================================
