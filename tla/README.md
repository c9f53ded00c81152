# Verification of Dr. Elephant

Dr. Elephant watches a Hadoop cluster: it asks the YARN resource manager which
applications have finished, fetches their data from the history servers, runs
heuristics over it and stores one result per application in a SQL table, which
a Play web application then shows. This directory holds TLA+ models of that
program, TLC configurations that check them, and TLAPS proofs about them. The
paths below are relative to `src/`; `D` stands for
`app/com/linkedin/drelephant`.

## 1. Inventory

| component | state it keeps | operations | where |
|---|---|---|---|
| Play glue | the `DrElephant` thread | `onStart`, `onStop` | `app/Global.java`, `D/DrElephant.java` |
| Main thread | `_running`, `_service`, `_jobQueue`, `lastRun` | `run`, `waitInterval`, `kill` | `D/ElephantRunner.java` |
| Executor threads | the job in hand | `ExecutorThread.run` | `D/ElephantRunner.java` |
| Window fetcher | `_lastTime`, `_currentTime`, `_retryQueue` | `fetchAnalyticJobs`, `readApps`, `addIntoRetries` | `D/analysis/AnalyticJobGeneratorHadoop2.java` |
| Resource manager resolution | `_resourceManagerAddress`, `_token`, `_tokenUpdatedTime` | `updateResourceManagerAddresses`, `updateAuthToken` | the same |
| Job | `_retries` and the application's metadata | `getAnalysis`, `retry` | `D/analysis/AnalyticJob.java` |
| Result table | `yarn_app_result`, keyed by application id | `find.byId`, `save` | `app/models` |
| Kerberos login | `_loginUser` | `checkLogin`, `doAs` | `D/security/HadoopSecurity.java` |
| Registry | fetchers, heuristics, job types per application type | `ElephantContext.init`, lookups | `D/ElephantContext.java`, `D/configurations` |
| MapReduce fetcher | per thread token and random source | `fetchData`, sampling | `D/mapreduce/MapReduceFetcherHadoop2.java` |
| Spark fetcher | lazily resolved log directory | `fetchData`, `getNamenodeAddress` | `app/org/apache/spark/deploy/history` |
| Storage listener | block managers, peak memory | `onTaskEnd`, ... | `app/org/apache/spark/storage` |
| Heuristics | none (pure, limits from the configuration) | `apply` | `D/mapreduce/heuristics`, `D/spark/heuristics` |
| Statistics, severities | none | `median`, `findTwoGroups`, thresholds | `D/math/Statistics.java`, `D/analysis/Severity.java` |
| Scheduler information | a cached configuration | `loadInfo`, schedulers | `D/util/InfoExtractor.java`, `D/schedulers` |
| Web pages and REST | dashboard cache in static fields | `dashboard`, `search`, `compare`, `flowHistory`, `jobHistory`, REST | `app/controllers` |
| Views, scripts, assets | none | rendering | `app/views`, `public`, `compile.sh` |

How they interact. Play starts one daemon thread; it resolves the resource
manager, logs in and fetches a window of finished applications, hands them to
the executor threads through `_jobQueue`, and sleeps. Executors analyse jobs
and save rows; those that fail go to `_retryQueue`, which the next successful
fetch drains. Play's stopping thread calls `kill()` at any time. The web
controllers read the same table concurrently and share static fields among the
request threads.

Behaviours that are hard, and what makes each part correct.

- *Daemon.* Executors, main thread and `kill()` interleave over two queues; a
  fetch makes two queries and may fail at each; a save may commit although it
  throws; threads die of an Error or an interrupt; the process may crash with
  everything but the table lost. Correct: no eligible application is missed, none is in two places
  at once, none with a row is analysed afresh, none is tried more often than the limit
  allows, everything is settled at last, and `kill()` stops every thread.
- *Sessions.* The main thread and every executor keep tokens of their own and
  replace them by rules that differ; resource managers fail over, and servers
  forget tokens. Correct: no token runs out in use, no job is lost because its
  executors were idle, and fetching goes on after every failure.
- *Dashboard.* Requests overlap over four static fields without a lock.
  Correct: no page shows a number older than the delay allows.
- *Search.* A click changes the form it sends, and the next page restores it.
  Every page is a query of its own while rows are inserted; the slice is
  computed in two coordinate systems with 32 bit numbers. Correct: the request
  asks for what the form shows; turning the pages shows every row; each page is
  the slice its number names; the bar links the pages that exist.
- *Histories and comparison.* Rows are limited before they are grouped, and a
  script joins two answers by position; the mouse looks up the execution next
  to it; a comparison merges two queries by definition. Correct: the latest
  executions are shown whole, times and numbers stand next to what they belong
  to, and every job is in its place.
- *MapReduce analysis.* Only a sample of the tasks is fetched; a failed job has
  no tasks at all; severities come from thresholds over averages.
- *Spark analysis.* A log that may end anywhere is replayed through listeners,
  of which one is this program's; executors come and go. Correct: the peak of
  every executor is what the log says, a log too large is reported.
- *Registry.* Requests and the daemon make it without a lock. Correct: it
  settles, and no list of names stays incomplete.

`PROJECT.json` lists every component with its status, and every hazard with
its line and the properties that watch it.

## 2. Modules

| module | what it models | code |
|---|---|---|
| `AnalysisPipeline` | the daemon: main thread, windows, executors, retries, table, `kill()`, crashes | `ElephantRunner`, `AnalyticJobGeneratorHadoop2`, `AnalyticJob.retry`, `Global.onStop` |
| `AnalysisLedger` | what the daemon promises, without clocks, queues or threads | the abstract specification of the above |
| `ManagerSession` | resource managers, their failover, and the tokens of all threads | `updateResourceManagerAddresses`, `updateAuthToken`, `ThreadContextMR2` |
| `DashboardCache` | overlapping requests of the home page over shared static fields | `Application.dashboard` |
| `SearchForm` | the search form: what is disabled, sent, kept in the browser and restored | `public/js/searchform.js` |
| `SearchPaging` | search filters, order, slices and the pagination bar while rows are inserted | `Application.search`, `restSearch`, `PaginationStats`, `pagination.scala.html` |
| `SearchSite` | the form and the pages of its results, composed | the two above |
| `HistoryPages` | history of a flow or job: page, graph data and the script that joins them | `Application.flowHistory`, `jobHistory`, `restFlowGraphData`, `restJobGraphData`, `public/js` |
| `HistoryGraph` | extends it by the mouse and the tooltip | `graphutility.js`, `flowhistoryform.js`, `jobhistoryform.js` |
| `FlowComparison` | two queries and what becomes of them | `Application.compare`, `compareFlows`, `restCompare` |
| `HistorySite` | histories, graphs and comparison in one browser window, over one table | the three above |
| `MapReduceHeuristics` | statistics, severities, scores and the twelve MapReduce heuristics as operators | `Statistics`, `Severity`, `Utils`, `D/mapreduce/heuristics` |
| `MapReduceAnalysis` | one MapReduce analysis: requests to the history server, the sample, the loop over the heuristics, the sums | `MapReduceFetcherHadoop2`, `AnalyticJob.getAnalysis` |
| `SparkAnalysis` | one Spark analysis: the limit on the log, its replay, the listeners and six heuristics | `app/org/apache/spark`, `D/spark` |
| `JobAnalysis` | an analysis of either type up to job type and scheduler | `AnalyticJob.getAnalysis`, `matchJobType`, `InfoExtractor` |
| `Registry` | who makes the registry, and the lists of heuristic names that requests build without a lock | `ElephantContext`, `HDFSContext`, `helpPage.scala.html` |

How they are composed. `AnalysisPipeline` implements `AnalysisLedger`.
`ManagerSession` is a closer look at `ResolveRM` and the queries of
`AnalysisPipeline`, and at why an analysis fails. `JobAnalysis` extends `MapReduceAnalysis` and
instantiates `SparkAnalysis`; it refines the one step that an analysis is in the
daemon (it ends with a row or with an exception). `SearchSite` and
`HistorySite` instantiate the modules of their pages over one table; their
`Insert` is `AnalysisPipeline`'s `AnalyseAndSave` as a reader of the table sees
it. `MC...` modules give the constants values for TLC, `...Proofs` modules hold
theorems, and `NumberedSets` holds what these proofs share: lemmas on largest
and smallest numbers of a set, numberings of its elements, sums over it, binary
search and division.

### AnalysisPipeline

One action per statement of the code that another thread can come between:

- *Main thread* (`pc`): `Configure`/`ConfigureFails`, `CreatePool`,
  `SubmitExecutor`, `LoopCheck`, `ResolveRM`, `LoginFails`, `StartFetch` (the
  end of the window is fixed here), `QuerySucceeded`, `QueryFailed` (the two
  requests of one window), `FetchFails` (either throws: `lastTime` stays),
  `DrainRetry` (one job polled from the retry queue, while executors add to
  it), `Commit` (the queue was found empty: `_lastTime` moves and the list is
  returned), `Enqueue` (one job at a time), `EnqueueDone`, `Wake`,
  `MainThreadDies` (with the jobs it has drained or not queued yet).
- *Executors* (`exec`, `hold`): `CheckRunning`, `Take`, `TakeInterrupted`,
  `AnalyseAndSave`, `AnalysisFails` and `SaveUnconfirmed` (the row is in the
  table but `save()` throws), both followed by `RetryOrDrop` in the same step;
  `AnalysisInterrupted` and `AnalysisError`, after which the job is `lost`.
- *Stop*: `KillClearsRunning` and `KillShutsDown` are two steps of `kill()`;
  executors created in between still see the cleared flag.
- *Environment*: `Tick`, `AppFinishes`, `AppListed` (up to `ListLag` ticks
  later), `Crash` (everything but the table, the cluster and the clock is
  reset; `_lastTime` is 0 again).

The queries of a window take the applications with `lastTime < finish <=
currentTime`; only while `lastTime` is 0 are those with a row left out, as in
`readApps`. The order of a listing is the environment's choice.

`attempts`, `dropped` and `lost` are history the code writes only to its log.

### ManagerSession

A token is its age: the time since it was authenticated, `Lifetime` once a
server refuses it. `NewToken` and `AfterFetch` are the two `updateAuthToken`s.
The first compares with `_currentTime`, which is the present in
`updateResourceManagerAddresses` and the present less the delay in
`fetchAnalyticJobs`; the model keeps the difference. `StartResolving`,
`AskState` (one manager each) and `Resolved` are the call before each fetch,
`FetchAnalyticJobs` both queries, `Analyse` the fetch of a job by an executor
with its own token, which looks at the age only afterwards. `StepDown`,
`Elect`, `Recover` and `Forget` are the servers.

### DashboardCache

`dashboard()` is split at every read and write of a static field. `count[c]` is
not a number of rows but the time it was counted at: that is what staleness is
about. A request takes at most `RequestTime` ticks.

### SearchForm and SearchSite

The inputs are folded by how the script treats them: one text for the job, one
for the flow, one for user and queue, one date with its hidden timestamp, one
list, and two boxes. `Change` is an input event with `updateForm`, `Click` the
handler of the button (keep the form, convert dates, remove names, send),
`Arrive` the next page, which fills its form from what was kept. The reader may
click again before the answer is there. `Searched` is what the server reads:
it trims the texts, so that one of blanks only (`Blanks`) counts as none. Blanks for
a job or a flow disable the other inputs in the form, which sends none of them but
the dates filled in before: such a search is for everything, or everything between
those dates, and `Meant` takes the form to mean that. `SearchSite` lets the reader leave the
form for the pages of results.

### SearchPaging

Result sets, their order and the slice a page shows are operators translated
from the code; only the walk is a state machine. A page is a set of rows; rows
with equal times come in any of the orders in `TieBreaks`, a new one for every
query, as SQL allows. `IntMax` makes the product of page number and page length
wrap around where a Java `int` would.

### HistoryPages

A page is loaded (`FlowHistory`, `JobHistory`), rows are inserted, the script
loads the graph (`GraphLoaded`). The model keeps both answers and what the code
makes of them: executions, columns, numbers and the times by position.

### HistoryGraph, FlowComparison and HistorySite

A position of the mouse is the time below it, since the scale of the axis is
increasing. `BisectLeft` is the one function of d3 that decides what is shown.
`MouseMove` leaves the tooltip as it is where the handler throws. Sorting may
leave equal scores in any order.

`CompareFirst` and `CompareSecond` are the two queries of `compare`, between
which rows may be inserted; each returns any rows of its execution up to the
limit. `TreeSets` are the sets a tree that ignores case may keep, which depends
on the order of a hash map.

### MapReduceHeuristics and MapReduceAnalysis

A task that was not sampled has no counters and times of 0, as in
`MapReduceTaskData`; a heuristic that looks at its counters throws, as the null
reference would. `Limits` takes a configured list only if it has four limits that
can all be evaluated. Fractions are counted in parts of `Parts`, memory in whole
megabytes; 0/0 and x/0 behave as doubles, or as the division of longs in
`MapperSpeedHeuristic`. Random shuffles are any order. `RequestFails` may take
the place of any request, except those for the stack trace of a failed job,
whose exceptions are caught.

### SparkAnalysis and JobAnalysis

One action per kind of event of the log, in any order a Spark application may write them;
`ReplayEnds` may come after any of them, as a log may be cut off. `status` is
Spark's own view of the blocks and `peak` what
`StorageStatusTrackingListener` makes of it. Of `JobProgressListener` the model
has counts, durations and the trimming of the lists of stages
(`spark.ui.retainedStages`), which forgets what `JobRuntimeHeuristic` looks up.
The heuristics run as one step, being pure.

`JobAnalysis` ends an analysis of either type: the first job type that matches,
with the default last, and the first scheduler that is not empty, whose four ids are
taken together or not at all. Of an application whose log was not read only the
id is known.

### Registry

The daemon's `LoadBlockSize`, `InitConstruct` and `InitAssign` run beside the
requests of pages. `Ask` to `Return` are the reads and writes of `INSTANCE` in
`instance()`: two requests may both find it null, and each returns what it
reads in the end. `AskNames`, `FillPut` and `Allocate` are
`getAllHeuristicNames`; a thread that finds no table in the map allocates one
over that of another thread. `StartIterator`, `NextEntry` and `Modified` are
the loop of the page over the live map. A request that comes while the lists
are made may show a part of them or fail; the properties say that this never
outlasts the filling. Likewise a registry made before the block size is known
may replace the daemon's, and `LimitsOfCluster` says that only such a one has
the wrong limits. `Construct` and `Finish` are the two data skew heuristics of
a registry, which read the block size one after the other, so that a registry
begun before it was loaded may mix limits of both sizes.

## 3. What the runs check

| run | instance | shows |
|---|---|---|
| `pipeline_safety` | 2 applications (one succeeds, one fails), 2 executors, HA, delay 2, lag 1, 1 retry, 6 ticks, 1 crash | safety of the daemon, and that it implements the ledger |
| `pipeline_liveness` | 2 applications, 2 executors, delay 1, no lag, 1 retry, 3 ticks, 1 crash | everything is settled at last, and again after a restart; `kill()` stops every thread |
| `retry_comment` | 1 application, the code's limit of 3 retries | violated: a job is tried four times |
| `session` | 2 managers, 2 executors, 2 jobs, 2 retries, 1 failover, 1 restart, every interval 1, tokens live for 5 | tokens of the main thread never run out, no job is lost to idle executors, fetching goes on after the last failure |
| `dashboard` | 2 requests, delay 1, request time 2, 7 ticks | staleness of the home page is bounded |
| `search` | one text and one of blanks for each input; 6 rows (two with equal times), pages of 2, bar of 3, `int` up to 8 | the request and the restored form; walks, slices and the bar |
| `history` | 7 rows of 4 executions, limits 4 rows and 2 executions, 1 stage; 3 positions of the mouse, 1 part in the tooltip; comparisons of up to 2 rows each, two job definitions that differ in case | the executions shown and their times, the tooltip, the comparison |
| `history_times`, `history_job_numbers`, `history_stage_numbers` | 4 rows of 2 executions | violated, see section 6 |
| `analysis` | MapReduce: every list of up to 3 tasks out of 5 kinds and every collection of 4, sample of 2, and lists with odd values. Spark: an application that caches blocks (4 storage and task events), one of two jobs and three stages of which one is retained, logs that are too large, settings that are absent or no numbers; lists of limits that are too short or cannot be evaluated | the sample, the peaks and the results of either type |
| `registry` | 3 requests and the daemon's start, 2 supported types, for each file one type that is missing in it | `INSTANCE` settles, lists end complete |

The names in `PROJECT.json` are authoritative; each property is stated in a
comment above its definition.

*Bounds and why they are enough.* Of the daemon, two applications are one for
each of the two queries of a window. Each finishes at one of two ticks, so that
both may fall into one window or one into the next, with the other's job already
queued, held, given up for a retry or stored; two executors are needed for two
holders of one job; six ticks with a delay of two make windows that can fail and
be repeated before and after each finish; one retry is both the first and the
last. One crash may come at any state, with any part of the work done. The proofs
have no bound on applications, ticks, retries or crashes. Executors are symmetric
(they are only quantified over, and the run has no liveness property). Liveness
is checked on a smaller instance without symmetry, with a crash: what was
given up before it must be settled again.

Of the sessions, two managers are one that is active and one that is asked in
vain, and a lifetime of 5 is the least that `SessionAssumption` admits for these
intervals: every token runs out if it is not replaced at the first occasion. Two
executors with two retries are the most `JobsKept` allows (with three it fails,
as a job may meet an executor with an old token at every try); the shipped
defaults, three threads and `_RETRY_LIMIT` 3, are exactly at that limit.
`TriesSuffice` states this condition, and with it that a job's tries come
within one lifetime of a token: here 2 waits of 1 and a lifetime of 5, in the
code 3 waits of a minute and a lifetime of some hours.

Two requests suffice for a stale overwrite, and seven ticks for two refreshes in
sequence with a slow one across both. Six rows are three pages, the bar moves
once, and two rows come in between; eight as the largest `int` makes the
offset wrap. The texts of the form are opaque, so that one of each, beside one of blanks, is enough; the
reader may click twice on a page and load the page again as often as he likes.
Seven rows let each limit of the histories hit alone and together, with a
mouse left of an execution, on one, and right of the last; a flow may be
compared with itself.
Four tasks are more than the sample for one kind, with every multiset of five
kinds of task (two sizes of mapper, a task that was killed, two reducers, one
of which took no time). Four events of a Spark log let a block be cached,
replaced and lost with its executor, in any order; the log may end after any.
Three requests let two fill the map and a third iterate over it, with a
fourth actor, the daemon, replacing it; two types make a half-filled map.

The largest instances are `registry` (3.9 million states), `pipeline_safety` (720
thousand), `session` (550 thousand), `search` (490 thousand) and `analysis` (370
thousand); each takes one or two minutes.

Deadlock is checked in `session`, whose clock runs for ever. The other systems
may stop: the clock and the rows are bounded, the daemon can be killed, and an
analysis ends.

*Fairness.* `FairSpec` of `AnalysisPipeline`: every thread that can step
eventually does (weak fairness of `MainStep` and each `ExecutorStep`): threads
are scheduled by the JVM, and a remote call returns or throws. This is an
assumption about the network, since the code sets no timeout. The clock ticks,
the resource manager lists what finished (`Tick`, `AppListed`), and `kill()`
goes on once it has begun. Strong fairness of `StartFetch` and the two queries says
that a login and a request that are tried again and again do not fail forever;
without it nothing is ever collected. No fairness is put on success of an
analysis or of `save()`: a job that always fails is dropped, and that counts as
settled, as does one lost with the thread that held it, until a restart forgets both.
`LeftAlone` says when an application need not be settled: `kill()` was called, no
executor is alive, or the main thread has died and the job is not in the queue or in an
executor's hand. That one executor dies, or that the main thread dies after
it has queued a job, is no excuse. `Spec` of `ManagerSession`: the main thread, the executors and the
clock go on, a manager that is down comes back, and the managers elect one of them,
which is what YARN's high availability does. `FetchesSettle` needs no more
than that: the code has to find the manager and to replace its token itself.

## 4. What is proved

TLAPS proves, for every value of the constants that satisfies the named
assumptions of the modules:

| theorem | says |
|---|---|
| `PipelineTypes`, `OneJobPerApp`, `NothingMissed`, `NothingRepeated`, `BoundedTries` | `TypeOK`, `SingleHolder`, `NoAppMissed`, `FreshNotInDb` and `TriesBeforeDrop` always hold |
| `PipelineInvariant` | their inductive invariant `IInv` does |
| `PipelineImplementsLedger` | every behaviour of `AnalysisPipeline` is one of `AnalysisLedger` |
| `SessionTypes`, `MainThreadAuthenticated` | `TypeOK` and `MainTokenAccepted`, for any managers, executors, jobs and intervals |
| `QuietNightSurvived` | `JobsKept`, for any number of executors and retries that `TriesSuffice` admits |
| `DashboardStaleness` | `BoundedStaleness`, for any number of requests |
| `PagesExact`, `BarsExact`, `WalksComplete` | `PageExact`, `BarExact` and `WalkComplete`, for any rows and lengths of pages, provided that the rows fit an `int` |
| `RequestMatches`, `FormComesBack` | `RequestMatchesForm` and `FormRestored`, for any texts |
| `SiteTypeCorrect` of `SearchSiteProofs` and of `HistorySiteProofs` | `SiteTypeOK` of either site |
| `LatestAreListed`, `ShownAreComplete`, `TimesAreWritten` | `LatestListed`, `ShownComplete` and `TimesMatchWhenQuiet`, for any rows and limits |
| `NearestIsShown`, `BestPartsAreShown` | `NearestShown` and `TopPartsShown`, for any positions and number of parts |
| `ComparisonIsComplete` | `ComparisonComplete`, for any rows and limit |
| `FaithfulSample`, `FaithfulMapReduceSample` | `SampleFaithful`, for any jobs and any limit |
| `NoOtherException` | `OnlyZeroTimeThrows`, for any jobs, limits and configured heuristics |
| `FailedJobsAreReported` | `FailedJobReported`, provided that the heuristic on exceptions is configured once |
| `ComplaintsAreCounted` | `ComplaintsCount`, provided that the limits are above zero |
| `SizesAreToldApart` | `TwoSizesToldApart`, for any number of tasks and any two sizes |
| `SamplesAreNeutral` | `SamplingNeutral`, for any tasks that are alike |
| `PeaksAreReported` | `PeakReported`, for any applications, blocks and events in any order |
| `SparkJobsAreReported` | `SparkJobReported`, provided that the heuristic on the size of the log is configured and that the upper limits on the failure rate of a job are above zero |
| `JobTypeCorrect` | `JobTypeOK`, for an analysis of either type |
| `RegistryTypes`, `InstanceStays`, `LimitsFollowCluster`, `NamesComplete`, `CalmRequestsComplete` | all properties of `Registry`, for any requests and types |

*The daemon.* None of the properties is inductive by itself. That no job is in
two places depends on windows not overlapping, which depends on the order of
`_lastTime`, `_currentTime` and the clock; that nothing is missed depends on
the listing lag being shorter than the delay and on what the half-built list
holds between the two queries. `IInv` names these parts: `ClockInv` (windows
end `FetchDelay` before the clock and never run backwards), `ListingInv` (how
long an application may stay unlisted), `ThreadInv` (what a thread holds at
each place of its code), `WindowInv` (jobs, attempts and rows lie inside the closed
windows), `BuildInv` (the list under construction is exactly the part of the
window that has been queried), `RetryInv` (retry counts agree with the number of tries),
and the properties themselves. The key assumption is `ListLag < FetchDelay`:
without it `NoAppMissed` is false. Steps are sorted into kinds by what they
change (`PlainStep`, `EnvStep` and the lemmas named `...Effect`, from `DrainEffect` to
`CrashEffect`), and one lemma per kind proves the conjuncts that it disturbs.
While the retry queue is drained, its jobs are in the hand of the main thread
(`todos`), and `ThreadInv` says that they are there only then. The refinement maps the table to `stored`, all
queues and hands together to `pending`, and what was dropped or lost to
`closed`; handing a job from one place to another is then a stutter. A dying main
thread gives up all jobs it holds at once (`GiveUp`).

*Sessions.* That the token is younger than its lifetime is not inductive, since
nothing renews a token of a thread that waits. `TokenYoungerThanUpdate` says
that it is no older than the noted time of its update, as far as that is counted;
the check before each use, and an interval between two uses that
`SessionAssumption` bounds, do the rest.

That no job is lost to a quiet night (`QuietNightSurvived`) is a count. While
nothing fails over, the list is fetched every `FetchInterval`, and a job that
was given up is tried once after each fetch (`ListFetched`, `TriedAtOnce`).
Each failure leaves an executor with a new token, which does not run out during
the tries; so a job has been given up by at least as many executors with new
tokens as it has retries (`OneFailureEach`), and `TriesSuffice` says that there
are no more executors than that. It also says that so many rounds are shorter
than the life of a token.

*The dashboard.* `StalenessInv` bounds the age of each number from below by
`lastFetch`, and by the start of a request that has refreshed it. The second
part is what survives a slow request that writes older numbers and an older stamp.
The type invariant of the dashboard is part of this proof and of no run.

*The pages.* The places of the rows of a result are all numbers below the
number of rows, each once (`RankType` and the lemmas after it). So a window of
places has as many rows as it has places, which is `PagesExact`; the rows
fetched for the bar are a window too, in which the code computes places of its
own, and the two agree (`BarsExact`). An insertion only moves rows to later
places, and the rows a reader has not seen lie behind what he has read
(`WalksComplete`). `TableFits` and `WalkFits` say that the rows, and the
rows and one page, fit an `int`; without them the product of page and page
length wraps around. The `search` run satisfies them.

*The form.* `FormInv` says that until the first click of a page the hidden
timestamp is empty, that which inputs are disabled is a function of the values,
and that what is kept of the form has the same value of that function.

*The histories.* `PagesInv` says from which rows of the table the page and the
data of the graph were made. What remains is about one query: if it fetches a
row, it fetches every later one (`FetchedRows`). An execution of which some row is
fetched therefore ends with a fetched row, so that what is listed are the latest
executions in order. If the limit was hit, the page leaves out the earliest
execution it knows, and every other was fetched whole (`NoneCut`). The times are
right when nothing was inserted, because the graph then lists the same executions the
other way round.

*The graph.* A list in ascending order splits at one place for each time, and the
half that the bisection goes on with has that place. So it finds it, for
a smallest range in which it did not would be refuted by its half. `TooltipInv`
and `BestShown` say which record the tooltip was made from. The scores of the
parts add up to the execution's, each row being in one part, so that parts whose
scores reach no further than the shown ones are really those with the highest.

*The comparison.* Only the table grows between the two queries
(`ComparisonInv`): if the limit is not hit by the rows that are there now, it was
not hit by the queries, and each had at least the rows that were known when
the comparison was asked for.

*The sample.* `SampleInv` says that at any time the tasks read are the first
`n` in the order after the shuffle. `FaithfulSample` then takes that order as
the map from the sample to the tasks.

*The MapReduce analysis.* `AnalysisInv` adds to that where the analysis is, that
it has no results before its heuristics run, and that it fails later only for the
two causes of `OnlyZeroTimeThrows`. The lemmas before it go through the twelve
heuristics: each yields a severity or throws (`SeverityType`), and `WhyItThrows`
says when. Of no tasks a heuristic finds nothing (`SilentWithoutTasks`), unless a limit is 0. A total, which the
model makes from the last place down, is what any additive function of sets of
places says (`TotalIs`), after which sums of two groups and of equal tasks are
arithmetic. With inputs of two sizes only, the average lies between them, and the two
groups are those of either size (`TwoSizes`), which gives `SizesAreToldApart`.
`SamplesAreNeutral` compares the sample with all tasks, heuristic by heuristic: in
each the number of tasks that are alike cancels out (`SeverityAlike`).

*The Spark analysis.* `PeakReported` says in terms of the log what the listener
computes from its own state, step by step. `StatusInv` relates the two: who is registered,
and the size of each block, are what the last event about it says (`LatestOf`), so that one more
event changes them only where it says so (`RegisteredNext`, `SizeNext`). `PeakInv` adds that
each peak is the maximum so far; the step that needs care is the end of a task
that updates no block, after which the listener does not compare, and nothing has changed.

`SparkJobReported` is about what the listener has forgotten. `StagesInv` says
that the lists name ended stages, each once and in one list, whose data are
still there, and that all data are there until more stages ended than are
retained: a list can only then be longer than the limit (`TrimmedIs`,
`NamesCounted`). So until then the last stage of a job has its name (`NamesKnown`),
and the heuristics throw only for a setting (`DescribedFailed`,
`WhyItThrowsOnSpark`). `SparkInv` is the invariant that joins this with where
the analysis is.

*Both analyses.* `TypesInv` joins the types of the two analyses, which share no
variable but the row, with what `loadInfo` stores: the job type is the name of a
configured one (`JobTypeFound`), and the ids are those of a scheduler that has
all four, or of none (`SchedulerFound`).

Three of these theorems have a hypothesis on the configuration: `ExceptionAt`, that the
heuristic on exceptions is configured once, as in `HeuristicConf.xml`;
`LimitsAboveZero`, that the upper limits on numbers and run times of tasks are not 0;
and `SparkConfigured`, that the heuristic on the size of the log is configured, as in
`HeuristicConf.xml`, and that `JobRuntimeHeuristic` calls a job without failures neither
SEVERE nor CRITICAL, as its own limits have it. Without the first a log that was not read
would be reported as fine; without the second a job without failures could lose
its name too. TLC evaluates all three for the instance of the `analysis` run
(`ConfigurationAssumption`).

*The registry.* `RegistryInv` says where the daemon is and what it has made.
Registries are numbered in the order they were begun in, so that one finished after
the daemon's made its own but begun before it stays out of `LimitsOfCluster`.
`NamesInv` says why no list stays incomplete: who finds no table has put
nothing yet, so whoever allocates one over that of another thread has all names
still to put, and the names that are there with those that one thread has
still to put are always all of them. `CalmInv` says that a registry with all
names that nobody writes to stays so, and that what an iterator over it has
given and has still to give are all entries.

Assumptions used: `PipelineAssumption`, `SessionAssumption`,
`DashboardAssumption`, `FormAssumption`, `SearchAssumption`,
`HistoryAssumption`, `SiteAssumption`, `RegistryAssumption`,
`AnalysisAssumption` (with `HeuristicsAssumption`) and `JobAssumption`. TLC evaluates each of them
in the runs.

Only model-checked: liveness (`EventuallySettled`, `KillStops`,
`FetchesSettle`), since fairness and ENABLED are beyond the prover. Every other property
of a passing run is a theorem. `JobAssumption` states of the configuration
that job types and schedulers come in lists and that no scheduler is called
"none", the word the model uses where the code has no scheduler.

## 5. What the models take for granted

- The host's clock never steps back, and the resource manager reads the same
  one. With a step back windows would overlap, and the code has no defence.
- The resource manager lists an application within `ListLag < FetchDelay` and
  keeps it while the model runs; its records are well formed (one that is not makes
  `readApps` throw at every attempt).
- A remote call may fail but does not hang.
- A save is atomic, even if its outcome is not known to the caller.
- `_service` is not volatile, but `submit()` publishes it before there is an
  executor; `kill()` reading an old null is then `kill()` before `CreatePool`,
  which the model has. Static fields of the dashboard and the fields of the registry are read as
  last written. Of the races inside a `HashMap`, only that over its table is modelled.
- Servers share the secret of the tokens, so that a token is accepted by all of
  them or by none. In `ManagerSession` requests take no time (the clock ticks only
  while threads wait), and a fetch of a job fails only for its token; a job of
  the model stands for the many that pass through an executor.
- Finish times of the rows of one flow differ (`HistoryPages`); rows are never
  changed or deleted. The reader has one browser window, and the search form does
  not depend on the table.
- The history server's data of a finished job does not change; its counters and times
  are not negative.
- Spark's own listeners behave as in version 1.4. Stages of different jobs are
  disjoint and not attempted again, the list of retained jobs does not overflow, and
  the environment is known once a log can be opened.
- The theorems on pages assume that the rows of the table fit an `int`.

## 6. Where the code and its comments differ

- `retry_comment`: `AnalyticJob` says of `_RETRY_LIMIT` that it is the number
  of times a job needs to be tried before it is dropped. `retry()` compares the
  count before it increments it, so a job is tried once more than that.
- `history_times`: `updateExecTimezone` writes the time of record *i* of a
  second request into row *i* of the page. A row inserted between the two
  requests shifts the times to other executions. Without an insertion they are
  right (`TimesMatchWhenQuiet`).
- `history_job_numbers`: the tooltip numbers jobs in the order of the data,
  "such that the job numbers in the tooltip match the corresponding job in the
  table"; the table takes its columns from a `HashMap`.
- `history_stage_numbers`: `restJobGraphData` reverses the list of stages, as
  `jobHistory` does, and then loops over the one that is not reversed.

Noticed while modelling, without a statement of the repository that a run could
hold against it; the models have the behaviour of the code:

- With the mouse right of the last execution `mouseMove` throws a TypeError
  and the tooltip stays as it was; `NearestShown` is about the positions before.
- After a second click on one page of the search the hidden timestamp is still
  there while its date is gone; `RequestMatchesForm` excludes that click.
- `restCompare` (`Application.java:845`) puts a new map over that of the first
  flow, so that only the second is returned; `RestAnswer` models it.
- `compareFlows` orders the jobs with care and then puts them into a `HashMap`.
  Job definitions that differ only in case are merged by its trees, and jobs of
  them are lost; a flow compared with itself gives one entry per job.
- After a quiet period each executor fails once with an old token. With more
  executors than retries, or with a failover in between, a job is dropped for it.
  When a history server has forgotten its tokens, an executor is refused until
  its token is half an hour old.
- A Spark log in the legacy format is a directory, whose length is 0, so that it
  is never throttled, against the comment on `shouldThrottle`; and
  `outputBytes` of the executors is never filled.
- If the last stage of a failed Spark job has been trimmed from the listener,
  `JobRuntimeHeuristic` throws a NullPointerException at every try, and the
  application is dropped. With a failure rate whose limits begin at 0.0, as in the
  defaults, an application without failures is rated LOW at least.
- The Spark fetcher keeps the name node it found for good, and a name node that
  is down makes it throw before the active one is asked.
- `Utils.getParam` (`Utils.java:148`) sets its array to null when a limit cannot be
  evaluated. If none after it can be either, the list is ignored, which the model has;
  if one can, a NullPointerException leaves the heuristic's constructor and the
  daemon does not start (`ConfigureFails`), so that `HeuristicsAssumption` excludes
  such a list.
- A search for a job or flow of blanks only disables all other inputs and finds
  everything, between dates filled in before if there are any, although these are
  disabled too.
- A registry that a request began before the block size was read may become
  `INSTANCE`, with limits of the default size for one or both data skew heuristics.

## 7. What is not modelled

Rendering, plots, build files and SQL migrations have no behaviour a model
would show. The REST lookups of one job or one flow execution are single
queries. `JobQueueLimitHeuristic` cannot be configured: its constructor is
protected, and `ElephantContext` looks for a public one. The lines of detail
of a heuristic result are formatting, and truncation to the widths of columns
shortens what no property reads. Parsing of the JSON and XML that other
systems or the operator write is abstracted to the values it yields, as is the
way ids are cut out of the links of schedulers.

The third-party scripts under `public/assets` (d3, Bootstrap, its date picker,
jQuery) are not this program's; of them only d3's bisector, which decides what
a tooltip shows, is modelled. They are most of the lines of JavaScript in the
repository, so that the models cover a small share of those; of this program's
own scripts, the handlers that decide anything are modelled and the drawing is not.

Left out although it has behaviour: the resolution of the name node, and the
Kerberos login that main thread and Spark fetches check and renew without a
lock. Both hang on what a library does (`DistributedFileSystem`,
`UserGroupInformation`), which the code in this repository does not show.

## 8. Plan

Done first was what loses or repeats work (the daemon with its ledger), then
what the readers of the table see (dashboard, search, histories), then the
analysis that fills a row and the registry both use; then the sessions behind the
daemon's requests, the form before a search, graphs and comparisons, the Spark
analysis and the way both types of analysis end. What is left, in this order:

1. That `JobAnalysis` implements a one-step abstract analysis, which would tie it
   to the daemon's `AnalyseAndSave` and `AnalysisFails` by refinement.
2. The Kerberos login and the name node, with the library modelled from how
   the code uses it.
