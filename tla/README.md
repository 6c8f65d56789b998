# OpenSynapse: verification of the control plane

OpenSynapse runs load tests: a control plane (Go) compiles a test plan to a k6
script, starts k6 as a local process or as a k6-operator TestRun in Kubernetes,
steers it while it runs, collects what it measures, and keeps the results. This
directory holds TLA+ models of the parts of it that are concurrent, have to
survive failure, or translate what a user said into something else: the life of
a run with its live control, metrics and cluster backend; crawls; plans from
their sources to the script; accounts, documents and the WebSocket hub. TLC
checks them on small instances, and TLAPS proves the properties that matter
most for every instance.

Paths below are relative to `src/apps/control-plane/internal/` unless they
begin with `src/`.

## 1. The system

### Components

| Component | State | Operations | Status |
|---|---|---|---|
| Run handlers, run store (`handlers/runs.go`, `db/runs.go`) | rows of `runs`, `run_events`, the summary | Start, Stop, Kill, Delete, Control, finishRun, MarkInterrupted | RunLifecycle; notes, baselines, listings left out |
| Engine (`engine/engine.go`) | the active runs; per run a `runProcess`: started, paused, VU counts, planned end, stop and kill marks | StartRun, loop, complete, SetVUs, ResumeSchedule, SetPaused, SetDuration, StopRun, KillRun, Shutdown | RunLifecycle, LiveControl |
| Schedule (`engine/schedule.go`) | none | TargetAt, Duration, PeakVUs, MaxDurationFor | LoadSchedule |
| Aggregator, ingest (`engine/aggregator.go`, `ingest.go`) | buckets, totals, watermarks, last emitted second | merge, snapshots, watermark, summary, instanceDone | MetricsPipeline; breakdowns per endpoint and the JSON stream of local runs left out |
| k6 output (`src/apps/k6-output/output.go`) | buffered samples, the pending batch | fold, flush, send, Stop | MetricsPipeline |
| Local backend (`engine/local.go`) | the k6 process | start, wait, interrupt, kill, cleanup | the environment of RunLifecycle and LiveControl |
| Kubernetes backend (`engine/kubernetes.go`, `kube/client.go`) | the run's objects, its pods, the log streams and where each stands | startKubernetes, watch, track, follow, waitStreams, combineExitCodes, interrupt, kill, cleanup | KubeBackend; the sweep of orphans is in RunLifecycle |
| Retention (`handlers/settings.go`, `db/settings.go`) | policy | RunsToPrune, ApplyRetention | RunLifecycle |
| Artifacts (`artifacts/`) | stored files | Create, Close, DeletePrefix | a run's archive, in RunLifecycle |
| Server start and shutdown (`src/apps/control-plane/cmd/server/main.go`) | the process | MarkInterrupted, orphan sweep, shutdown | RunLifecycle |
| Crawls (`handlers/crawls.go`) | the row of a crawl, `activeCrawls` | Start, runCrawl, processOpenAPI, Cancel, GeneratePlan, progress reports | Crawls |
| Crawler (`crawler/`) | the graph found so far, what waits to be visited | the Rod, Colly and ZAP walks; plans of OpenAPI documents | Crawler; HTML extraction and request capture left out |
| Script compiler (`compiler/`) | none | Compile, every node type, profiles, the managed mode | PlanParts, Compiler; thresholds, headers and bodies left out |
| Importer (`importer/jmx.go`) | none | Parse, convertChildren and the elements | PlanParts, PlanSources |
| Accounts (`auth/`, `handlers/auth.go`, `db/auth.go`, `db/users.go`) | users, sessions, API tokens | Setup, Login, Logout, ChangePassword, CreateUser, UpdateUser, DeleteUser, tokens | Accounts; the local token file left out |
| Plans, fragments, environments, collections (`db/plans.go` and others) | rows, the versions of plans, sealed secrets | Create, Update, Delete, List, the built-in documents | Workspace |
| WebSocket hub (`wsserver/wsserver.go`) | connections, their channels and queues | connect, auth, subscribe, Broadcast, close | WsHub; pings and encoding left out |
| Histogram, AI, reports and statistics, playground, database and migrations, router and configuration, front end, desktop shell | – | – | not modelled, see section 6 |

`PROJECT.json` lists all of them with their sources and the reason for what is
left out.

### How they interact

A `POST /runs` inserts a row (`queued`), has the plan compiled, asks the engine
to start k6, and then writes `running`. The engine leaves two goroutines behind:
the *loop*, which ticks once a second, drives the VU schedule, enforces the end
time, and emits metric points; and the *completion* goroutine, which waits for
the backend and then calls back into the handlers (`finishRun`), which write the
summary, the events and the final status. Users' calls reach the same
`runProcess` under its mutex, which is never held across a call to k6. Workers
of a cluster run post batches of samples to the control plane, which merges them
and emits the series behind a watermark; the cluster backend polls their pods
and follows their logs. What a run does is broadcast to the browsers that
subscribed to it. An hourly sweep deletes old runs. At start-up the control
plane marks the runs it finds in flight as failed and, in a cluster, deletes
orphaned TestRuns.

A crawl is a row and a goroutine of its own; its engine reports progress into
the row from a second goroutine, and a plan can be made of what it found. Plans
also come from OpenAPI documents, from JMeter files and from the editor, which
saves on every change. All documents are kept by the same kind of statements:
an Update reads a row and writes it in two steps.

### What is hard

* Every SQL statement is a transaction of its own: a reader, a crash or a
  different handler may come between the status, the events and the summary;
  between counting the administrators and removing one; between reading a
  document and writing it.
* The Start handler and the completion goroutine write the same row; so do
  Cancel, the crawl's goroutine and its progress reports.
* The engine decides under a lock and acts outside it (schedule, deadline,
  pause): what it decided on may have changed.
* A PATCH may reach some k6 instances and not others, or be applied and its
  answer lost; instances come up one after another.
* Batches arrive in any order, may be repeated, and a second's point is final
  once emitted.
* A log stream that is closed is reopened at a whole second: what has been read
  of that second has to be skipped, by counting lines of one timestamp.
* An object of the cluster may have been created although its creation was
  answered with an error; a pod's container may be gone before it was looked at.
* Colly fetches pages in goroutines of their own and checks its limit twice.
* A plan's tree becomes JavaScript: an `else` needs its `if`, names become keys
  and variables, a paused run holds VUs inside an iteration.
* A slow browser must neither hold up nor disorder what others get.
* Shutdown, crashes and retention run alongside all of it.

`PROJECT.json` lists these hazards one by one, at the lines where they bite.

### What makes each component correct

* Run life: a status never goes back; a finished run has its summary, events
  and reason; a run in flight has an owner; no k6 lives that nobody can reach;
  retention deletes finished runs only, and their files with them.
* Live control: k6 runs what the plan or the user asked for; the run's time is
  the time it was not paused; it ends on time, and not before; a stop ends it.
* Metrics: no sample counted twice; none lost; a point is complete; series and
  summary agree; a silent worker does not hold the series back for ever.
* Cluster backend: logs are read once and in order, to their end; the verdict
  is the worst worker's; nothing is left in the cluster; it comes to an end.
* Crawls: the walk finds what is in reach and nothing else; a cancel is heard;
  a plan has all that was found; every crawl ends with a status that says how.
* Plans: a script loads and does what its plan says; an import sends what its
  file said; the load fits what k6 was started with.
* Accounts: there is always an administrator; a replaced password signs out.
* Documents: a plan agrees with its history; a secret survives being sent back
  redacted; a list has everything.
* Hub: frames in order, none twice, and only a client's own full queue drops any.

## 2. The modules

| Module | What it is |
|---|---|
| `RunStatus` | abstract specification: the promises of the status column |
| `RunLifecycle` | the handlers, the completion goroutine, retention, shutdown, crash and start-up, one action per statement; implements `RunStatus` |
| `RunLifecycleProofs` | fourteen theorems about it |
| `LoadSchedule` | the VU profile as pure operators |
| `LiveControl` | loop, control calls, k6 instances, one action per section between two calls to k6; uses `LoadSchedule` |
| `MCLiveControl` | its load plans for TLC |
| `LiveControlProofs` | six theorems about it |
| `MetricsPipeline` | workers, ingest, aggregator, the end of the run |
| `MCMetrics` | its symmetry for TLC |
| `MetricsPipelineProofs` | five theorems about it |
| `LineStream` | abstract specification: a log that is read line by line |
| `KubeBackend` | the cluster backend of a run: creation, watch, log followers, clean-up, and the cluster; implements `LineStream` |
| `MCKubeBackend` | logs and exit codes for TLC |
| `KubeBackendProofs` | four theorems about it |
| `SiteWalk` | abstract specification: a walk of a site along its links |
| `Crawler` | the three engines' walks; they implement `SiteWalk` |
| `Crawls` | a crawl's row, goroutine, Cancel and GeneratePlan, around `Crawler` |
| `CrawlsProofs` | five theorems about `Crawls`, `Crawler` and `SiteWalk` |
| `MCCrawls` | sites for TLC |
| `PlanParts` | names, loads, chances, parameters and requests: what the compiler and the importers compute without walking a tree; uses `LoadSchedule` |
| `PlanPartsProofs` | seven theorems about it and `LoadSchedule` |
| `Compiler` | the compiler as a function from plan trees to scripts |
| `K6Script` | what k6 does with a script |
| `PlanMeaning` | what a plan means, from the documentation of its node types |
| `PlanSources` | plans of OpenAPI documents, JMeter files and captured requests |
| `Plans` | a plan from its source through the compiler to the iterations of a VU; composes the modules from `PlanParts` on |
| `MCPlans` | plans, documents and files for TLC |
| `Accounts` | users, sessions and tokens, one action per SQL statement |
| `Workspace` | documents, their versions and lists, one action per SQL statement |
| `WsHub` | the WebSocket server, one action per section of a lock |
| `ServicesProofs` | nine theorems about `Accounts`, `Workspace` and `WsHub` |
| `MCServices` | one TLC model of `MCPlans`, `Accounts`, `Workspace` and `WsHub` |

Definitions whose names end in a suffix after an underscore and whose comment
begins with "Mutant" are faults put in on purpose: the run named with them in
`PROJECT.json` must find its property violated when one replaces the definition
it is a variant of. No next-state relation uses them.

### RunLifecycle

One variable per piece of state: `row`, `events`, `summary` are the database,
`archive` the raw sample archive in the artifact store, `k6` the process or
TestRun. Only these survive `LoseMemory` (a crash, or the end of `main`). The
engine is `active`, `killed`, `stopRequested`, and for each run the point its
completion goroutine has reached (`comp`); each request in progress has its own
program counter (`start`, `stopCall`, `killCall`, `deleteCall`). `killAck`
records kills that were answered 200.

A statement about a row that has been deleted changes nothing: `SetStatus`,
`AddEvent` and `SetSummary` say so once. `Announce` and `AnnounceNil` are the
two outcomes of the last lines of Start: reading back a row that is gone gives
the notifier a nil run.

The directory store shows an archive from its creation on (`OpenArchive`); with
object storage it exists once its writer is closed.

### LiveControl

`rp` is the `runProcess`, `at[t]` the place of the loop or of a user's call,
`call[t]` the PATCH it is sending: `Send` reads the backend's addresses and
leaves them in `todo`, each `Deliver` reaches one instance, and the thread goes
on when all have answered. `Apply`, `Raised`, `Sent` and `NotSent` are
`applyVUs`; `TakeTick` is a tick with `driveSchedule`; `EnforceDeadline` is the
end of a tick and of `SetDuration`; `RequestStop`, `StopSent` and `GraceOver`
are `requestStop` with its grace period. `beat` is the time the ticker wrote
into the tick, which may be older than `now` when it is handled.

k6's own rules come from how the engine uses its REST API: a VU count up to the
maximum is accepted, and a maximum the active VUs fit in.

`ran` and `drove` are history variables: the seconds the run really ran, and
whether the loop has acted on the present state.

### MetricsPipeline

A worker takes at most one sample a second, and `<<w, s>>` names it. Counts of
these stand for the sums, minima and histograms that the code adds up in the
same statements. `buffer` is what k6 has handed to the output, `pending` the
batch that has not been taken yet, `post` the POST that `Output.mu` is held
for; `Flush`, `Stop`, `SendFinal`, `Answered` and `Unanswered` are the output's
`flush`, `Stop` and `sendLocked`. The aggregator is `latest` (watermarks),
`first`, `bucket`, `total` and `lastEmitted`. `Tick` is the loop's
`emitUpTo`; `Drain`, `Summarise` and `Unregister` are the end of the run.

### KubeBackend

The cluster is `objects`, `stage`, and per worker `state`, `written` and `code`;
the backend is `watch` with what its goroutine knows, and per worker a `follow`
record with the fields of the code's loop. `CreateObject`, `Undo`, and the steps
of `watch` (`poll`, `look`, `wait`, `done`) are one call to the API server each.
Timestamps are in half seconds and `sinceTime` in whole ones, so that a resumed
stream begins with lines that were read. A line that is not the next one makes
`read` `Astray`, which `LineStream` does not allow. `hurt` is a history
variable: why a worker may lack lines.

`watch`'s branch for a cancelled context cannot be reached, since the only
cancellation is `cleanup`'s, which comes after it.

### SiteWalk, Crawler, Crawls

`cfg` is a crawl: its engine, a site given by its links, the pages that are
dead, slow or filtered out, and the depth and limit asked for. Rod's walk is a
queue, Colly's one program counter per page (`OnRequest`, `OnResponse`,
`ReadLink`, `FollowLink`), ZAP's a poll loop around a spider with a window of
messages. `nodes` is the graph under the engine's mutex; a progress report holds
that mutex while the row is written, so `tick` is the report between the two and
`Busy` says that one is under way. `Crawls` adds the row, the goroutine of
`runCrawl`, the `activeCrawls` entry, Cancel in its two steps, and GeneratePlan,
which reads and then creates. A page stands for its URL and all that was
captured on it.

### PlanParts, Compiler, K6Script, PlanMeaning, PlanSources, Plans

A script is the tree of its statements; expressions are labels that `K6Script`
gives a truth for, and names are sequences of the characters that the compiler's
key and variable functions treat differently, so that two names can become one.
`K6Script` says what a script does in one iteration, given what is random or the
target's doing (`env`); `PlanMeaning` says the same of the plan's tree, from
`src/docs/03-feature-spec.md` and without the compiler. `Plans` makes the plan
(drawn, OpenAPI, JMeter, captured), compiles it, and runs one VU's iterations,
which a pause may hold; its properties compare the two. `WhileTurns` bounds a
while loop.

`PlanParts` has what needs no recursion over trees: the keys of scenarios, the
bounds a random controller compares with, the profile and the limits of a load,
the parameters of an operation, the samplers of a crawl. It is proved about; the
others declare `RECURSIVE` operators, so nothing can be proved in them.

### Accounts

One record per request under way (`call`), which the middleware has resolved to
a user when it arrives. Each step is one SQL statement; `given` are the ids and
tokens that have been used. A session remembers the password that opened it
(history). `Alone` is a set of sets of operations: two requests with operations
of one of them do not overlap. It is the modeller's assumption, not the code's;
what happens without it is in section 3.

### Workspace

A document is a row with one content; an environment's is that of its one
secret, stored sealed and shown as `Redacted`. `edit` is a request between its
statements, `walk` a client that reads a list page by page with the documents it
is owed (`due`, history). Time is in seconds and at most one change falls into
each, as `updated_at` is what pages are cut by.

### WsHub

`client` is a connection with the client's state, its queue, and what the
browser has got; `pub` a publisher with the Broadcast under way, which holds the
table's read lock and offers its frame to one client after the other under that
client's own lock. `due` (history) are the frames a client was subscribed to for
the whole of the Broadcast.

### MCServices

Plans, accounts, documents and the hub share no variable and no lock. One of
them moves in each behaviour (`part`), so that one run covers the four without
the product of their states.

### The environment constants

They select the part of the environment a run looks at; none changes what the
code does.

* `Ops` (RunLifecycle): which of stop, kill, delete, crash, shutdown and fault
  (an object store or a cluster API that fails) happen.
* `HandlerFirst`: k6 does not exit before the Start handler's last statements.
  The code relies on it and does not enforce it. Run `lifecycle_stuck` drops it.
* `Calls`, `Faults`, `Overlap` (LiveControl): which control calls are made,
  whether PATCHes and answers get lost, and whether calls, ticks and seconds
  interleave, or happen one at a time. `Cluster` and `RestPause` are the
  backend and the way of pausing (control scenario, or k6's REST API).
* `Faults`, `Late` (MetricsPipeline): what fails, and which workers come late.
* `Faults`, `MaxFaults` (KubeBackend): what fails, and how often.
* `Jobs`, `MaxCancels`, `MaxPlans`, `MayCrash`, `Earlier` (Crawls): the crawls
  asked for, and what users and the process do.
* `Jobs`, `MayHold` (Plans): the plans, and whether runs are paused.
* `Alone` (Accounts), `Editors` (Workspace): which requests overlap.
* `BuiltIns`, `ListKinds` (Workspace): what was seeded, what is listed.

## 3. The runs

| Run | Question | Result |
|---|---|---|
| `lifecycle_local` | One local run with object storage, every handler, fault, crash and a restart: does a reader of the database ever see an unexplained end, an ownerless run, a run that was killed and completed, or retention taking a run in flight? | no |
| `lifecycle_shutdown` | Two cluster runs, shutdown or crash, restart, `keep_last_n` of one: does an orderly shutdown record every outcome, can every live k6 be reached, does retention keep the newest and leave no files? | yes |
| `lifecycle_cluster` | One cluster run with every fault: does the status column implement `RunStatus`, liveness included, and does the engine let go of every process? | yes |
| `live_quiet` | A local run, every control call, one at a time: do engine and k6 agree on VUs, maximum and pause, and does the deadline never come early? | yes |
| `live_overlap` | Two instances in a cluster, every interleaving: is the plan followed, does the run end on time? | yes |
| `live_stop` | PATCHes get lost, k6 hangs, every interleaving: is elapsed time exact, does the deadline stop the run and a stop end it? | yes |
| `metrics_exact` | Two workers, POSTs fail, workers die: is every sample counted once, every point complete, the series equal to the totals from its first point on, and nothing of a worker that ended missing? | yes |
| `metrics_stall` | A worker that comes late, workers that hang, a kill: does the series catch up? | yes |
| `kube_follow` | Two workers, calls that fail, streams that are cut or torn, a kill, workers that never start: are logs read once and in order and to their end, is the verdict the worst, is the cluster left clean, does the backend end? | yes |
| `crawl` | Thirteen crawls by the three engines and an import, dead and slow pages, cancels, a crash, reports at any moment: does the walk implement `SiteWalk` and find the site, is a cancel heard, are plans whole, do crawls end? | yes |
| `services` | Plans of every node type, documents, files and captures: does the script do what the plan says, and the import what the file says, within the limits k6 gets? Two account requests at once: an administrator left, a replaced password signed out? Saves and lists: history, secrets and lists whole? Two browsers and two publishers: frames in order? | yes |
| `lifecycle_stuck` | k6 ends before its Start handler does: does the run end? | **no** |

Some properties are conjunctions of claims that a reader may look up by name:

| Property | Claims |
|---|---|
| `EndsAreRecorded` | `FailedIsExplained`, `KillIsRecorded` |
| `NoOrphans` | `LiveIsReachable`, `InterruptedIsDead` |
| `RetentionIsRight` | `PrunedLeavesNoFiles`, `RetentionKeepsNewest`, `RetentionSparesInFlight` |
| `K6Agrees` | `ManualSticks`, `PauseAgrees`, `MaxAgrees` |
| `RunsAreStopped` | `StopEnds`, `DeadlineStops` |
| `SeriesIsRight` | `PointsComplete`, `PointsMatchSummary`, `NothingLost` |
| `EndIsClean` | `DoneIsDone`, `VerdictIsWorst`, `NothingLeft` |
| `CrawlIsWhole` | `WalkIsWhole`, `PlanIsWhole` |
| `ScriptIsThePlan` | `ScriptParses`, `RunsThePlan` |
| `ImportsKeep` | `OneSamplerEach`, `ImportSendsTheSame` |
| `LoadIsRight` | `OnTheRamp`, `LoadFits` |

Deadlock is not checked because every model may stop: a run is over when all
its runs are finished and nobody sends a request or a signal, when every k6 has
ended, when a crawl or a plan's iterations are over, when ids or seconds are
used up, or at the last second of the clock.

### Bounds, and why they are enough

* `NRuns`: one run for the properties of a single run. Its threads do not look
  at other runs, except retention, which compares them, and shutdown, which
  lists them: `lifecycle_shutdown` has two. `KeepN` is then one.
* `MaxBoots`: one restart. `MarkInterrupted` handles what a first process left
  behind, and a second boot begins with rows of the same kinds.
* `Instances`: one local, two in a cluster (a PATCH that reached one and not
  the other). `Users`: one call beside the loop, or beside the goroutines of
  earlier calls.
* `MaxClock` (LiveControl): 3 to 6 seconds, past the planned end of every plan
  used (2 or 4 seconds), so ramps go up and down and runs are extended and
  paused across their end. `MinBuffer` and `MaxBuffer` stand for the 5 minutes
  and 24 hours of `MaxDurationFor`.
* `MaxClock`, `MaxSample` (MetricsPipeline): seconds 2 to 4 or 5, with samples
  in every second or only in the first; a batch can fail, be sent with the next
  and be late for a point.
* `MaxLag` stands for the 30 seconds of `maxIngestLag`: 3 where a worker's lag
  matters, and 9, more than the clock reaches, where it must not. Nothing is
  claimed there about a batch that is later than the lag.
* KubeBackend: two workers, one of which writes three lines within one second,
  the last two with one timestamp, and one that writes none; one failed attempt
  gives a stream up (30 in the code) and two faults happen, so that a stream is
  cut and resumed while lines of the second it is resumed at are still written.
* Crawls: four pages, whose links include a cycle, a page on two paths of
  different length and a page linked twice; limits that bind and limits that do
  not; two cancels and two plans; a ZAP window of two messages.
* Plans: every two of thirteen pieces, which together have every node type and
  each of its options, one outside the scenario and one in it; profiles of up to
  two stages, which reach every case of `TargetAt`, with lengths for which
  rounding goes both ways and a half occurs; two iterations, the first and one
  that is not. `WhileTurns` is two.
* Accounts: two users, emails, passwords and tokens, and two requests at once.
  Workspace: four documents, pages of one document, three changes, one save at a
  time beside a list. WsHub: two clients, two publishers, two frames, a queue of
  one, so that a frame is dropped and the next is not.
* `Symmetry`: the workers that are not late, and the callers of `Accounts`, are
  interchangeable, in runs without liveness only.

### What the violation shows

* `lifecycle_stuck` (`handlers/runs.go:280`): Start writes `running` after the
  engine has started k6 and its completion goroutine is on its way, with an
  unconditional UPDATE. When k6 fails at once, the goroutine's final status is
  written first and then overwritten: the run stays `running` until the next
  restart marks it failed.

### Further configurations

Each of these ends with a counterexample of a few steps. They show limits of
the code, or further consequences of the same causes, and are kept beside the
runs as documentation of them.

| Configuration (module) | Property | What it shows |
|---|---|---|
| `RunLifecycleDeleted.cfg` (RunLifecycle) | `DeleteNeedsStopped` | a run deleted between its Create and its registration: Delete only asks the engine, and k6 goes on without a row |
| `RunLifecycleOrphan.cfg` (RunLifecycle) | `InterruptedIsDead` | after a crash a local k6 may live on beside its row, which is marked failed |
| `RunLifecycleExit.cfg` (RunLifecycle) | `ShutdownKillsAll` | a run registered after Shutdown has listed the active ones is not killed |
| `RunLifecycleKilled.cfg` (RunLifecycle) | `KillIsRecorded` | a cluster kill answered 200 while the run's verdict has been taken already |
| `LiveControlManual.cfg` (MCLiveControl) | `ManualSticks` | `driveSchedule` reads the schedule under the lock and sends its PATCH after it (`engine/engine.go:498`): when a `SetVUs` completes in between, k6 ends at the plan's count, and nothing sends the user's again |
| `LiveControlLate.cfg` (MCLiveControl) | `ManualSticks` | an instance that comes up after a manual change never hears of it |
| `LiveControlLost.cfg` (MCLiveControl) | `SentIsActual` | a PATCH applied, its answer lost: the plan returns to the count believed to be sent, and nothing is sent |
| `LiveControlJump.cfg` (MCLiveControl) | `PlanFollowed` | a first stage of no length: the engine takes the target at time 0 as sent, the script starts at `start` |
| `LiveControlEarlyPause.cfg` (MCLiveControl) | `EndsOnTime` | a pause before the run has started is subtracted from its elapsed time |
| `LiveControlExtend.cfg` (MCLiveControl) | `NeverStopsEarly` | a run extended after the deadline was found passed is stopped all the same |
| `MetricsLate.cfg` (MCMetrics) | `PointsComplete` | the watermark does not know of a worker that has not reported |
| `MetricsFirst.cfg` (MCMetrics) | `SeriesMatchesSummary` | `snapshots` sets `lastEmitted` to the second before the first sample merged so far (`engine/aggregator.go:328`): the other worker's earlier second, posted a moment later, is dropped from the series, though the totals count it |
| `KubeTear.cfg` (MCKubeBackend) | `ReadToTheEnd` | a line the stream broke off in is taken for read, and skipped when it is resumed |
| `CrawlShort.cfg` (MCCrawls) | `StopsAtLimit` | links that Colly counted and did not visit use up the limit: a walk ends short of it with pages left |

Others need one changed value in a configuration there is. What they violate
is the reason for the value it has.

| Configuration | Change | Property violated | What it shows |
|---|---|---|---|
| `MetricsExact.cfg` | `Faults = {"answer"}` | `CountedOnce` | a batch whose answer was lost is sent and counted again |
| `MetricsExact.cfg` | `Faults = {"request", "final"}` | `NothingLost` | the last POST is tried once; what it carried, and what had failed before, is gone |
| `KubeTear.cfg` | `Faults = {"cut"}` | `ReadToTheEnd` | a stream closed by the API server once its container is known to have ended is not resumed |
| `CrawlAll.cfg` | `MaxCancels = 1` | `CancelSticks` | a crawl completes as it is cancelled: what Cancel wrote is overwritten |
| `CrawlAll.cfg` | – | `CrashIsNoticed` | a crawl that runs when the process dies stays `crawling` |
| `CrawlAll.cfg` | `Jobs <- ZapOnly` | `OwnPages` | ZAP keeps the messages of earlier crawls, and the first ones are taken |
| `CrawlAll.cfg` | `Jobs <- CollyRace` | `DepthIsFromEntry` | Colly measures a page's depth along whichever path came first |
| `Services.cfg` | `Alone = {}` | `AdminStays` | two requests count two administrators and remove one each |
| `Services.cfg` | `Alone = {}` | `PasswordSignsOut` | a sign-in that compared the old password opens its session after the others were ended |
| `Services.cfg` | `Editors = {1, 2}` | `HistoryAgrees` | two saves read one version: one is written into the plan and not into its history |
| `Services.cfg` | `Editors = {1, 2}` | `SecretStays` | a save that sends a secret back as shown undoes a new value saved meanwhile |
| `Services.cfg` | `BuiltIns = {"plan"}` | `ListIsWhole` | built-in plans are listed first, and the cursor, which is a time, skips newer plans |
| `Services.cfg` | `Jobs <- JMeterNested` | `ImportsKeep` | what stands under a JMeter controller is imported beside it |
| `Services.cfg` | `Jobs <- Colliding` | `ScriptIsThePlan` | two scenarios share a key: their names differ in what is replaced, or one is another with the number that one gets ("a-3", "a", "a") |
| `Services.cfg` | – | `OncePerVU` | a run paused in a VU's first iteration: its once-only controllers (`src/docs/03-feature-spec.md:68`) never run, as `__ITER` has moved on |

## 4. Fairness

* `RunLifecycle!FairSpec`: the Go scheduler runs every handler and goroutine
  that can run, k6 ends (every run has a duration), and the supervisor restarts
  the control plane. Nothing is assumed about users, signals and crashes, nor
  about the sweep starting.
* `LiveControl!FairSpec`: the goroutines run, each request to k6 is answered or
  given up (the engine's HTTP client has a 3-second timeout), the grace timer
  fires, and time passes. k6 need not exit and users need not call.
* `MetricsPipeline!FairSpec`: the loop ticks. Workers may hang and time may
  stop, which is what `NoStall` has to withstand.
* `KubeBackend!FairSpec`: the goroutines run and calls to the API server are
  answered, with an error or not; k6 ends, and Kubernetes collects what was
  deleted. Faults are bounded in number, not assumed to stop.
* `Crawls!FairSpec`: the goroutines run; requests are answered or time out, the
  browser answers for every page but the slow ones (Rod waits for those without
  a limit, and `CrawlEnds` leaves such crawls out), ZAP's spider ends. The
  engine's steps get strong fairness: a goroutine gets the mutex although
  progress reports take it again and again, which is what Go's mutexes promise
  a waiter that starves.

## 5. What is proved

For every value of the constants allowed by the modules' named assumptions, and
by the hypotheses named here. An invariant that is checked by a run is seldom
inductive; the strengthening is defined beside it in its module or at the head
of the proofs, was checked by TLC first, and is what the proof is about.

**Runs** (RunLifecycleProofs), for any number of runs and restarts:

* `TypeCorrect`: the type invariant.
* `FinishedRunsExplained`: a run seen completed or aborted has its summary and
  its stop event. `CompletionInv` adds what the goroutine has stored at each of
  its steps for as long as the row exists, and that an outcome has been decided
  before anything is stored.
* `FailuresExplained`: a run that failed before the first restart has its error
  event, or the handler that is about to write it. `FailedInv` adds that the
  goroutine stores the error before the status. No hypothesis.
* `EndsRecorded`, for local runs: with the former, a run that was killed is never
  recorded completed. `KillInv` follows a kill that found k6 alive: its mark is
  set before the goroutine can look at it. In a cluster it is false
  (`RunLifecycleKilled.cfg`).
* `OwnersKnown` and `InFlightOwned`, for `HandlerFirst = TRUE`: `OwnerInv` ties
  the Start handler's place, the goroutine's place, the row and the engine's map
  together, so that `active` is exactly the goroutines that are waiting or storing,
  and a row in flight always has one of the two writers ahead of it. It also
  follows a restart: every row in flight is still to be marked until none is.
* `StatusImplemented`, for `HandlerFirst = TRUE`: every step that touches the
  column is a step of `RunStatus` or a stutter. It needs `OwnerInv` to know which
  status a write finds.
* `LiveFound` and `NoneOrphaned`, for `HandlerFirst = TRUE`: a live k6 is in the
  engine's map or about to be (`LiveInv`), and the TestRun of a run that a restart
  marked failed is dead. Both need a cluster API that answers (no `fault`), or,
  for a local k6, a process that was not restarted: `RunLifecycleOrphan.cfg`.
* `ShutdownRecorded`, for `HandlerFirst = TRUE`: when Shutdown returns in time,
  the outcome and stop event of all it waited for are stored, and stay.
  `SettledInv`: a goroutine past its last statement leaves a final status.
* `RetentionSpares`, `RetentionKeeps` and `RetentionCorrect`, for
  `HandlerFirst = TRUE`: the sweep works from a list it made earlier; `PruneInv`
  says why that is harmless: what was finished and beyond the newest `KeepN` when
  it was listed still is. That the files go too is proved for the directory
  store without Delete requests (`FilesInv`).

**Live control** (LiveControlProofs), for any plan, users, instances and clock:

* `TypeCorrect`.
* `EngineAgrees`, for a local run whose calls and ticks come one at a time and
  whose PATCHes and answers arrive: VUs set by hand, pause and maximum are k6's.
  `AgreeInv` says what k6 knows at each step of a call. What fails without it is
  in section 3 (`LiveControlManual.cfg`, `LiveControlLate.cfg`).
* `ElapsedIsRunTime`: elapsed time is the time run, where the engine can measure
  pauses (`PausesMeasured`): nobody pauses; or a local run reads its pause from
  the engine; or it is paused through k6's API, one call at a time and without
  faults. `TimeInv` says so with the pause in progress. In a cluster an
  instance that comes up late is not paused (`LiveControlEarlyPause.cfg`).
* `DeadlineNotEarly`, under the same and unless the duration is changed while
  other calls are under way: `DueInv` adds that ticks are never newer than the
  clock, and that a thread that found the deadline passed still has it passed.
* `DeadlineKept`, under `PausesMeasured`: a run that has run as long as planned
  is being stopped once the loop has looked at it. `DeadlineInv` adds that the
  loop looks with the time it was woken at.
* `PlanIsFollowed`, under `PausesMeasured` and `OnlyThePlan` (no PATCH is lost,
  nobody sets VUs by hand, and the plan begins where k6 starts): every instance
  runs what the schedule calls for after the time really run. `VUsInv` keeps all
  instances where the engine believes them to be, or on their way there, and
  `FollowInv` that the last thing sent is what the plan asks for now. A call that
  raises the maximum, a PATCH that has reached some instances, and an instance
  that has ended are its cases. `LiveControlJump.cfg` shows what the last part
  of `OnlyThePlan` is for.

**Plans** (PlanPartsProofs), for any plan:

* `TargetOnRamp` and `TargetInRange`, for every schedule and second: `TargetAt` is
  the integer nearest to the straight line of the stage the second falls into
  (`OnRamp`, which `Plans` checks of every plan), and, when no number of the
  plan is negative, lies between 0 and `PeakVUs`.
* `LoadWithinLimits`, for every load and all values of the Run dialog, negative
  ones too: the profile made of them is followed (`OnRamp`) and never calls for
  more than the `maxVUs` compiled beside it, k6's longest duration holds it, and
  VUs and duration asked for in the dialog are those of the run (`Suits`). It is
  how a plan comes to satisfy `LiveControl`'s `PlanAssumption` on the maximum.
* `BranchesByWeight`, for weights that are not negative: of the numbers that can
  be drawn, exactly as many lead to a branch as its weight.
* `KeysApart`: scenarios have keys of their own, provided no name reads as another
  one followed by a dash and a number. Without that they need not: the number is
  added to a key that is taken, and the result is compared with later keys only
  (`Colliding` in section 3). That different numbers are written differently is
  a hypothesis, since the prover knows nothing of `ToString`.
* `ParametersKept`: an operation keeps its own parameters in their places, and
  gets those of its path it does not have, each once, and no others.
* `OneSamplerPerRequest`: a plan made of a crawl has a sampler for each captured
  request, no two for one method and URL, and no others.

**Metrics** (MetricsPipelineProofs), for any finite set of workers:

* `TypeCorrect`.
* `SamplesCountedOnce`, when answers arrive: `OnceInv` says where the sample of
  each worker and second is: not taken, buffered, pending, or counted.
* `NothingIsLost`, when the last POST arrives: `HeldInv` and `KeptInv` say that a
  sample is held by its worker until it is counted, and that the summary is made
  after all who report have.
* `PointsAreComplete`, when besides every worker has reported before the first
  tick: `WaterInv` says that a worker's watermark is behind all it still holds,
  `SeriesInv` that a point within the lag was made when all were past it. It
  takes the smallest watermark to exist, and so `WorkersAssumption`: the workers
  are finitely many.
* `SeriesCorrect`, when moreover `MaxClock <= MaxLag`: no worker can be behind by
  more than the lag, and the series is the summary second by second. A sample that
  is later than the lag is left out of the series on purpose; that the other
  hypotheses are needed, the variants of `MetricsExact.cfg` and `MetricsLate.cfg`
  show.

**Cluster backend** (KubeBackendProofs), for any workers, logs and faults:

* `TypeCorrect`.
* `LogsReadInOrder`: `KubeBackend` implements `LineStream`. `LogInv` says where
  a follower stands (`Stands`): its last timestamp is that of the line read
  last, `atLast` counts the lines read with that stamp, and a reopened stream
  skips just those of them it still has before it. That timestamps do not
  decrease is assumed of the logs (`StampsAssumption`).
* `RunsEndClean`, when there is a worker: `EndInv` adds to `EndIsClean` that
  what `track` recorded of a container's end stays true, and that a verdict is
  taken when every worker has ended, from the codes they ended with.
* `NoOtherLoss`: a line a worker wrote is read, or the worker's connection failed
  too often, its stream was torn or closed early, or it was not waited for.
  `LossInv` adds that a follower that left its stream, or is about to ask whether
  its container has ended, has read it out (`ReadOut`), and when `watch` cancels.

**Crawls** (CrawlsProofs), for any pages, crawls, earlier sessions and bounds:

* `TypeCorrect`, `PlansAreWhole` and `CancelHeard`: `PlaceInv` and `RowInv` tie
  engine, goroutine, row, progress report and plan together; a report that is
  under way when the walk ends has all that was found, and the row is completed
  only with the graph in it. `Heard` is where a cancelled crawl can still go.
* `WalkIsBounded`: `Crawler` implements `SiteWalk` for Rod and Colly. `RodInv`
  bounds what was visited; `CollyInv` shows that the limit holds though the count
  is read before it is used: a request made costs a count, and `OnRequest` looks
  at the count again, so that of the requests let pass there are never more than
  the limit.
* `CrawlWhole`, for a finite site: a walk that ends by itself and was not cut
  short (`Fits`) has found exactly the pages in reach that answer.
  `QueueInv`: Rod's queue is in the order of depth and spans one level, so that
  the first way to a page is a shortest. `RodFinds` and `CollyFinds`: what a page
  found links to is found, being loaded or waiting; and Colly has counted no more
  links than it passed, which is why the count cannot end a walk of a site that
  fits, and no request is deeper than the pages asked for are many.

**Accounts, documents, hub** (ServicesProofs):

* `AdministratorStays`, when requests that change or delete users do not
  overlap: `AdminInv` adds that whoever is about to take an administrator's
  rights leaves another one, and that such a request needs a set-up.
* `AccountsTypeCorrect`: types, and that each session and token has its user.
* `PasswordsSignOut`, when requests that use or set a password do not overlap:
  `PasswordInv` adds that a sign-in that is about to open its session still has
  the password it was checked with. Other requests come in between.
* `ListsAreWhole`, for any number of editors, when no document of the listed
  kind is built in: `ListInv` says that no two changes have one time, and that
  a document owed has been seen or is older than the cursor.
* `PlansAgreeWithHistory` and `SecretsStay`, when saves come one at a time:
  `SaveInv` says that what a save under way has read of its document is still
  so. Deletions and lists come in between.
* `WorkspaceTypes`: types, of which the stored text of a secret is the part that
  could fail: what a request carries from its first statement to its last is
  text that can be stored, never the marks a secret is shown as.
* `HubTypes`, for finitely many publishers (`WsAssumption`): types, for which it
  has to be shown that no frame is numbered beyond `MaxFrames`; `Begun` counts
  the frames each publisher has begun.
* `FramesArriveInOrder`: `HubInv` adds that a publisher that has still to look
  at a client has offered it nothing newer (`Unoffered`), and that a client that was
  subscribed when a Broadcast began, and is so still, has the frame, or it was
  dropped, or will be offered (`Underway`).

What the statements assume of the environment is needed: without it
`lifecycle_stuck` (`HandlerFirst`), the configurations named above and the
variants of section 3 end in counterexamples.

Two arguments are worth knowing. The prover cannot use the library's induction
theorems, whose hypothesis is an operator; where a proof needs induction on a
number it takes the least number for which the claim fails, which
`NatLessThanWellFounded` and `WFMin` give (`LeastNumber`, `LeastNatural`; `UpTo`
for a claim about the numbers up to a bound). And a recursive function is known to
obey its definition only when a function that does exists: `RecursionExists`
builds it for the walks of sites, `StepByStep` for functions that go through a
sequence, of which `SumsOf`, `KeysOf`, `WithShared` and `SamplersOf` are made. The
modules that are proved about define recursion by such functions only.

## 6. What is only model-checked, and what is not modelled

Out of the prover's reach: liveness under fairness (`ActiveEnds`, `StatusSpec`'s
fairness, `RunsAreStopped`, `NoStall`, `BackendEnds`, `CrawlEnds`), and what
recursive definitions over trees compute: `ScriptIsThePlan`, `ImportsKeep` and
`LoadIsRight`, in modules that need `RECURSIVE`. Of each, what does not depend on
the tree is proved: the profile and its limits (`LoadWithinLimits`,
`TargetOnRamp`), scenario keys and random branches (`KeysApart`,
`BranchesByWeight`), parameters and captured requests (`ParametersKept`,
`OneSamplerPerRequest`). That the compiler and the importers use them at the right
places of the tree is checked.

Every other safety property of a run is a theorem, under hypotheses that the
run's configuration satisfies, but for the types of plans in `ServicesTypeOK`,
whose module needs `RECURSIVE`. Where a hypothesis fails, the configurations of
section 3 are all there is.

Left out of the modules there are:

* Runs: the RPS limit; notes, baselines and listings; the breakdown of metrics
  by endpoint, check and error; the size of a batch (16 MiB are taken); tags;
  the failure message; webhook delivery; the JSON stream of local runs. A crash
  inside `MarkInterrupted`, between its statements. With S3, that an archive
  appears only after the run's row is final.
* Cluster backend: the manifests, and pods that are evicted and replaced.
* Crawls: redirects, forms, HTML and the requests captured on a page. Edges are
  collected in the same places as nodes.
* Compiler: thresholds, headers, bodies, comments and formatting; what an
  expression evaluates to is a choice of the environment.
* Accounts: display names, the time a token was last used, the
  token file of a local installation. Setup's count of users is taken to
  succeed; the code ignores its error.
* Documents: two changes within one second, for which the order of a list is
  arbitrary.
* Hub: payloads and their encoding, pings and deadlines.

Not modelled at all: the histogram and the comparison statistics (floating-point
arithmetic), reports and exports (rendering), the AI assistant, the playground
and microtests (a request or a process per call, nothing shared but one map
under one lock), the database layer and its migrations (run before anything
else), routing, configuration and logging, the front end and the desktop shell.

## 7. Plan

What is left, in order:

1. The JSON stream of local runs (`engine/local.go`, `aggregator.ingest`) beside
   MetricsPipeline's ingest.
2. A crash inside `MarkInterrupted`, object storage under retention, and the
   loop's callbacks against the completion's, in RunLifecycle.
3. Theorems: `EndsAreRecorded` and
   `RetentionIsRight` under weaker hypotheses (a cluster without the race of
   `RunLifecycleKilled.cfg`; an age policy), `PlanFollowed` with VUs set by hand
   and given back to the plan.
4. The histogram's bucket bounds in fixed-point arithmetic.
