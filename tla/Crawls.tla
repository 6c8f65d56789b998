------------------------------- MODULE Crawls -------------------------------
(***************************************************************************)
(* A crawl as the API shows it (handlers/crawls.go, db/crawls.go): its     *)
(* row, the goroutine that runs the engine, the handlers that start and    *)
(* cancel it and make a plan of what it found.  The row is written from    *)
(* the goroutine, from the engine's progress reports and from Cancel,      *)
(* each write a statement of its own.  An import of an OpenAPI document    *)
(* is a crawl too; it has no engine and cannot be stopped.                 *)
(***************************************************************************)
EXTENDS Crawler

CONSTANTS
  MaxCancels, MaxPlans,  \* bounds: requests to cancel, plans made
  MayCrash               \* the control plane may crash

ASSUME BoundsAssumption == MaxCancels \in Nat /\ MaxPlans \in Nat /\ MayCrash \in BOOLEAN

VARIABLES
  row,        \* the crawl's row: status, pages of its graph, parsed document
  plans,      \* the pages of each plan generated, in the order of creation
  registered, \* activeCrawls has the crawl's cancel function
  pc,         \* where the goroutine of the crawl is
  cancelling, \* a Cancel handler is about to write the row
  cancels,    \* requests to cancel so far
  planning,   \* the row a GeneratePlan handler has read
  up          \* the process runs

vars == <<walkVars, row, plans, registered, pc, cancelling, cancels, planning, up>>
handlers == <<plans, cancelling, cancels, planning>>

NoRow == [status |-> "none", pages |-> {}, spec |-> FALSE]

Init ==
  /\ WalkInit
  /\ row = NoRow /\ plans = <<>> /\ registered = FALSE /\ pc = "none"
  /\ cancelling = FALSE /\ cancels = 0 /\ planning = NoRow /\ up = TRUE

Status(s) == row' = [row EXCEPT !.status = s]

\* Start: the row is created, then the goroutine is started.
Start ==
  /\ pc = "none" /\ up
  /\ row' = [row EXCEPT !.status = "pending"]
  /\ pc' = IF cfg.engine = "openapi" THEN "mark" ELSE "register"
  /\ UNCHANGED <<walkVars, registered, handlers, up>>

Register ==
  /\ pc = "register" /\ registered' = TRUE /\ pc' = "mark"
  /\ UNCHANGED <<walkVars, row, handlers, up>>

Mark ==
  /\ pc = "mark" /\ Status("crawling")
  /\ \/ cfg.engine = "openapi" /\ pc' = "fetch" /\ UNCHANGED walk
     \/ cfg.engine /= "openapi" /\ pc' = "crawl" /\ walk' = "setup"
  /\ UNCHANGED <<cfg, ctx, nodes, rodVars, collyVars, zapVars, reporter, tick, registered, handlers, up>>

\* processOpenAPI: the document cannot be fetched or parsed, or its paths are
\* the pages.
FetchSpec ==
  /\ pc = "fetch"
  /\ \/ row' = [row EXCEPT !.status = "failed"] /\ pc' = "over" /\ UNCHANGED nodes
     \/ row' = [row EXCEPT !.spec = TRUE] /\ pc' = "graph" /\ nodes' = AsNodes(Pages)
  /\ UNCHANGED <<cfg, ctx, walk, rodVars, collyVars, zapVars, reporter, tick, registered, handlers, up>>

\* Mutant: a walk that ended by itself is completed, cancelled or not.
Returned_Result ==
  /\ pc = "crawl"
  /\ \/ walk = "ctx" /\ pc' = "cancelled"
     \/ walk = "error" /\ pc' = "failed"
     \/ walk = "ok" /\ pc' = "graph"
  /\ UNCHANGED <<walkVars, row, registered, handlers, up>>

\* Crawl has returned: the context is looked at before the result.
Returned ==
  /\ pc = "crawl" /\ walk \in {"ok", "error", "ctx"}
  /\ \/ ctx /\ pc' = "cancelled"
     \/ ~ctx /\ walk = "error" /\ pc' = "failed"
     \/ ~ctx /\ walk = "ok" /\ pc' = "graph"
  /\ UNCHANGED <<walkVars, row, registered, handlers, up>>

\* Mutant: an engine's error is returned without being written to the row.
Ended_Silent ==
  /\ pc \in {"cancelled", "failed", "completed"}
  /\ IF pc = "failed" THEN UNCHANGED row ELSE Status(pc)
  /\ pc' = IF cfg.engine = "openapi" THEN "over" ELSE "unregister"
  /\ UNCHANGED <<walkVars, registered, handlers, up>>

Ended ==
  /\ pc \in {"cancelled", "failed", "completed"}
  /\ Status(pc) /\ pc' = IF cfg.engine = "openapi" THEN "over" ELSE "unregister"
  /\ UNCHANGED <<walkVars, registered, handlers, up>>

\* The final graph, with the requests and the progress.
StoreGraph ==
  /\ pc = "graph"
  /\ row' = [row EXCEPT !.pages = DOMAIN nodes] /\ pc' = "completed"
  /\ UNCHANGED <<walkVars, registered, handlers, up>>

\* The deferred clean-up, which cancels the context.
Unregister ==
  /\ pc = "unregister" /\ registered' = FALSE /\ ctx' = TRUE /\ pc' = "over"
  /\ UNCHANGED <<cfg, walk, nodes, rodVars, collyVars, zapVars, reporter, tick, row, handlers, up>>

\* A progress report reaches the row.
WriteReport ==
  /\ Busy /\ up
  /\ row' = [row EXCEPT !.pages = tick] /\ tick' = NoTick
  /\ UNCHANGED <<cfg, ctx, walk, nodes, rodVars, collyVars, zapVars, reporter, pc, registered, handlers, up>>

\* Cancel: LoadAndDelete the cancel function and call it, then the row.
Cancel ==
  /\ up /\ row.status /= "none" /\ ~cancelling /\ cancels < MaxCancels
  /\ ctx' = (ctx \/ registered) /\ registered' = FALSE
  /\ cancelling' = TRUE /\ cancels' = cancels + 1
  /\ UNCHANGED <<cfg, walk, nodes, rodVars, collyVars, zapVars, reporter, tick, row, pc, plans, planning, up>>

CancelWrites ==
  /\ cancelling /\ Status("cancelled") /\ cancelling' = FALSE
  /\ UNCHANGED <<walkVars, plans, registered, pc, cancels, planning, up>>

\* GeneratePlan: the row is read and has to be completed, then the plan is
\* created from what was read.
ReadForPlan ==
  /\ up /\ planning = NoRow /\ Len(plans) < MaxPlans
  /\ row.status = "completed" /\ planning' = row
  /\ UNCHANGED <<walkVars, row, plans, registered, pc, cancelling, cancels, up>>

CreatePlan ==
  /\ planning /= NoRow
  /\ plans' = Append(plans, IF planning.spec THEN Pages ELSE planning.pages)
  /\ planning' = NoRow
  /\ UNCHANGED <<walkVars, row, registered, pc, cancelling, cancels, up>>

\* Everything in memory is gone; nothing takes the crawl up again.
Crash ==
  /\ MayCrash /\ up
  /\ up' = FALSE /\ pc' = "dead" /\ walk' = "idle" /\ reporter' = FALSE /\ tick' = NoTick
  /\ registered' = FALSE /\ cancelling' = FALSE /\ planning' = NoRow
  /\ UNCHANGED <<cfg, ctx, nodes, rodVars, collyVars, zapVars, row, plans, cancels>>

Walks(A) == up /\ A /\ UNCHANGED <<row, plans, registered, pc, cancelling, cancels, planning, up>>
Engine == Walks(WalkNext)
Goroutine == Start \/ Register \/ Mark \/ FetchSpec \/ Returned \/ Ended \/ StoreGraph \/ Unregister
Next ==
  \/ Engine \/ Goroutine \/ WriteReport
  \/ Cancel \/ CancelWrites \/ ReadForPlan \/ CreatePlan \/ Crash

Spec == Init /\ [][Next]_vars

\* The goroutines run, requests are answered or time out, the browser answers
\* for every page but those in slow, ZAP's spider comes to an end, and the
\* engine gets the mutex in spite of the reports.
FairSpec ==
  /\ Spec /\ WF_vars(Goroutine) /\ SF_vars(Walks(EngineStep)) /\ WF_vars(WriteReport)
  /\ WF_vars(CancelWrites) /\ WF_vars(CreatePlan)
  /\ WF_vars(Walks(SpiderEnds))
-----------------------------------------------------------------------------
Statuses == {"none", "pending", "crawling", "completed", "failed", "cancelled"}
Ends == {"completed", "failed", "cancelled"}

TypeOK ==
  /\ cfg \in Jobs /\ {ctx, registered, cancelling, reporter, up} \subseteq BOOLEAN
  /\ walk \in {"idle", "setup", "walking", "ok", "error", "ctx"}
  /\ DOMAIN nodes \subseteq Pages /\ \A p \in DOMAIN nodes : nodes[p] \in 0 .. cfg.depth
  /\ visited \subseteq Pages /\ count \in Nat
  /\ \A p \in Pages : fetch[p].pos \in 0 .. Len(cfg.links[p]) + 1
  /\ tick = NoTick \/ tick \subseteq Pages
  /\ row.status \in Statuses /\ row.pages \subseteq Pages /\ row.spec \in BOOLEAN
  /\ pc \in {"none", "register", "mark", "fetch", "crawl", "graph", "unregister", "over", "dead"} \union Ends
  /\ \A i \in DOMAIN plans : plans[i] \subseteq Pages

\* A crawl whose context is cancelled while its engine runs is never reported
\* completed or failed, however the engine's walk then ends and however late
\* a progress report or another cancel comes.
CancelIsHeard ==
  [](ctx /\ pc = "crawl" => [](row.status \notin {"completed", "failed"}))

\* Every plan made of a crawl has everything the crawl found: no progress
\* report of an earlier moment gets between the final graph and the plan.
PlanIsWhole == \A i \in DOMAIN plans : plans[i] = DOMAIN nodes

\* Nothing in reach is left out, of the graph or of the plans made of it.
CrawlIsWhole == WalkIsWhole /\ PlanIsWhole

\* A crawl that was started ends, and its row says how, unless the process
\* crashes; Rod waits for ever for a page that never loads.
CrawlEnds ==
  (pc \in {"register", "mark"} /\ ~(cfg.engine = "rod" /\ cfg.slow /= {}))
    ~> (~up \/ (pc = "over" /\ row.status \in Ends))

\* What Cancel answered holds: once it has written the row, and until a new
\* request, the crawl stays cancelled.
CancelSticks == [][row.status = "cancelled" => row'.status = "cancelled"]_row

\* Even if the process crashes, no crawl stays in "crawling" for ever.
CrashIsNoticed == pc = "crawl" ~> row.status \in Ends

\* ZAP's graph has only pages of the crawled site's own scan.
OwnPages == walk = "ok" /\ cfg.engine = "zap" => DOMAIN nodes \subseteq ToSet(Own)
=============================================================================
