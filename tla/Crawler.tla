------------------------------ MODULE Crawler -------------------------------
(***************************************************************************)
(* The three crawl engines (crawler/rod.go, colly.go, zap.go) walking a    *)
(* site.  Rod visits one page after another from a queue; Colly fetches    *)
(* every page in a goroutine of its own; ZAP walks by itself and is        *)
(* polled.  Each reports its progress from time to time: Rod and Colly     *)
(* from a goroutine that holds the engine's mutex while it writes, ZAP     *)
(* from the poll loop.                                                     *)
(*                                                                         *)
(* A page stands for its URL, the requests captured on it and the edges    *)
(* leading to it, which the code collects beside the node.                 *)
(***************************************************************************)
EXTENDS Integers, Sequences, FiniteSets, SequencesExt

CONSTANTS
  Pages, Entry,
  Jobs,       \* the crawls that may be asked for: engine, site and limits
  Earlier,    \* pages in ZAP's session from earlier crawls, oldest first
  Window      \* 100 in the code: messages ZAP is asked for while it walks

\* cfg.links[p] are the links on page p in document order.  Pages in dead
\* answer with an error, those in slow never finish loading, and those in off
\* are of another origin or blocklisted.
ASSUME JobsAssumption ==
  \A j \in Jobs : /\ j.engine \in {"rod", "colly", "zap", "openapi"}
                  /\ j.links \in [Pages -> Seq(Pages)]
                  /\ j.dead \subseteq Pages /\ j.slow \subseteq Pages /\ j.off \subseteq Pages
                  /\ j.depth \in Nat \ {0} /\ j.limit \in Nat \ {0}
ASSUME EntryAssumption == Entry \in Pages /\ Earlier \in Seq(Pages) /\ Window \in Nat

VARIABLES
  cfg,      \* the crawl, one of Jobs
  ctx,      \* the crawl's context is cancelled
  walk,     \* idle, setup, walking, then what Crawl returned: ok, error, ctx
  nodes,    \* the graph's nodes: page -> links followed to it
  visited,  \* Rod's visited map
  queue,    \* Rod's queue
  loading,  \* the queue item Rod visits
  fetch,    \* Colly: the request of each page that was dispatched
  count,    \* Colly's visitCount
  zap,      \* ZAP's scan and the messages of its session
  poll,     \* where ZAP's poll loop is
  reporter, \* the progress goroutine runs
  tick      \* the nodes a progress report is writing, while it writes

walkVars == <<cfg, ctx, walk, nodes, visited, queue, loading, fetch, count, zap, poll, reporter, tick>>
rodVars == <<visited, queue, loading>>
collyVars == <<fetch, count>>
zapVars == <<zap, poll>>

None == [page |-> Entry, depth |-> -1]
NoTick == {<<>>}             \* no report is being written
NotAsked == [at |-> "none", depth |-> 0, pos |-> 0]
NoNodes == [p \in {} |-> 0]

Busy == tick /= NoTick       \* the mutex is held, or ZAP's loop is writing

\* ShouldVisit; the entry page itself is not put through it.
ShouldVisit(p, seen) == p \notin cfg.off /\ seen < cfg.limit

AddNode(p, d) == [q \in DOMAIN nodes \union {p} |-> IF q = p THEN d ELSE nodes[q]]

WalkInit ==
  /\ cfg \in Jobs
  /\ ctx = FALSE /\ walk = "idle" /\ nodes = NoNodes
  /\ visited = {} /\ queue = <<>> /\ loading = None
  /\ fetch = [p \in Pages |-> NotAsked] /\ count = 0
  /\ zap = [scan |-> "none", msgs |-> Earlier] /\ poll = "status"
  /\ reporter = FALSE /\ tick = NoTick

Sent(d) == [at |-> "sent", depth |-> d, pos |-> 0]

\* The browser starts, the login succeeds, ZAP answers; or Crawl returns the
\* error at once.  Colly's progress goroutine runs before the login.
Setup ==
  /\ walk = "setup"
  /\ \/ walk' = "error" /\ reporter' \in {FALSE, cfg.engine = "colly"} /\ UNCHANGED <<queue, fetch, zap>>
     \/ /\ walk' = "walking" /\ reporter' = (cfg.engine /= "zap")
        /\ queue' = IF cfg.engine = "rod" THEN <<[page |-> Entry, depth |-> 0]>> ELSE queue
        /\ fetch' = IF cfg.engine = "colly" THEN [fetch EXCEPT ![Entry] = Sent(0)] ELSE fetch
        /\ zap' = IF cfg.engine = "zap" THEN [zap EXCEPT !.scan = "running"] ELSE zap
  /\ UNCHANGED <<cfg, ctx, nodes, visited, loading, count, poll, tick>>

Walking(engine) == walk = "walking" /\ cfg.engine = engine

(***************************************************************************)
(* Rod                                                                     *)
(***************************************************************************)
RodStops ==
  /\ ctx \/ (queue = <<>> /\ ~Busy)
  /\ walk' = IF ctx THEN "ctx" ELSE "ok"
  /\ UNCHANGED rodVars

\* Mutant: the queue is taken from its end, as a stack.
RodTakes_Last ==
  /\ ~ctx /\ queue /= <<>> /\ ~Busy
  /\ LET item == Last(queue) IN
     /\ queue' = Front(queue)
     /\ visited' = visited \union {item.page}
     /\ \/ item.page \in visited /\ UNCHANGED <<walk, loading>>
        \/ item.page \notin visited /\ Cardinality(visited') > cfg.limit
           /\ walk' = "ok" /\ UNCHANGED loading
        \/ item.page \notin visited /\ Cardinality(visited') <= cfg.limit
           /\ loading' = item /\ UNCHANGED walk

RodTakes ==
  /\ ~ctx /\ queue /= <<>> /\ ~Busy
  /\ LET item == Head(queue) IN
     /\ queue' = Tail(queue)
     /\ visited' = visited \union {item.page}
     /\ \/ item.page \in visited /\ UNCHANGED <<walk, loading>>
        \/ item.page \notin visited /\ Cardinality(visited') > cfg.limit
           /\ walk' = "ok" /\ UNCHANGED loading
        \/ item.page \notin visited /\ Cardinality(visited') <= cfg.limit
           /\ loading' = item /\ UNCHANGED walk

RodNext ==
  /\ Walking("rod") /\ loading = None
  /\ RodStops \/ RodTakes
  /\ UNCHANGED <<cfg, ctx, nodes, collyVars, zapVars, reporter, tick>>

Follows(p) == p \notin visited /\ ShouldVisit(p, Cardinality(visited))

\* The queue with what a page links to, in document order, at a depth.
Queued(links, depth) ==
  LET q[i \in 0 .. Len(links)] ==
        IF i = 0 THEN queue
        ELSE IF Follows(links[i]) THEN Append(q[i - 1], [page |-> links[i], depth |-> depth])
        ELSE q[i - 1]
  IN q[Len(links)]

\* visitPage: an error skips the page; it has no deadline and does not look
\* at the context.
RodVisits ==
  /\ Walking("rod") /\ loading /= None /\ loading.page \notin cfg.slow
  /\ \/ loading.page \in cfg.dead /\ UNCHANGED <<nodes, queue>>
     \/ /\ loading.page \notin cfg.dead /\ ~Busy
        /\ nodes' = AddNode(loading.page, loading.depth)
        /\ queue' = IF loading.depth >= cfg.depth THEN queue
                    ELSE Queued(cfg.links[loading.page], loading.depth + 1)
  /\ loading' = None
  /\ UNCHANGED <<cfg, ctx, walk, visited, collyVars, zapVars, reporter, tick>>

(***************************************************************************)
(* Colly: one goroutine per request                                        *)
(***************************************************************************)
\* Mutant: the limit is left to the links' filter.
OnRequest_NoLimit(p) ==
  /\ Walking("colly") /\ fetch[p].at = "sent" /\ (ctx \/ ~Busy)
  /\ fetch' = [fetch EXCEPT ![p].at = IF ctx THEN "done" ELSE "fetching"]
  /\ UNCHANGED <<cfg, ctx, walk, nodes, rodVars, count, zapVars, reporter, tick>>

\* OnRequest: aborted once the context is cancelled or the count is reached.
OnRequest(p) ==
  /\ Walking("colly") /\ fetch[p].at = "sent" /\ (ctx \/ ~Busy)
  /\ fetch' = [fetch EXCEPT ![p].at = IF ctx \/ count >= cfg.limit THEN "done" ELSE "fetching"]
  /\ UNCHANGED <<cfg, ctx, walk, nodes, rodVars, count, zapVars, reporter, tick>>

\* The page comes, or an error or the 15 seconds' timeout.
OnResponse(p) ==
  /\ Walking("colly") /\ fetch[p].at = "fetching"
  /\ \/ /\ p \in cfg.dead \union cfg.slow
        /\ fetch' = [fetch EXCEPT ![p].at = "done"] /\ UNCHANGED nodes
     \/ /\ p \notin cfg.dead \union cfg.slow /\ ~Busy
        /\ fetch' = [fetch EXCEPT ![p].at = "reading", ![p].pos = 1]
        /\ nodes' = IF p \in DOMAIN nodes THEN nodes ELSE AddNode(p, fetch[p].depth)
  /\ UNCHANGED <<cfg, ctx, walk, rodVars, count, zapVars, reporter, tick>>

\* OnHTML, up to the filter's answer: the count is read under the mutex, and
\* used after it is released.
ReadLink(p) ==
  /\ Walking("colly") /\ fetch[p].at = "reading" /\ ~Busy
  /\ LET links == cfg.links[p]
         here == fetch[p]
     IN fetch' = [fetch EXCEPT ![p] =
       IF here.pos > Len(links) THEN [here EXCEPT !.at = "done"]
       ELSE IF ShouldVisit(links[here.pos], count) THEN [here EXCEPT !.at = "counting"]
       ELSE [here EXCEPT !.pos = here.pos + 1]]
  /\ UNCHANGED <<cfg, ctx, walk, nodes, rodVars, count, zapVars, reporter, tick>>

\* Mutant: the start page does not count as depth 1.
Dispatched_Depth(p, q) == fetch[q].at = "none" /\ fetch[p].depth <= cfg.depth

\* Colly refuses a page it was asked for before, and one beyond the depth.
Dispatched(p, q) == fetch[q].at = "none" /\ fetch[p].depth + 1 <= cfg.depth

\* OnHTML, after the filter: the link is counted, then visited, whether or not
\* Colly refuses it.
FollowLink(p) ==
  /\ Walking("colly") /\ fetch[p].at = "counting" /\ ~Busy
  /\ count' = count + 1
  /\ LET q == cfg.links[p][fetch[p].pos]
         read == [fetch EXCEPT ![p].at = "reading", ![p].pos = @ + 1]
     IN fetch' = IF Dispatched(p, q) THEN [read EXCEPT ![q] = Sent(fetch[p].depth + 1)] ELSE read
  /\ UNCHANGED <<cfg, ctx, walk, nodes, rodVars, zapVars, reporter, tick>>

CollyWaits ==
  /\ Walking("colly")
  /\ \A p \in Pages : fetch[p].at \in {"none", "done"}
  /\ \/ ctx /\ walk' = "ctx"
     \/ ~ctx /\ ~Busy /\ walk' = "ok"
  /\ UNCHANGED <<cfg, ctx, nodes, rodVars, collyVars, zapVars, reporter, tick>>

(***************************************************************************)
(* ZAP: its spider walks in ZAP, the engine polls it                       *)
(***************************************************************************)
Own == SubSeq(zap.msgs, Len(Earlier) + 1, Len(zap.msgs))

SpiderSteps ==
  /\ zap.scan = "running"
  /\ \E p \in Pages \ (ToSet(Own) \union cfg.off) :
       /\ p = Entry \/ \E q \in ToSet(Own) : p \in ToSet(cfg.links[q])
       /\ zap' = [zap EXCEPT !.msgs = Append(@, p)]
  /\ UNCHANGED <<cfg, ctx, walk, nodes, rodVars, collyVars, poll, reporter, tick>>

SpiderEnds ==
  /\ zap.scan = "running"
  /\ zap' = [zap EXCEPT !.scan = "done"]
  /\ UNCHANGED <<cfg, ctx, walk, nodes, rodVars, collyVars, poll, reporter, tick>>

\* messagesToGraphAndRequests of the session's first messages.
First(n) == ToSet(SubSeq(zap.msgs, 1, IF n < Len(zap.msgs) THEN n ELSE Len(zap.msgs)))
AsNodes(pages) == [p \in pages |-> 0]

ZapStatus ==
  /\ Walking("zap") /\ poll = "status" /\ ~Busy
  /\ \/ ctx /\ walk' = "ctx" /\ zap' = [zap EXCEPT !.scan = "stopped"] /\ UNCHANGED poll
     \/ ~ctx /\ walk' = "error" /\ UNCHANGED zapVars
     \/ ~ctx /\ poll' = (IF zap.scan = "done" THEN "report and end" ELSE "report") /\ UNCHANGED <<walk, zap>>
  /\ UNCHANGED <<cfg, ctx, nodes, rodVars, collyVars, reporter, tick>>

\* A failed read reports an empty graph.
ZapReports ==
  /\ Walking("zap") /\ poll \in {"report", "report and end"}
  /\ \/ tick' = First(Window)
     \/ tick' = {}
  /\ poll' = IF poll = "report" THEN "status" ELSE "messages"
  /\ UNCHANGED <<cfg, ctx, walk, nodes, rodVars, collyVars, zap, reporter>>

ZapMessages ==
  /\ Walking("zap") /\ poll = "messages" /\ ~Busy
  /\ \/ walk' = "error" /\ UNCHANGED nodes
     \/ walk' = "ok" /\ nodes' = AsNodes(First(cfg.limit))
  /\ UNCHANGED <<cfg, ctx, rodVars, collyVars, zapVars, reporter, tick>>

(***************************************************************************)
(* The progress goroutine of Rod and Colly                                 *)
(***************************************************************************)
\* It takes the mutex; it may still do so after Crawl has returned, when its
\* ticker and its done channel are ready together.
Report ==
  /\ reporter /\ ~Busy
  /\ tick' = DOMAIN nodes
  /\ UNCHANGED <<cfg, ctx, walk, nodes, rodVars, collyVars, zapVars, reporter>>

ReporterEnds ==
  /\ reporter /\ ~Busy /\ (ctx \/ walk \in {"ok", "error", "ctx"})
  /\ reporter' = FALSE
  /\ UNCHANGED <<cfg, ctx, walk, nodes, rodVars, collyVars, zapVars, tick>>

CollyStep(p) == OnRequest(p) \/ OnResponse(p) \/ ReadLink(p) \/ FollowLink(p)
ZapStep == ZapStatus \/ ZapReports \/ ZapMessages
EngineStep ==
  \/ Setup \/ RodNext \/ RodVisits \/ CollyWaits \/ ZapStep \/ ReporterEnds
  \/ \E p \in Pages : CollyStep(p)
WalkNext == EngineStep \/ SpiderSteps \/ SpiderEnds \/ Report
-----------------------------------------------------------------------------
\* The pages within d links of the entry page, through pages that answer.
Reads(p) == p \notin cfg.dead \union cfg.slow
Within[d \in Nat] ==
  IF d = 0 THEN {Entry}
  ELSE Within[d - 1] \union
       {p \in Pages \ cfg.off : \E q \in Within[d - 1] : Reads(q) /\ p \in ToSet(cfg.links[q])}

LinksOn(pages) == Cardinality(UNION {{p} \X DOMAIN cfg.links[p] : p \in pages})

\* The whole site fits: Rod counts pages, Colly every link it follows, and
\* Colly measures the depth along whichever path it happened to take.
Fits ==
  \/ cfg.engine = "rod" /\ Cardinality(Within[cfg.depth]) <= cfg.limit
  \/ cfg.engine = "colly" /\ LinksOn(Within[cfg.depth]) < cfg.limit /\ cfg.depth >= Cardinality(Pages)

\* A walk that ended by itself and that the limit did not cut short has found
\* exactly the pages within the depth that answer: nothing is lost between
\* the goroutines, and no page is skipped because it was met twice.
WalkIsWhole ==
  walk = "ok" /\ Fits => DOMAIN nodes = {p \in Within[cfg.depth] : Reads(p)}

\* Every engine's walk finds pages one at a time along links, within the
\* depth, past the filter and up to the limit, though Colly reads its count
\* and uses it after it released the mutex.
OwnWalk == cfg.engine \in {"rod", "colly"}
Walk == INSTANCE SiteWalk WITH found <- IF OwnWalk THEN nodes ELSE NoNodes
WalkSpec == Walk!Spec

\* A cut walk stops at the limit, not before: the graph has as many pages as
\* were asked for, or the whole site.
StopsAtLimit ==
  walk = "ok" /\ OwnWalk /\ cfg.depth >= Cardinality(Pages) =>
    \/ Cardinality(DOMAIN nodes) >= cfg.limit
    \/ DOMAIN nodes = {p \in Within[cfg.depth] : Reads(p)}

\* The depth is measured from the entry page: where the limit does not bind,
\* every page within the depth is found.
DepthIsFromEntry ==
  walk = "ok" /\ OwnWalk /\ LinksOn(Pages) < cfg.limit =>
    {p \in Within[cfg.depth] : Reads(p)} \subseteq DOMAIN nodes
=============================================================================
