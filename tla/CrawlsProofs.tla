---------------------------- MODULE CrawlsProofs ----------------------------
(***************************************************************************)
(* What Crawls and Crawler promise of every crawl, whatever the site, the  *)
(* limits and the interleaving of engine, progress reports and handlers:   *)
(* a cancelled crawl is never completed or failed, a plan has all that was *)
(* found, Rod and Colly walk as SiteWalk allows, and a walk that the limit *)
(* did not cut short has found everything in reach.                        *)
(***************************************************************************)
EXTENDS Crawls, TLAPS, FiniteSetTheorems, WellFoundedInduction

-----------------------------------------------------------------------------
(* What every reachable state satisfies                                    *)

\* The links on a page, and the sets the variables' parts range over.
Links(p) == cfg.links[p]
Item == [page : Pages, depth : 0 .. cfg.depth]
Request == [at : {"none", "sent", "fetching", "reading", "counting", "done"},
            depth : 0 .. cfg.depth, pos : Nat]
Scan == [scan : {"none", "running", "done", "stopped"}, msgs : Seq(Pages)]
Row == [status : Statuses, pages : SUBSET Pages, spec : BOOLEAN]
Steps == {"none", "register", "mark", "fetch", "crawl", "graph", "unregister", "over", "dead"} \union Ends

\* The types, of the engines' variables and of the crawl's.
WalkTyped ==
  /\ cfg \in Jobs /\ ctx \in BOOLEAN
  /\ walk \in {"idle", "setup", "walking", "ok", "error", "ctx"}
  /\ DOMAIN nodes \in SUBSET Pages /\ nodes \in [DOMAIN nodes -> 0 .. cfg.depth]
  /\ visited \in SUBSET Pages /\ queue \in Seq(Item) /\ loading \in Item \union {None}
  /\ fetch \in [Pages -> Request] /\ count \in Nat
  /\ zap \in Scan /\ poll \in {"status", "report", "report and end", "messages"}
  /\ reporter \in BOOLEAN /\ tick \in (SUBSET Pages) \union {NoTick}
\* How far a request has come with the links of its page.
PlaceTyped == \A p \in Pages :
  /\ fetch[p].pos <= Len(Links(p)) + 1
  /\ fetch[p].at = "reading" => fetch[p].pos >= 1
  /\ fetch[p].at = "counting" => fetch[p].pos \in 1 .. Len(Links(p))
RowTyped ==
  /\ row \in Row /\ planning \in Row /\ plans \in Seq(SUBSET Pages)
  /\ registered \in BOOLEAN /\ cancelling \in BOOLEAN /\ up \in BOOLEAN
  /\ pc \in Steps /\ cancels \in Nat
Typed == WalkTyped /\ PlaceTyped /\ RowTyped

\* Where the goroutine of the crawl is, and its engine.
Fresh ==
  /\ nodes = NoNodes /\ visited = {} /\ queue = <<>> /\ loading = None
  /\ fetch = [p \in Pages |-> NotAsked] /\ count = 0
  /\ reporter = FALSE /\ tick = NoTick
Early == {"none", "register", "mark", "fetch"}
Late == {"unregister", "over", "dead"}
IsImport == cfg.engine = "openapi"
PlaceInv ==
  /\ pc \in Early \/ walk = "setup" => Fresh
  /\ pc \in Early => walk = "idle"
  /\ walk \in {"setup", "walking"} => pc = "crawl"
  /\ pc = "crawl" => walk # "idle" /\ row.status \in {"crawling", "cancelled"}
  /\ pc = "dead" => ~up
  /\ pc = "fetch" => IsImport
  /\ IsImport => /\ walk = "idle" /\ ~reporter /\ ~Busy
                 /\ pc \notin {"register", "crawl", "unregister"}

\* What has been found is what the row, and what is made of it, says.
Found(r) == IF r.spec THEN Pages ELSE r.pages
Whole(r) == Found(r) = DOMAIN nodes
RowInv ==
  /\ walk = "ok" /\ Busy => tick = DOMAIN nodes
  /\ row.spec => IsImport /\ pc \notin Early /\ DOMAIN nodes = Pages
  /\ pc \in {"graph", "completed"} => walk = "ok" \/ row.spec
  /\ pc = "completed" => Whole(row)
  /\ row.status = "completed" => Whole(row) /\ pc \in Late /\ (walk = "ok" \/ row.spec \/ pc = "dead")
  /\ planning # NoRow => Whole(planning) /\ pc \in Late
  /\ plans # <<>> => pc \in Late
  /\ PlanIsWhole

\* How a page comes to be asked for.
Legit(p, d) ==
  \/ p = Entry /\ d = 0
  \/ /\ p \notin cfg.off
     /\ \E q \in DOMAIN nodes : p \in ToSet(Links(q)) /\ nodes[q] + 1 = d

\* Rod: a page is visited once, and no more pages than the limit.
RodInv ==
  /\ DOMAIN nodes \subseteq visited
  /\ loading # None => loading.page \in visited \ DOMAIN nodes /\ Legit(loading.page, loading.depth)
  /\ IsFiniteSet(visited) /\ Cardinality(visited) <= cfg.limit
  /\ \A i \in 1 .. Len(queue) : Legit(queue[i].page, queue[i].depth)

\* The queue is in the order of depth, and spans one level.
QueueInv ==
  /\ \A i, j \in 1 .. Len(queue) : i <= j =>
       queue[i].depth <= queue[j].depth /\ queue[j].depth <= queue[i].depth + 1
  /\ \A i \in 1 .. Len(queue) :
       /\ loading # None => loading.depth <= queue[i].depth /\ queue[i].depth <= loading.depth + 1
       /\ \A q \in DOMAIN nodes : nodes[q] <= queue[i].depth
  /\ loading # None => \A q \in DOMAIN nodes : nodes[q] <= loading.depth

\* A page is found within d links, or will be.
Known(p, d) ==
  \/ ~Reads(p)
  \/ p \in DOMAIN nodes /\ nodes[p] <= d
  \/ loading # None /\ loading.page = p /\ loading.depth <= d
  \/ \E i \in 1 .. Len(queue) : queue[i].page = p /\ queue[i].depth <= d

\* Rod, where the limit does not bind: every page asked for is in reach, and
\* what a page found links to is found, waiting or being loaded.
RodFinds ==
  /\ \A p \in visited : p \in DOMAIN nodes \/ (loading # None /\ loading.page = p) \/ ~Reads(p)
  /\ \A q \in DOMAIN nodes : Reads(q) /\ q \in Within[nodes[q]]
  /\ visited \subseteq Within[cfg.depth]
  /\ Known(Entry, 0)
  /\ \A q \in DOMAIN nodes : nodes[q] < cfg.depth =>
       \A p \in ToSet(Links(q)) \ cfg.off : Known(p, nodes[q] + 1)

\* Colly: the requests made, and those the count has let pass.
Asked == {p \in Pages : fetch[p].at # "none"}
Passed == DOMAIN nodes \union {p \in Pages : fetch[p].at = "fetching"}
\* Colly: as many requests as links counted, and no more pages than the limit.
CollyInv ==
  /\ IsFiniteSet(Asked) /\ Cardinality(Asked) <= count + 1
  /\ Passed \subseteq Asked /\ Cardinality(Passed) <= cfg.limit
  /\ \A p \in Asked : Legit(p, fetch[p].depth)
  /\ \A p \in Pages :
       /\ fetch[p].at \in {"reading", "counting"} => p \in DOMAIN nodes
       /\ p \in DOMAIN nodes => nodes[p] = fetch[p].depth /\ fetch[p].at \in {"reading", "counting", "done"}
       /\ fetch[p].at = "counting" => Links(p)[fetch[p].pos] \notin cfg.off

\* The links on some pages, and those that were passed on the pages found.
LinksOf(pages) == UNION {{p} \X DOMAIN Links(p) : p \in pages}
Passes == {x \in LinksOf(DOMAIN nodes) : x[2] < fetch[x[1]].pos}
\* Colly, where the limit does not bind: what a page links to before its place
\* was asked for, and no more links were counted than passed.
CollyFinds ==
  /\ Entry \in Asked
  /\ \A p \in Asked : fetch[p].depth < Cardinality(Asked)
  /\ \A p \in DOMAIN nodes :
       /\ Reads(p) /\ p \in Within[nodes[p]] /\ (fetch[p].at = "done" => fetch[p].pos = Len(Links(p)) + 1)
       /\ \A i \in 1 .. Len(Links(p)) :
            i < fetch[p].pos => Links(p)[i] \in cfg.off \union Asked
  /\ \A p \in Pages : ~ctx /\ fetch[p].at = "done" /\ Reads(p) => p \in DOMAIN nodes
  /\ count <= Cardinality(Passes)

\* What is found while a walk goes on, and at its end.
FindInv ==
  /\ Walking("rod") /\ Fits => QueueInv /\ RodFinds
  /\ Walking("colly") /\ Fits => CollyFinds
  /\ WalkIsWhole

-----------------------------------------------------------------------------
(* Recursion over the naturals                                             *)

\* A set of numbers that is not empty has a least element.
LEMMA LeastNatural ==
  ASSUME NEW T \in SUBSET Nat, T # {}
  PROVE  \E n \in T : \A m \in T : n <= m
<1> DEFINE R == {ss \in Nat \X Nat : ss[1] < ss[2]}
<1>1. IsWellFoundedOn(R, Nat)
  BY NatLessThanWellFounded DEF OpToRel
<1>2. PICK n \in T : \A m \in T : <<m, n>> \notin R
  BY <1>1, WFMin
<1>3. \A m \in T : ~(m < n)
  BY <1>2
<1> QED
  BY <1>3

\* The first n values of a recursion that starts with a and goes on with step.
Begins(f, n, S, a, step) ==
  f \in [0 .. n -> S] /\ f[0] = a /\ \A i \in 1 .. n : f[i] = step[<<i, f[i - 1]>>]

\* There is such a beginning of every length.
LEMMA BeginningExists ==
  ASSUME NEW S, NEW a \in S, NEW step \in [Nat \X S -> S], NEW n \in Nat
  PROVE  \E f : Begins(f, n, S, a, step)
<1> DEFINE Bad == {m \in Nat : ~ \E f : Begins(f, m, S, a, step)}
<1> SUFFICES ASSUME Bad # {} PROVE FALSE
  OBVIOUS
<1>1. PICK m \in Bad : \A k \in Bad : m <= k
  BY LeastNatural
<1>2. CASE m = 0
  <2>1. Begins([i \in 0 .. 0 |-> a], 0, S, a, step)
    BY DEF Begins
  <2> QED
    BY <1>1, <1>2, <2>1
<1>3. CASE m # 0
  <2>1. m - 1 \in Nat /\ ~(m <= m - 1)
    BY <1>1, <1>3
  <2>2. PICK f : Begins(f, m - 1, S, a, step)
    BY <1>1, <2>1
  <2> DEFINE g == [i \in 0 .. m |-> IF i = m THEN step[<<m, f[m - 1]>>] ELSE f[i]]
  <2>3. f \in [0 .. m - 1 -> S] /\ f[0] = a /\ \A i \in 1 .. m - 1 : f[i] = step[<<i, f[i - 1]>>]
    BY <2>2 DEF Begins
  <2>4. m \in Nat /\ f[m - 1] \in S
    BY <2>1, <2>3
  <2>5. step[<<m, f[m - 1]>>] \in S
    BY <2>4
  <2>6. \A i \in 0 .. m : i = m \/ i \in 0 .. m - 1
    BY <2>4
  <2>7. g \in [0 .. m -> S] /\ g[0] = a
    BY <1>3, <2>3, <2>4, <2>5, <2>6
  <2>8. ASSUME NEW i \in 1 .. m PROVE g[i] = step[<<i, g[i - 1]>>]
    <3>1. i - 1 \in 0 .. m - 1 /\ i \in 0 .. m /\ i - 1 \in 0 .. m /\ i - 1 # m
      BY <2>4
    <3>2. g[i - 1] = f[i - 1]
      BY <3>1
    <3>3. CASE i = m
      BY <3>1, <3>2, <3>3
    <3>4. CASE i # m
      <4>1. i \in 1 .. m - 1 /\ g[i] = f[i]
        BY <2>4, <3>1, <3>4
      <4> QED
        BY <2>3, <3>2, <4>1
    <3> QED
      BY <3>3, <3>4
  <2>9. Begins(g, m, S, a, step)
    BY <2>7, <2>8 DEF Begins
  <2> QED
    BY <1>1, <2>9
<1> QED
  BY <1>2, <1>3

\* Two beginnings agree as far as both go.
LEMMA BeginningIsOne ==
  ASSUME NEW S, NEW a, NEW step, NEW n \in Nat, NEW m \in Nat, n <= m,
         NEW f, NEW g, Begins(f, n, S, a, step), Begins(g, m, S, a, step)
  PROVE  \A i \in 0 .. n : f[i] = g[i]
<1> DEFINE Bad == {i \in 0 .. n : f[i] # g[i]}
<1> SUFFICES ASSUME Bad # {} PROVE FALSE
  OBVIOUS
<1>0. Bad \in SUBSET Nat
  OBVIOUS
<1>1. PICK i \in Bad : \A k \in Bad : i <= k
  BY <1>0, LeastNatural
<1>2. i # 0 /\ i \in 1 .. n /\ i - 1 \in 0 .. n /\ ~(i <= i - 1) /\ i \in 1 .. m
  BY <1>1 DEF Begins
<1>3. f[i - 1] = g[i - 1]
  BY <1>1, <1>2
<1> QED
  BY <1>1, <1>2, <1>3 DEF Begins

\* All of them.
Recurs(f, S, a, step) ==
  f \in [Nat -> S] /\ f[0] = a /\ \A i \in Nat \ {0} : f[i] = step[<<i, f[i - 1]>>]

\* A recursion over the naturals has a function.
LEMMA RecursionExists ==
  ASSUME NEW S, NEW a \in S, NEW step \in [Nat \X S -> S]
  PROVE  \E f : Recurs(f, S, a, step)
<1> DEFINE B(n) == CHOOSE f : Begins(f, n, S, a, step)
           F == [n \in Nat |-> B(n)[n]]
<1>1. \A n \in Nat : Begins(B(n), n, S, a, step)
  BY BeginningExists
<1> HIDE DEF B
<1>2. F \in [Nat -> S] /\ F[0] = a
  BY <1>1 DEF Begins
<1>3. ASSUME NEW i \in Nat \ {0} PROVE F[i] = step[<<i, F[i - 1]>>]
  <2>1. i - 1 \in Nat /\ i - 1 <= i /\ i - 1 \in 0 .. i - 1 /\ i \in 1 .. i
    OBVIOUS
  <2>2. B(i - 1)[i - 1] = B(i)[i - 1]
    BY <1>1, <2>1, BeginningIsOne
  <2>3. B(i)[i] = step[<<i, B(i)[i - 1]>>]
    BY <1>1, <2>1 DEF Begins
  <2> QED
    BY <2>1, <2>2, <2>3
<1>4. Recurs(F, S, a, step)
  BY <1>2, <1>3 DEF Recurs
<1> QED
  BY <1>4

-----------------------------------------------------------------------------
(* The pages within a number of links of the entry page                    *)

\* Within is what its definition says.
LEMMA WithinIs ==
  /\ Within \in [Nat -> SUBSET (Pages \cup {Entry})]
  /\ Within[0] = {Entry}
  /\ \A d \in Nat \ {0} :
       Within[d] = Within[d - 1] \cup
         {p \in Pages \ cfg.off : \E q \in Within[d - 1] : Reads(q) /\ p \in ToSet(cfg.links[q])}
<1> DEFINE S == SUBSET (Pages \cup {Entry})
           Onto(X) == X \cup {p \in Pages \ cfg.off : \E q \in X : Reads(q) /\ p \in ToSet(cfg.links[q])}
           step == [x \in Nat \X S |-> Onto(x[2])]
           Body(f) == [d \in Nat |-> IF d = 0 THEN {Entry} ELSE f[d - 1] \cup
             {p \in Pages \ cfg.off : \E q \in f[d - 1] : Reads(q) /\ p \in ToSet(cfg.links[q])}]
<1>1. \A X \in S : Onto(X) \in S
  OBVIOUS
<1>2. {Entry} \in S /\ step \in [Nat \X S -> S]
  BY <1>1
<1>3. PICK f : Recurs(f, S, {Entry}, step)
  <2> HIDE DEF S, step
  <2> QED
    BY <1>2, RecursionExists
<1>31. f \in [Nat -> S] /\ f[0] = {Entry} /\ \A i \in Nat \ {0} : f[i] = step[<<i, f[i - 1]>>]
  BY <1>3 DEF Recurs
<1>4. ASSUME NEW i \in Nat \ {0} PROVE f[i - 1] \in S /\ f[i] = Onto(f[i - 1])
  <2>1. i - 1 \in Nat /\ i \in Nat
    OBVIOUS
  <2>2. f[i - 1] \in S
    BY <1>31, <2>1
  <2>3. <<i, f[i - 1]>> \in Nat \X S /\ <<i, f[i - 1]>>[2] = f[i - 1]
    BY <2>1, <2>2
  <2>4. step[<<i, f[i - 1]>>] = Onto(f[i - 1])
    BY <2>3
  <2> QED
    BY <1>31, <2>2, <2>4
<1>5. \A i \in Nat : f[i] = IF i = 0 THEN {Entry} ELSE Onto(f[i - 1])
  BY <1>31, <1>4
<1>6. f = Body(f)
  <2>1. f = [i \in Nat |-> f[i]]
    BY <1>31
  <2> QED
    BY <1>5, <2>1
<1>7. Within = CHOOSE g : g = Body(g)
  BY DEF Within
<1>8. Within = Body(Within)
  BY <1>6, <1>7
<1>9. \A d \in Nat : Within[d] = IF d = 0 THEN {Entry} ELSE Onto(Within[d - 1])
  BY <1>8
<1> DEFINE Bad == {d \in Nat : Within[d] \notin S}
<1>10. Bad = {}
  <2> SUFFICES ASSUME Bad # {} PROVE FALSE
    OBVIOUS
  <2>0. Bad \in SUBSET Nat
    OBVIOUS
  <2>1. PICK d \in Bad : \A k \in Bad : d <= k
    BY <2>0, LeastNatural
  <2>2. d # 0
    BY <1>2, <1>9, <2>1
  <2>3. d - 1 \in Nat /\ d - 1 \notin Bad
    BY <2>1, <2>2
  <2> QED
    BY <1>1, <1>9, <2>1, <2>2, <2>3
<1>11. Within \in [Nat -> S]
  BY <1>8, <1>10
<1> QED
  BY <1>9, <1>11

-----------------------------------------------------------------------------
(* The queue after a page's links                                          *)

\* The sequence q, followed by one item at depth d for each of the first n
\* links that is followed, and nothing else.
Extends(r, n, q, links, d) ==
  /\ Len(q) <= Len(r) /\ \A i \in 1 .. Len(q) : r[i] = q[i]
  /\ \A i \in 1 .. Len(r) : i > Len(q) =>
       \E j \in 1 .. n : Follows(links[j]) /\ r[i] = [page |-> links[j], depth |-> d]
  /\ \A j \in 1 .. n : Follows(links[j]) =>
       \E i \in 1 .. Len(r) : r[i] = [page |-> links[j], depth |-> d]

\* One link more.
LEMMA ExtendsMore ==
  ASSUME NEW S, NEW r \in Seq(S), NEW n \in Nat, NEW q \in Seq(S), NEW links, NEW d,
         Extends(r, n, q, links, d), [page |-> links[n + 1], depth |-> d] \in S
  PROVE  Extends(IF Follows(links[n + 1]) THEN Append(r, [page |-> links[n + 1], depth |-> d]) ELSE r,
                 n + 1, q, links, d)
<1> DEFINE x == [page |-> links[n + 1], depth |-> d]
<1>0. /\ Len(q) \in Nat /\ Len(r) \in Nat /\ Len(q) <= Len(r)
      /\ \A i \in 1 .. Len(q) : r[i] = q[i]
      /\ \A i \in 1 .. Len(r) : i > Len(q) =>
           \E j \in 1 .. n : Follows(links[j]) /\ r[i] = [page |-> links[j], depth |-> d]
      /\ \A j \in 1 .. n : Follows(links[j]) =>
           \E i \in 1 .. Len(r) : r[i] = [page |-> links[j], depth |-> d]
  BY DEF Extends
<1>1. n + 1 \in 1 .. n + 1 /\ \A j \in 1 .. n : j \in 1 .. n + 1
  OBVIOUS
<1>2. \A j \in 1 .. n + 1 : j \in 1 .. n \/ j = n + 1
  OBVIOUS
<1>3. CASE Follows(links[n + 1])
  <2> DEFINE s == Append(r, x)
  <2>1. Len(s) = Len(r) + 1 /\ s[Len(r) + 1] = x /\ \A i \in 1 .. Len(r) : s[i] = r[i]
    OBVIOUS
  <2> HIDE DEF s
  <2>2. \A i \in 1 .. Len(s) : i \in 1 .. Len(r) \/ i = Len(r) + 1
    BY <1>0, <2>1
  <2>3. Len(q) <= Len(s) /\ \A i \in 1 .. Len(q) : s[i] = q[i]
    BY <1>0, <2>1
  <2>4. ASSUME NEW i \in 1 .. Len(s), i > Len(q)
        PROVE  \E j \in 1 .. n + 1 : Follows(links[j]) /\ s[i] = [page |-> links[j], depth |-> d]
    <3>1. CASE i = Len(r) + 1
      BY <1>1, <1>3, <2>1, <3>1
    <3>2. CASE i \in 1 .. Len(r)
      <4>1. PICK j \in 1 .. n : Follows(links[j]) /\ r[i] = [page |-> links[j], depth |-> d]
        BY <1>0, <2>4, <3>2
      <4>2. s[i] = r[i] /\ j \in 1 .. n + 1
        BY <1>1, <2>1, <3>2
      <4> QED
        BY <4>1, <4>2
    <3> QED
      BY <2>2, <3>1, <3>2
  <2>5. ASSUME NEW j \in 1 .. n + 1, Follows(links[j])
        PROVE  \E i \in 1 .. Len(s) : s[i] = [page |-> links[j], depth |-> d]
    <3>1. CASE j = n + 1
      <4>1. Len(r) + 1 \in 1 .. Len(s)
        BY <1>0, <2>1
      <4> QED
        BY <2>1, <3>1, <4>1
    <3>2. CASE j \in 1 .. n
      <4>1. PICK i \in 1 .. Len(r) : r[i] = [page |-> links[j], depth |-> d]
        BY <1>0, <2>5, <3>2
      <4>2. i \in 1 .. Len(s) /\ s[i] = r[i]
        BY <1>0, <2>1
      <4> QED
        BY <4>1, <4>2
    <3> QED
      BY <1>2, <3>1, <3>2
  <2>6. Extends(s, n + 1, q, links, d)
    BY <2>3, <2>4, <2>5 DEF Extends
  <2> QED
    BY <1>3, <2>6 DEF s
<1>4. CASE ~Follows(links[n + 1])
  <2>1. ASSUME NEW i \in 1 .. Len(r), i > Len(q)
        PROVE  \E j \in 1 .. n + 1 : Follows(links[j]) /\ r[i] = [page |-> links[j], depth |-> d]
    BY <1>0, <1>1, <2>1
  <2>2. ASSUME NEW j \in 1 .. n + 1, Follows(links[j])
        PROVE  \E i \in 1 .. Len(r) : r[i] = [page |-> links[j], depth |-> d]
    BY <1>0, <1>2, <1>4, <2>2
  <2>3. Extends(r, n + 1, q, links, d)
    BY <1>0, <2>1, <2>2 DEF Extends
  <2> QED
    BY <1>4, <2>3
<1> QED
  BY <1>3, <1>4

\* Queued extends the queue by the links that are followed.
LEMMA QueuedIs ==
  ASSUME NEW S, queue \in Seq(S), NEW links, NEW n \in Nat, Len(links) = n, NEW d,
         \A j \in 1 .. n : [page |-> links[j], depth |-> d] \in S
  PROVE  /\ Queued(links, d) \in Seq(S)
         /\ Extends(Queued(links, d), n, queue, links, d)
<1> DEFINE x(i) == [page |-> links[i], depth |-> d]
           More(i, r) == IF Follows(links[i]) THEN Append(r, x(i)) ELSE r
           step == [y \in Nat \X Seq(S) |-> IF y[1] \in 1 .. n THEN More(y[1], y[2]) ELSE y[2]]
           Body(q) == [i \in 0 .. Len(links) |-> IF i = 0 THEN queue
                        ELSE IF Follows(links[i]) THEN Append(q[i - 1], [page |-> links[i], depth |-> d])
                        ELSE q[i - 1]]
<1>1. step \in [Nat \X Seq(S) -> Seq(S)]
  <2> SUFFICES ASSUME NEW i \in Nat, NEW r \in Seq(S)
               PROVE  (IF i \in 1 .. n THEN More(i, r) ELSE r) \in Seq(S)
    OBVIOUS
  <2>1. CASE i \in 1 .. n /\ Follows(links[i])
    <3>1. x(i) \in S
      BY <2>1
    <3> QED
      BY <2>1, <3>1
  <2> QED
    BY <2>1
<1>2. PICK f : Recurs(f, Seq(S), queue, step)
  <2> HIDE DEF step
  <2> QED
    BY <1>1, RecursionExists
<1>3. ASSUME NEW i \in 1 .. n PROVE f[i - 1] \in Seq(S) /\ f[i] = More(i, f[i - 1])
  <2>1. i - 1 \in Nat /\ i \in Nat \ {0}
    OBVIOUS
  <2>2. f[i - 1] \in Seq(S) /\ f[i] = step[<<i, f[i - 1]>>]
    BY <1>2, <2>1 DEF Recurs
  <2>3. <<i, f[i - 1]>> \in Nat \X Seq(S) /\ <<i, f[i - 1]>>[1] = i /\ <<i, f[i - 1]>>[2] = f[i - 1]
    BY <2>1, <2>2
  <2>4. step[<<i, f[i - 1]>>] = More(i, f[i - 1])
    BY <2>3
  <2> QED
    BY <2>2, <2>4
<1>4. f[0] = queue /\ \A i \in 0 .. n : f[i] \in Seq(S)
  BY <1>2 DEF Recurs
<1> DEFINE g == [i \in 0 .. n |-> f[i]]
<1>5. g = Body(g)
  <2>1. \A i \in 0 .. n : i # 0 => i \in 1 .. n /\ i - 1 \in 0 .. n
    OBVIOUS
  <2>2. \A i \in 0 .. n : f[i] = IF i = 0 THEN queue ELSE More(i, g[i - 1])
    BY <1>3, <1>4, <2>1
  <2> QED
    BY <2>2
<1> DEFINE h == CHOOSE q : q = Body(q)
<1>6. Queued(links, d) = h[n]
  BY DEF Queued
<1>7. h = Body(h)
  <2> HIDE DEF g, Body
  <2> QED
    BY <1>5
<1>8. \A i \in 0 .. n : h[i] = IF i = 0 THEN queue ELSE More(i, h[i - 1])
  BY <1>7
<1> DEFINE Bad == {i \in 0 .. n : ~ (h[i] \in Seq(S) /\ Extends(h[i], i, queue, links, d))}
<1> HIDE DEF h
<1>9. Bad = {}
  <2> SUFFICES ASSUME Bad # {} PROVE FALSE
    OBVIOUS
  <2>0. Bad \in SUBSET Nat
    OBVIOUS
  <2>1. PICK i \in Bad : \A k \in Bad : i <= k
    BY <2>0, LeastNatural
  <2>2. CASE i = 0
    <3>0. 0 \in 0 .. n
      OBVIOUS
    <3>1. h[0] = queue
      BY <1>8, <3>0
    <3>2. Extends(queue, 0, queue, links, d)
      <4>1. Len(queue) \in Nat
        OBVIOUS
      <4> QED
        BY <4>1 DEF Extends
    <3> QED
      BY <2>1, <2>2, <3>1, <3>2
  <2>3. CASE i # 0
    <3>1. i \in 1 .. n /\ i - 1 \in 0 .. n /\ i - 1 \in Nat /\ ~(i <= i - 1) /\ (i - 1) + 1 = i
      BY <2>1, <2>3
    <3>2. h[i - 1] \in Seq(S) /\ Extends(h[i - 1], i - 1, queue, links, d)
      BY <2>1, <3>1
    <3>3. x(i) \in S /\ h[i] = More(i, h[i - 1])
      BY <1>8, <2>3, <3>1
    <3>4. PICK k : k = i - 1
      OBVIOUS
    <3>5. k \in Nat /\ k + 1 = i
      BY <3>1, <3>4
    <3>6. Extends(More(k + 1, h[k]), k + 1, queue, links, d)
      <4>1. PICK r : r = h[k]
        OBVIOUS
      <4>2. r \in Seq(S) /\ Extends(r, k, queue, links, d) /\ x(k + 1) \in S
        BY <3>2, <3>3, <3>4, <3>5, <4>1
      <4> QED
        BY <3>5, <4>1, <4>2, ExtendsMore
    <3>7. h[i] \in Seq(S)
      BY <3>2, <3>3
    <3> QED
      BY <2>1, <3>3, <3>4, <3>5, <3>6, <3>7
  <2> QED
    BY <2>2, <2>3
<1>10. n \in 0 .. n
  OBVIOUS
<1> QED
  BY <1>6, <1>9, <1>10

-----------------------------------------------------------------------------
(* Types                                                                   *)

\* The parts of a crawl's configuration have their types.
LEMMA JobTyped ==
  ASSUME cfg \in Jobs
  PROVE  /\ cfg.engine \in {"rod", "colly", "zap", "openapi"}
         /\ cfg.depth \in Nat /\ cfg.depth > 0 /\ cfg.limit \in Nat /\ cfg.limit > 0
         /\ \A p \in Pages : /\ Links(p) \in Seq(Pages) /\ Len(Links(p)) \in Nat
                             /\ \A i \in 1 .. Len(Links(p)) : Links(p)[i] \in Pages
<1>1. /\ cfg.engine \in {"rod", "colly", "zap", "openapi"} /\ cfg.links \in [Pages -> Seq(Pages)]
      /\ cfg.depth \in Nat \ {0} /\ cfg.limit \in Nat \ {0}
  BY JobsAssumption
<1>2. \A p \in Pages : Links(p) \in Seq(Pages)
  BY <1>1 DEF Links
<1>3. ASSUME NEW p \in Pages
      PROVE  Len(Links(p)) \in Nat /\ \A i \in 1 .. Len(Links(p)) : Links(p)[i] \in Pages
  BY <1>2
<1> QED
  BY <1>1, <1>2, <1>3

\* Types that single steps use.
LEMMA WalkParts ==
  ASSUME WalkTyped
  PROVE  /\ cfg \in Jobs /\ cfg.depth \in Nat /\ cfg.limit \in Nat
         /\ cfg.depth > 0 /\ cfg.limit > 0 /\ 0 \in 0 .. cfg.depth
         /\ queue \in Seq(Item) /\ Len(queue) \in Nat /\ zap \in Scan
<1>1. cfg \in Jobs /\ queue \in Seq(Item) /\ zap \in Scan
  BY DEF WalkTyped
<1>2. cfg.depth \in Nat /\ cfg.depth > 0 /\ cfg.limit \in Nat /\ cfg.limit > 0
  BY <1>1, JobTyped
<1>3. Len(queue) \in Nat
  BY <1>1
<1> QED
  BY <1>1, <1>2, <1>3

\* What the engines' variables consist of.
LEMMA TypedParts ==
  ASSUME WalkTyped, PlaceTyped
  PROVE  /\ \A p \in DOMAIN nodes : p \in Pages /\ nodes[p] \in 0 .. cfg.depth
         /\ Len(queue) \in Nat
         /\ \A i \in 1 .. Len(queue) : queue[i] \in Item /\ queue[i].page \in Pages /\ queue[i].depth \in 0 .. cfg.depth
         /\ loading # None => loading \in Item /\ loading.page \in Pages /\ loading.depth \in 0 .. cfg.depth
         /\ \A p \in Pages :
              /\ fetch[p] \in Request /\ fetch[p].depth \in 0 .. cfg.depth /\ fetch[p].pos \in Nat
              /\ fetch[p].at \in {"none", "sent", "fetching", "reading", "counting", "done"}
              /\ fetch[p].pos <= Len(Links(p)) + 1
              /\ fetch[p].at = "reading" => fetch[p].pos >= 1
              /\ fetch[p].at = "counting" => fetch[p].pos \in 1 .. Len(Links(p))
<1>1. \A i \in 1 .. Len(queue) : queue[i] \in Item
  BY WalkParts
<1>2. loading # None => loading \in Item
  BY DEF WalkTyped
<1>3. \A x \in Item : x.page \in Pages /\ x.depth \in 0 .. cfg.depth
  BY DEF Item
<1>4. \A p \in Pages : fetch[p] \in Request
  BY DEF WalkTyped
<1>5. \A r \in Request : /\ r.depth \in 0 .. cfg.depth /\ r.pos \in Nat
                         /\ r.at \in {"none", "sent", "fetching", "reading", "counting", "done"}
  BY DEF Request
<1>6. \A p \in DOMAIN nodes : p \in Pages /\ nodes[p] \in 0 .. cfg.depth
  BY DEF WalkTyped
<1>7. Len(queue) \in Nat
  BY WalkParts
<1> QED
  BY <1>1, <1>2, <1>3, <1>4, <1>5, <1>6, <1>7 DEF PlaceTyped

\* Every variable has its type at first.
LEMMA InitTyped == Init => Typed
<1> SUFFICES ASSUME Init PROVE Typed
  OBVIOUS
<1>0. cfg \in Jobs /\ 0 \in 0 .. cfg.depth
  BY JobTyped DEF Init, WalkInit
<1>1. nodes = NoNodes /\ NoNodes \in [{} -> 0 .. cfg.depth] /\ DOMAIN NoNodes = {}
  BY DEF Init, WalkInit, NoNodes
<1>2. fetch \in [Pages -> Request] /\ \A p \in Pages : fetch[p] = NotAsked
  BY <1>0 DEF Init, WalkInit, NotAsked, Request
<1>3. zap \in Scan
  BY EntryAssumption DEF Init, WalkInit, Scan
<1>4. WalkTyped
  <2>1. <<>> \in Seq(Item) /\ {} \in SUBSET Pages /\ None \in Item \union {None}
    OBVIOUS
  <2> QED
    BY <1>0, <1>1, <1>2, <1>3, <2>1 DEF Init, WalkInit, WalkTyped
<1>5. PlaceTyped
  BY <1>0, <1>2, JobTyped DEF PlaceTyped, NotAsked
<1>6. RowTyped
  <2>1. NoRow \in Row
    BY DEF NoRow, Row, Statuses
  <2>2. <<>> \in Seq(SUBSET Pages)
    OBVIOUS
  <2> QED
    BY <2>1, <2>2 DEF Init, RowTyped, Steps
<1> QED
  BY <1>4, <1>5, <1>6 DEF Typed

\* What adding a page makes of the graph.
LEMMA AddNodeIs ==
  ASSUME NEW p, NEW d
  PROVE  /\ DOMAIN AddNode(p, d) = DOMAIN nodes \union {p}
         /\ AddNode(p, d) = [q \in DOMAIN AddNode(p, d) |-> AddNode(p, d)[q]]
         /\ AddNode(p, d)[p] = d
         /\ \A q \in DOMAIN nodes : q # p => AddNode(p, d)[q] = nodes[q]
  BY DEF AddNode

\* The graph has its type with one page more.
LEMMA AddNodeTyped ==
  ASSUME WalkTyped, NEW p \in Pages, NEW d \in 0 .. cfg.depth
  PROVE  DOMAIN AddNode(p, d) \in SUBSET Pages /\ AddNode(p, d) \in [DOMAIN AddNode(p, d) -> 0 .. cfg.depth]
  BY DEF WalkTyped, AddNode

\* A site's configuration does not change.
LEMMA SameJob ==
  ASSUME UNCHANGED cfg
  PROVE  Item' = Item /\ Request' = Request /\ \A p : Links(p)' = Links(p)
  BY DEF Item, Request, Links

\* Handlers leave the engines' variables alone.
LEMMA SameRest ==
  ASSUME WalkTyped, PlaceTyped, UNCHANGED <<cfg, fetch>>
  PROVE  PlaceTyped'
  BY SameJob DEF PlaceTyped

\* An engine that starts keeps the types.
LEMMA SetupTyped ==
  ASSUME WalkTyped, PlaceTyped, Setup
  PROVE  WalkTyped' /\ PlaceTyped'
<1>1. cfg' = cfg /\ 0 \in 0 .. cfg.depth /\ Item' = Item /\ Request' = Request
  BY WalkParts, SameJob DEF Setup
<1>2. walk' \in {"error", "walking"} /\ reporter' \in BOOLEAN
  BY DEF Setup
<1>3. queue' \in Seq(Item)
  <2>1. [page |-> Entry, depth |-> 0] \in Item
    BY <1>1, EntryAssumption DEF Item
  <2>2. <<[page |-> Entry, depth |-> 0]>> \in Seq(Item)
    BY <2>1
  <2> QED
    BY <2>2, WalkParts DEF Setup
<1>4. fetch' = fetch \/ fetch' = [fetch EXCEPT ![Entry] = Sent(0)]
  BY DEF Setup
<1>5. Sent(0) \in Request
  BY <1>1 DEF Sent, Request
<1>6. fetch' \in [Pages -> Request]
  BY <1>4, <1>5 DEF WalkTyped
<1>7. zap' \in Scan
  BY DEF Setup, WalkTyped, Scan
<1>8. WalkTyped'
  BY <1>1, <1>2, <1>3, <1>6, <1>7 DEF Setup, WalkTyped
<1>9. PlaceTyped'
  <2> SUFFICES ASSUME NEW p \in Pages
               PROVE  /\ fetch'[p].pos <= Len(Links(p)) + 1
                      /\ fetch'[p].at = "reading" => fetch'[p].pos >= 1
                      /\ fetch'[p].at = "counting" => fetch'[p].pos \in 1 .. Len(Links(p))
    BY <1>1, SameJob DEF PlaceTyped
  <2>1. fetch'[p] = fetch[p] \/ fetch'[p] = Sent(0)
    BY <1>4, EntryAssumption DEF WalkTyped
  <2>2. Len(Links(p)) \in Nat
    BY JobTyped DEF WalkTyped
  <2> QED
    BY <2>1, <2>2 DEF PlaceTyped, Sent
<1> QED
  BY <1>8, <1>9

\* Rod's loop keeps the types.
LEMMA RodNextTyped ==
  ASSUME WalkTyped, PlaceTyped, RodNext
  PROVE  WalkTyped' /\ PlaceTyped'
<1>1. UNCHANGED <<cfg, ctx, nodes, collyVars, zapVars, reporter, tick>> /\ Item' = Item /\ Request' = Request
  BY SameJob DEF RodNext
<1>2. walk' \in {"walking", "ok", "ctx"}
  BY DEF RodNext, RodStops, RodTakes, Walking
<1>3. visited' \in SUBSET Pages /\ queue' \in Seq(Item) /\ loading' \in Item \union {None}
  <2>1. CASE RodStops
    BY <2>1 DEF RodStops, rodVars, WalkTyped
  <2>2. CASE RodTakes
    <3>0. queue \in Seq(Item) /\ queue # <<>>
      BY <2>2, WalkParts DEF RodTakes
    <3>1. Head(queue) \in Item /\ Tail(queue) \in Seq(Item)
      BY <3>0
    <3>2. Head(queue).page \in Pages
      BY <3>1 DEF Item
    <3> QED
      BY <2>2, <3>1, <3>2 DEF RodTakes, WalkTyped
  <2> QED
    BY <2>1, <2>2 DEF RodNext
<1>4. WalkTyped'
  BY <1>1, <1>2, <1>3 DEF WalkTyped, collyVars, zapVars
<1> QED
  BY <1>1, <1>4, SameRest DEF collyVars

\* A visit of Rod's keeps the types.
LEMMA RodVisitsTyped ==
  ASSUME WalkTyped, PlaceTyped, RodVisits
  PROVE  WalkTyped' /\ PlaceTyped'
<1>1. /\ UNCHANGED <<cfg, ctx, walk, visited, collyVars, zapVars, reporter, tick>>
      /\ Item' = Item /\ Request' = Request
      /\ loading' = None
  BY SameJob DEF RodVisits
<1>2. loading \in Item /\ loading.page \in Pages /\ loading.depth \in 0 .. cfg.depth
  BY TypedParts DEF RodVisits
<1>3. DOMAIN nodes' \in SUBSET Pages /\ nodes' \in [DOMAIN nodes' -> 0 .. cfg.depth]
  BY <1>2, AddNodeTyped DEF RodVisits, WalkTyped
<1>4. queue' \in Seq(Item)
  <2>1. queue' = queue \/ (loading.depth < cfg.depth /\ queue' = Queued(Links(loading.page), loading.depth + 1))
    <3>1. cfg.depth \in Nat
      BY JobTyped DEF WalkTyped
    <3> QED
      BY <1>2, <3>1 DEF RodVisits, Links
  <2>2. ASSUME loading.depth < cfg.depth, NEW j \in 1 .. Len(Links(loading.page))
        PROVE  [page |-> Links(loading.page)[j], depth |-> loading.depth + 1] \in Item
    <3>1. Links(loading.page)[j] \in Pages /\ loading.depth + 1 \in 0 .. cfg.depth
      <4>1. Links(loading.page)[j] \in Pages
        BY <1>2, JobTyped, WalkParts
      <4> QED
        BY <1>2, <2>2, <4>1, WalkParts
    <3> QED
      BY <3>1 DEF Item
  <2>3. ASSUME loading.depth < cfg.depth PROVE Queued(Links(loading.page), loading.depth + 1) \in Seq(Item)
    <3>1. Len(Links(loading.page)) \in Nat /\ queue \in Seq(Item)
      BY <1>2, JobTyped DEF WalkTyped
    <3> QED
      BY <2>2, <2>3, <3>1, QueuedIs
  <2> QED
    BY <2>1, <2>3 DEF WalkTyped
<1>5. WalkTyped'
  BY <1>1, <1>3, <1>4 DEF WalkTyped, collyVars, zapVars
<1> QED
  BY <1>1, <1>5, SameRest DEF collyVars

\* Colly's requests change one at a time, but for the one a link makes.
LEMMA CollyTyped ==
  ASSUME WalkTyped, PlaceTyped, NEW p \in Pages, CollyStep(p)
  PROVE  WalkTyped' /\ PlaceTyped'
<1>0. /\ UNCHANGED <<cfg, ctx, walk, rodVars, zapVars, reporter, tick>>
      /\ Item' = Item /\ Request' = Request /\ \A q : Links(q)' = Links(q)
  BY SameJob DEF CollyStep, OnRequest, OnResponse, ReadLink, FollowLink
<1>1. /\ fetch \in [Pages -> Request] /\ cfg.depth \in Nat
      /\ \A q \in Pages : Len(Links(q)) \in Nat /\ \A i \in 1 .. Len(Links(q)) : Links(q)[i] \in Pages
  BY JobTyped DEF WalkTyped
<1>2. /\ fetch[p] \in Request /\ fetch[p].depth \in 0 .. cfg.depth /\ fetch[p].pos \in Nat
      /\ fetch[p].pos <= Len(Links(p)) + 1
      /\ fetch[p].at = "reading" => fetch[p].pos >= 1
      /\ fetch[p].at = "counting" => fetch[p].pos \in 1 .. Len(Links(p))
  BY TypedParts
<1>3. ASSUME NEW r \in Request, fetch' = [fetch EXCEPT ![p] = r], r.pos <= Len(Links(p)) + 1,
             r.at = "reading" => r.pos >= 1, r.at = "counting" => r.pos \in 1 .. Len(Links(p))
      PROVE  fetch' \in [Pages -> Request] /\ PlaceTyped'
  <2>1. fetch' \in [Pages -> Request]
    BY <1>1, <1>3
  <2>2. \A q \in Pages : fetch'[q] = IF q = p THEN r ELSE fetch[q]
    BY <1>1, <1>3
  <2> QED
    BY <1>0, <1>3, <2>1, <2>2 DEF PlaceTyped
<1>4. ASSUME UNCHANGED count, UNCHANGED nodes \/ nodes' = AddNode(p, fetch[p].depth), fetch' \in [Pages -> Request]
      PROVE  WalkTyped'
  <2>1. DOMAIN nodes' \in SUBSET Pages /\ nodes' \in [DOMAIN nodes' -> 0 .. cfg.depth]
    BY <1>2, <1>4, AddNodeTyped DEF WalkTyped
  <2> QED
    BY <1>0, <1>4, <2>1 DEF WalkTyped, rodVars, zapVars
<1>5. CASE OnRequest(p)
  <2>1. PICK a \in {"done", "fetching"} : fetch' = [fetch EXCEPT ![p].at = a]
    BY <1>5 DEF OnRequest
  <2> DEFINE r == [fetch[p] EXCEPT !.at = a]
  <2>2. r \in Request /\ r.pos = fetch[p].pos /\ r.at = a
    BY <1>2 DEF Request
  <2>3. fetch' = [fetch EXCEPT ![p] = r]
    BY <1>1, <2>1
  <2> HIDE DEF r
  <2> QED
    BY <1>2, <1>3, <1>4, <1>5, <2>2, <2>3 DEF OnRequest
<1>6. CASE OnResponse(p)
  <2>1. \/ fetch' = [fetch EXCEPT ![p] = [fetch[p] EXCEPT !.at = "done"]]
        \/ fetch' = [fetch EXCEPT ![p] = [fetch[p] EXCEPT !.at = "reading", !.pos = 1]]
    BY <1>1, <1>6 DEF OnResponse
  <2>2. [fetch[p] EXCEPT !.at = "done"] \in Request /\ [fetch[p] EXCEPT !.at = "reading", !.pos = 1] \in Request
    BY <1>2 DEF Request
  <2>3. /\ [fetch[p] EXCEPT !.at = "done"].at = "done" /\ [fetch[p] EXCEPT !.at = "done"].pos = fetch[p].pos
        /\ [fetch[p] EXCEPT !.at = "reading", !.pos = 1].at = "reading"
        /\ [fetch[p] EXCEPT !.at = "reading", !.pos = 1].pos = 1
    BY <1>2 DEF Request
  <2>4. 1 <= Len(Links(p)) + 1 /\ 1 >= 1
    BY <1>1
  <2>5. fetch' \in [Pages -> Request] /\ PlaceTyped'
    BY <1>2, <1>3, <2>1, <2>2, <2>3, <2>4
  <2> QED
    BY <1>4, <1>6, <2>5 DEF OnResponse
<1>7. CASE ReadLink(p)
  <2>1. fetch[p].at = "reading" /\ fetch[p].pos >= 1
    BY <1>2, <1>7 DEF ReadLink
  <2>2. \/ fetch' = [fetch EXCEPT ![p] = [fetch[p] EXCEPT !.at = "done"]]
        \/ fetch[p].pos <= Len(Links(p)) /\ fetch' = [fetch EXCEPT ![p] = [fetch[p] EXCEPT !.at = "counting"]]
        \/ fetch[p].pos <= Len(Links(p)) /\ fetch' = [fetch EXCEPT ![p] = [fetch[p] EXCEPT !.pos = fetch[p].pos + 1]]
    <3> DEFINE at(f) == IF f.pos > Len(cfg.links[p]) THEN [f EXCEPT !.at = "done"]
                        ELSE IF ShouldVisit(cfg.links[p][f.pos], count) THEN [f EXCEPT !.at = "counting"]
                        ELSE [f EXCEPT !.pos = f.pos + 1]
    <3>1. fetch' = [fetch EXCEPT ![p] = at(fetch[p])]
      BY <1>7 DEF ReadLink
    <3>3. Len(Links(p)) \in Nat /\ fetch[p].pos \in Nat /\ Links(p) = cfg.links[p]
      BY <1>1, <1>2 DEF Links
    <3>4. CASE fetch[p].pos > Len(Links(p))
      <4>1. at(fetch[p]) = [fetch[p] EXCEPT !.at = "done"]
        BY <3>3, <3>4
      <4> QED
        BY <3>1, <4>1
    <3>5. CASE ~(fetch[p].pos > Len(Links(p)))
      <4>1. fetch[p].pos <= Len(Links(p))
        BY <3>3, <3>5
      <4>2. \/ at(fetch[p]) = [fetch[p] EXCEPT !.at = "counting"]
            \/ at(fetch[p]) = [fetch[p] EXCEPT !.pos = fetch[p].pos + 1]
        BY <3>3, <3>5
      <4> QED
        BY <3>1, <4>1, <4>2
    <3> QED
      BY <3>4, <3>5
  <2>3. /\ [fetch[p] EXCEPT !.at = "done"] \in Request /\ [fetch[p] EXCEPT !.at = "counting"] \in Request
        /\ [fetch[p] EXCEPT !.pos = fetch[p].pos + 1] \in Request
    BY <1>2 DEF Request
  <2>4. /\ [fetch[p] EXCEPT !.at = "done"].at = "done" /\ [fetch[p] EXCEPT !.at = "done"].pos = fetch[p].pos
        /\ [fetch[p] EXCEPT !.at = "counting"].at = "counting"
        /\ [fetch[p] EXCEPT !.at = "counting"].pos = fetch[p].pos
        /\ [fetch[p] EXCEPT !.pos = fetch[p].pos + 1].at = "reading" /\ [fetch[p] EXCEPT !.pos = fetch[p].pos + 1].pos = fetch[p].pos + 1
    BY <1>2, <2>1 DEF Request
  <2>5. /\ fetch[p].pos <= Len(Links(p)) => /\ fetch[p].pos + 1 <= Len(Links(p)) + 1
                                            /\ fetch[p].pos \in 1 .. Len(Links(p))
        /\ fetch[p].pos + 1 >= 1
    BY <1>1, <1>2, <2>1
  <2>6. fetch' \in [Pages -> Request] /\ PlaceTyped'
    BY <1>2, <1>3, <2>2, <2>3, <2>4, <2>5
  <2> QED
    BY <1>4, <1>7, <2>6 DEF ReadLink
<1>8. CASE FollowLink(p)
  <2> DEFINE q == Links(p)[fetch[p].pos]
             r == [fetch[p] EXCEPT !.at = "reading", !.pos = @ + 1]
             read == [fetch EXCEPT ![p] = r]
  <2>1. fetch[p].at = "counting" /\ fetch[p].pos \in 1 .. Len(Links(p)) /\ q \in Pages
    BY <1>1, <1>2, <1>8 DEF FollowLink
  <2>2. r \in Request /\ r.at = "reading" /\ r.pos = fetch[p].pos + 1
    <3>1. fetch[p].pos + 1 \in Nat
      BY <1>2
    <3>2. PICK k : k = fetch[p].pos + 1
      OBVIOUS
    <3>3. r = [fetch[p] EXCEPT !.at = "reading", !.pos = k]
      BY <3>2
    <3> QED
      BY <1>2, <3>1, <3>2, <3>3 DEF Request
  <2>3. read \in [Pages -> Request] /\ \A o \in Pages : read[o] = IF o = p THEN r ELSE fetch[o]
    BY <1>1, <2>2
  <2>4. \/ fetch' = read
        \/ Dispatched(p, q) /\ fetch' = [read EXCEPT ![q] = Sent(fetch[p].depth + 1)]
    BY <1>1, <1>8 DEF FollowLink, Links
  <2> HIDE DEF r, read, q
  <2>5. Dispatched(p, q) => Sent(fetch[p].depth + 1) \in Request
    BY <1>1, <1>2 DEF Dispatched, Sent, Request
  <2>6. fetch' \in [Pages -> Request]
    BY <2>1, <2>3, <2>4, <2>5
  <2>7. ASSUME NEW o \in Pages
        PROVE  /\ fetch'[o].pos <= Len(Links(o)) + 1
               /\ fetch'[o].at = "reading" => fetch'[o].pos >= 1
               /\ fetch'[o].at = "counting" => fetch'[o].pos \in 1 .. Len(Links(o))
    <3>1. fetch'[o] = read[o] \/ fetch'[o] = Sent(fetch[p].depth + 1)
      BY <2>1, <2>3, <2>4
    <3>2. CASE fetch'[o] = Sent(fetch[p].depth + 1)
      BY <1>1, <3>2 DEF Sent
    <3>3. CASE fetch'[o] = read[o] /\ o = p
      BY <1>1, <1>2, <2>1, <2>2, <2>3, <3>3
    <3>4. CASE fetch'[o] = read[o] /\ o # p
      BY <2>3, <3>4 DEF PlaceTyped
    <3> QED
      BY <3>1, <3>2, <3>3, <3>4
  <2>8. PlaceTyped'
    BY <1>0, <2>7 DEF PlaceTyped
  <2>9. count' \in Nat /\ UNCHANGED nodes
    <3>1. count \in Nat
      BY DEF WalkTyped
    <3> QED
      BY <1>8, <3>1 DEF FollowLink
  <2> QED
    BY <1>0, <2>6, <2>8, <2>9 DEF WalkTyped, rodVars, zapVars
<1> QED
  BY <1>5, <1>6, <1>7, <1>8 DEF CollyStep

\* The messages of ZAP's session that are asked for are pages.
LEMMA FirstTyped ==
  ASSUME WalkTyped, NEW n \in Nat
  PROVE  First(n) \in SUBSET Pages
<1> DEFINE m == IF n < Len(zap.msgs) THEN n ELSE Len(zap.msgs)
<1>1. zap.msgs \in Seq(Pages)
  BY DEF WalkTyped, Scan
<1>2. m \in Nat /\ m <= Len(zap.msgs)
  BY <1>1
<1> HIDE DEF m
<1>3. SubSeq(zap.msgs, 1, m) \in Seq(Pages)
  BY <1>1, <1>2
<1>4. PICK s : s = SubSeq(zap.msgs, 1, m)
  OBVIOUS
<1>5. s \in Seq(Pages) /\ First(n) = {s[i] : i \in DOMAIN s}
  BY <1>3, <1>4 DEF First, ToSet, m
<1>6. \A i \in DOMAIN s : s[i] \in Pages
  BY <1>5
<1> QED
  BY <1>5, <1>6

\* ZAP, the reports and Colly's end keep the types.
LEMMA OtherWalkTyped ==
  ASSUME WalkTyped, PlaceTyped,
         CollyWaits \/ ZapStep \/ ReporterEnds \/ SpiderSteps \/ SpiderEnds \/ Report
  PROVE  WalkTyped' /\ PlaceTyped'
<1>0. UNCHANGED <<cfg, ctx, rodVars, collyVars>> /\ Item' = Item /\ Request' = Request
  BY SameJob DEF CollyWaits, ZapStep, ZapStatus, ZapReports, ZapMessages, ReporterEnds, SpiderSteps, SpiderEnds, Report
<1>1. PlaceTyped'
  BY <1>0, SameRest DEF collyVars
<1> DEFINE WalkOK == walk \in {"idle", "setup", "walking", "ok", "ctx", "error"} /\ reporter \in BOOLEAN
           NodesOK == DOMAIN nodes \in SUBSET Pages /\ nodes \in [DOMAIN nodes -> 0 .. cfg.depth]
           PollOK == poll \in {"status", "report", "report and end", "messages"}
           TickOK == tick \in (SUBSET Pages) \union {NoTick}
<1>2. WalkOK' /\ NodesOK' /\ zap' \in Scan /\ PollOK' /\ TickOK' => WalkTyped'
  BY <1>0 DEF WalkTyped, rodVars, collyVars
<1>3. WalkOK /\ NodesOK /\ zap \in Scan /\ PollOK /\ TickOK
  BY DEF WalkTyped
<1>31. /\ UNCHANGED nodes => NodesOK'
       /\ UNCHANGED poll => PollOK'
       /\ UNCHANGED tick => TickOK'
       /\ walk' \in {walk, "ok", "ctx", "error"} /\ reporter' \in {reporter, FALSE} => WalkOK'
  <2>1. UNCHANGED nodes => NodesOK'
    BY <1>0, <1>3
  <2>2. UNCHANGED poll => PollOK'
    BY <1>3
  <2>3. UNCHANGED tick => TickOK'
    BY <1>3
  <2>4. walk' \in {walk, "ok", "ctx", "error"} /\ reporter' \in {reporter, FALSE} => WalkOK'
    BY <1>3
  <2> QED
    BY <2>1, <2>2, <2>3, <2>4
<1> DEFINE Zap == zap \in Scan
<1>32. UNCHANGED zap => Zap'
  BY <1>3
<1>33. WalkOK' /\ NodesOK' /\ Zap' /\ PollOK' /\ TickOK' => WalkTyped'
  BY <1>2
<1> HIDE DEF WalkOK, NodesOK, PollOK, TickOK, Zap
<1>4. CASE CollyWaits \/ ReporterEnds
  <2>1. UNCHANGED <<nodes, poll, zap, tick>>
    BY <1>4 DEF CollyWaits, ReporterEnds, zapVars
  <2>2. walk' \in {walk, "ok", "ctx", "error"} /\ reporter' \in {reporter, FALSE}
    BY <1>4 DEF CollyWaits, ReporterEnds
  <2> QED
    BY <1>1, <1>31, <1>32, <1>33, <2>1, <2>2
<1>5. CASE SpiderSteps
  <2>1. PICK p \in Pages : zap' = [zap EXCEPT !.msgs = Append(@, p)]
    BY <1>5 DEF SpiderSteps
  <2>2. Zap'
    <3>1. zap \in Scan /\ zap.msgs \in Seq(Pages)
      BY <1>3 DEF Scan, Zap
    <3>2. PICK m : m = Append(zap.msgs, p)
      OBVIOUS
    <3>3. m \in Seq(Pages) /\ zap' = [zap EXCEPT !.msgs = m]
      BY <2>1, <3>1, <3>2
    <3> QED
      BY <3>1, <3>3 DEF Scan, Zap
  <2>3. UNCHANGED <<walk, reporter, nodes, poll, tick>>
    BY <1>5 DEF SpiderSteps
  <2> QED
    BY <1>1, <1>31, <1>33, <2>2, <2>3
<1>6. CASE SpiderEnds
  <2>1. Zap'
    BY <1>3, <1>6 DEF SpiderEnds, Scan, Zap
  <2>2. UNCHANGED <<walk, reporter, nodes, poll, tick>>
    BY <1>6 DEF SpiderEnds
  <2> QED
    BY <1>1, <1>31, <1>33, <2>1, <2>2
<1>7. CASE Report
  <2>1. UNCHANGED <<walk, reporter, nodes, poll, zap>>
    BY <1>7 DEF Report, zapVars
  <2>2. TickOK'
    BY <1>3, <1>7 DEF Report, NodesOK, TickOK
  <2> QED
    BY <1>1, <1>31, <1>32, <1>33, <2>1, <2>2
<1>8. CASE ZapStatus
  <2>1. Zap' /\ PollOK'
    BY <1>3, <1>8 DEF ZapStatus, Scan, zapVars, Zap, PollOK
  <2>2. UNCHANGED <<nodes, reporter, tick>> /\ walk' \in {walk, "ok", "ctx", "error"}
    BY <1>8 DEF ZapStatus
  <2> QED
    BY <1>1, <1>31, <1>33, <2>1, <2>2
<1>9. CASE ZapReports
  <2>1. tick' \in SUBSET Pages /\ poll' \in {"status", "messages"}
    BY <1>9, EntryAssumption, FirstTyped DEF ZapReports
  <2>2. TickOK' /\ PollOK'
    BY <2>1 DEF TickOK, PollOK
  <2>3. UNCHANGED <<nodes, walk, reporter, zap>>
    BY <1>9 DEF ZapReports
  <2> QED
    BY <1>1, <1>31, <1>32, <1>33, <2>2, <2>3
<1>10. CASE ZapMessages
  <2>1. cfg.limit \in Nat /\ 0 \in 0 .. cfg.depth
    BY WalkParts
  <2>2. First(cfg.limit) \in SUBSET Pages
    BY <2>1, FirstTyped
  <2>3. NodesOK'
    BY <1>0, <1>3, <1>10, <2>1, <2>2 DEF ZapMessages, AsNodes, NodesOK
  <2>4. UNCHANGED <<poll, zap, reporter, tick>> /\ walk' \in {walk, "ok", "ctx", "error"}
    BY <1>10 DEF ZapMessages, zapVars
  <2> QED
    BY <1>1, <1>31, <1>32, <1>33, <2>3, <2>4
<1> QED
  BY <1>4, <1>5, <1>6, <1>7, <1>8, <1>9, <1>10 DEF ZapStep

\* Every step of an engine keeps the types.
LEMMA EngineTyped ==
  ASSUME Typed, Engine
  PROVE  Typed'
<1>1. WalkTyped' /\ PlaceTyped'
  BY SetupTyped, RodNextTyped, RodVisitsTyped, CollyTyped, OtherWalkTyped
  DEF Typed, Engine, Walks, WalkNext, EngineStep
<1>2. RowTyped'
  BY DEF Typed, Engine, Walks, RowTyped
<1> QED
  BY <1>1, <1>2 DEF Typed

\* The steps outside the engine change at most one of its variables, or end it.
LEMMA HandlersTyped ==
  ASSUME Typed, Goroutine \/ WriteReport \/ Cancel \/ CancelWrites \/ ReadForPlan \/ CreatePlan \/ Crash
  PROVE  Typed'
<1>0. /\ UNCHANGED <<cfg, rodVars, collyVars, zap, poll>> /\ Item' = Item /\ Request' = Request
  BY SameJob
  DEF Goroutine, Start, Register, Mark, FetchSpec, Returned, Ended, StoreGraph, Unregister, WriteReport,
      Cancel, CancelWrites, ReadForPlan, CreatePlan, Crash, walkVars, zapVars, collyVars, rodVars
<1>1. PlaceTyped'
  BY <1>0, SameRest DEF Typed, collyVars
<1>2. /\ ctx' \in BOOLEAN /\ reporter' \in BOOLEAN /\ tick' \in {tick, NoTick} /\ walk' \in {walk, "setup", "idle"}
      /\ nodes' = nodes \/ nodes' = AsNodes(Pages)
  BY DEF Goroutine, Start, Register, Mark, FetchSpec, Returned, Ended, StoreGraph, Unregister, WriteReport,
         Cancel, CancelWrites, ReadForPlan, CreatePlan, Crash, walkVars, Typed, WalkTyped, RowTyped
<1>3. 0 \in 0 .. cfg.depth
  BY WalkParts DEF Typed
<1>4. DOMAIN nodes' \in SUBSET Pages /\ nodes' \in [DOMAIN nodes' -> 0 .. cfg.depth]
  BY <1>2, <1>3 DEF AsNodes, Typed, WalkTyped
<1>5. WalkTyped'
  BY <1>0, <1>2, <1>4 DEF Typed, WalkTyped, rodVars, collyVars
<1>6. RowTyped'
  <2> USE DEF Typed, RowTyped
  <2>1. CASE Start \/ Register \/ Mark \/ FetchSpec
    BY <2>1 DEF Start, Register, Mark, FetchSpec, Status, Row, Statuses, Steps, handlers
  <2>2. CASE Returned \/ Ended \/ StoreGraph \/ Unregister
    <3>1. DOMAIN nodes \in SUBSET Pages
      BY DEF WalkTyped
    <3> QED
      BY <2>2, <3>1 DEF Returned, Ended, StoreGraph, Unregister, Status, Row, Statuses, Steps, Ends, handlers
  <2>3. CASE WriteReport
    <3>1. tick \in SUBSET Pages
      BY <2>3 DEF WriteReport, Busy, WalkTyped
    <3> QED
      BY <2>3, <3>1 DEF WriteReport, Row, handlers
  <2>4. CASE Cancel
    <3>1. row' = row /\ planning' = planning /\ plans' = plans /\ up' = up /\ pc' = pc
      BY <2>4 DEF Cancel
    <3>2. registered' \in BOOLEAN /\ cancelling' \in BOOLEAN /\ cancels' = cancels + 1 /\ cancels \in Nat
      BY <2>4 DEF Cancel
    <3> QED
      BY <3>1, <3>2
  <2>41. CASE CancelWrites
    <3>1. [row EXCEPT !.status = "cancelled"] \in Row
      BY DEF Row, Statuses, Ends
    <3> QED
      BY <2>41, <3>1 DEF CancelWrites, Status
  <2>5. CASE ReadForPlan
    BY <2>5 DEF ReadForPlan
  <2>6. CASE CreatePlan
    <3>1. (IF planning.spec THEN Pages ELSE planning.pages) \in SUBSET Pages
      BY DEF Row
    <3>2. NoRow \in Row
      BY DEF NoRow, Row, Statuses
    <3> QED
      BY <2>6, <3>1, <3>2 DEF CreatePlan
  <2>7. CASE Crash
    BY <2>7 DEF Crash, NoRow, Row, Statuses, Steps
  <2> QED
    BY <2>1, <2>2, <2>3, <2>4, <2>41, <2>5, <2>6, <2>7 DEF Goroutine
<1> QED
  BY <1>1, <1>5, <1>6 DEF Typed

\* Every step keeps the types.
LEMMA TypedStep == Typed /\ [Next]_vars => Typed'
<1> SUFFICES ASSUME Typed, [Next]_vars PROVE Typed'
  OBVIOUS
<1>1. CASE UNCHANGED vars
  <2>1. UNCHANGED walkVars /\ Item' = Item /\ Request' = Request
    BY <1>1, SameJob DEF vars, walkVars
  <2>2. WalkTyped'
    BY <2>1 DEF walkVars, Typed, WalkTyped
  <2>3. PlaceTyped'
    BY <2>1, SameRest DEF walkVars, Typed
  <2>4. RowTyped'
    BY <1>1 DEF vars, Typed, RowTyped
  <2> QED
    BY <2>2, <2>3, <2>4 DEF Typed
<1> QED
  BY <1>1, EngineTyped, HandlersTyped DEF Next

\* The types imply the type invariant of Crawls.
LEMMA TypedIsTypeOK == Typed => TypeOK
<1> SUFFICES ASSUME Typed PROVE TypeOK
  OBVIOUS
<1>1. \A p \in Pages : fetch[p].pos \in 0 .. Len(Links(p)) + 1
  <2> SUFFICES ASSUME NEW p \in Pages PROVE fetch[p].pos \in 0 .. Len(Links(p)) + 1
    OBVIOUS
  <2>1. fetch[p].pos \in Nat /\ fetch[p].pos <= Len(Links(p)) + 1 /\ Len(Links(p)) \in Nat
    BY TypedParts, JobTyped DEF Typed, WalkTyped
  <2> QED
    BY <2>1
<1>2. \A i \in DOMAIN plans : plans[i] \subseteq Pages
  BY DEF Typed, RowTyped
<1>3. row.status \in Statuses /\ row.pages \subseteq Pages /\ row.spec \in BOOLEAN
  BY DEF Typed, RowTyped, Row
<1> QED
  BY <1>1, <1>2, <1>3 DEF TypeOK, Typed, WalkTyped, RowTyped, Links, Steps

\* Every variable has its type, for any sites, engines and handlers.
THEOREM TypeCorrect == Spec => []TypeOK
  BY InitTyped, TypedStep, TypedIsTypeOK, PTL DEF Spec

-----------------------------------------------------------------------------
(* The goroutine of the crawl, its engine and the row                      *)

\* Nothing has started at first.
LEMMA InitPlace == Init => PlaceInv /\ RowInv
<1> SUFFICES ASSUME Init PROVE PlaceInv /\ RowInv
  OBVIOUS
<1>1. Fresh /\ walk = "idle" /\ ~reporter /\ ~Busy
  BY DEF Init, WalkInit, Fresh, Busy
<1>2. PlaceInv
  BY <1>1 DEF Init, PlaceInv, Early, Late
<1>3. RowInv
  BY DEF Init, RowInv, NoRow, WalkInit, PlanIsWhole
<1> QED
  BY <1>2, <1>3

\* An engine works while the goroutine of the crawl waits for it; its walk
\* ends by itself only while no report is being written.
LEMMA EngineWorks ==
  ASSUME Setup \/ RodNext \/ RodVisits \/ CollyWaits \/ ZapStep \/ \E p \in Pages : CollyStep(p)
  PROVE  /\ walk \in {"setup", "walking"} /\ walk' \in {"walking", "ok", "ctx", "error"} /\ UNCHANGED <<cfg, ctx>>
         /\ walk' = "ok" => tick' = NoTick
<1>1. CASE Setup
  BY <1>1 DEF Setup
<1>2. CASE RodNext
  BY <1>2 DEF RodNext, RodStops, RodTakes, Walking, Busy
<1>3. CASE RodVisits
  BY <1>3 DEF RodVisits, Walking
<1>4. CASE CollyWaits
  BY <1>4 DEF CollyWaits, Walking, Busy
<1>5. CASE ZapStep
  BY <1>5 DEF ZapStep, ZapStatus, ZapReports, ZapMessages, Walking, Busy
<1>6. CASE \E p \in Pages : CollyStep(p)
  <2>1. PICK p \in Pages : CollyStep(p)
    BY <1>6
  <2> QED
    BY <2>1 DEF CollyStep, OnRequest, OnResponse, ReadLink, FollowLink, Walking
<1> QED
  BY <1>1, <1>2, <1>3, <1>4, <1>5, <1>6

\* A step of an engine keeps goroutine, engine and row together.
LEMMA EnginePlace ==
  ASSUME Typed, PlaceInv, RowInv, Engine
  PROVE  PlaceInv' /\ RowInv'
<1>0. UNCHANGED <<row, plans, registered, pc, cancelling, cancels, planning, up>>
  BY DEF Engine, Walks
<1>1. CASE Setup \/ RodNext \/ RodVisits \/ CollyWaits \/ ZapStep \/ \E p \in Pages : CollyStep(p)
  <2>1. /\ walk \in {"setup", "walking"} /\ walk' \in {"walking", "ok", "ctx", "error"} /\ UNCHANGED <<cfg, ctx>>
        /\ walk' = "ok" => tick' = NoTick
    BY <1>1, EngineWorks
  <2>2. pc = "crawl" /\ ~IsImport /\ row.status \in {"crawling", "cancelled"}
    BY <2>1 DEF PlaceInv
  <2>3. ~row.spec /\ planning = NoRow /\ plans = <<>>
    BY <2>2 DEF RowInv, Late
  <2>4. PlaceInv'
    BY <1>0, <2>1, <2>2 DEF PlaceInv, Early, Late, IsImport
  <2>5. RowInv'
    BY <1>0, <2>1, <2>2, <2>3 DEF RowInv, Busy, PlanIsWhole
  <2> QED
    BY <2>4, <2>5
<1>2. CASE SpiderSteps \/ SpiderEnds
  <2>1. UNCHANGED <<cfg, walk, nodes, visited, queue, loading, fetch, count, reporter, tick>>
    BY <1>2 DEF SpiderSteps, SpiderEnds, rodVars, collyVars
  <2>2. PlaceInv'
    BY <1>0, <2>1 DEF PlaceInv, Fresh, Early, Late, IsImport, Busy
  <2>3. RowInv'
    BY <1>0, <2>1 DEF RowInv, Busy, Whole, Found, IsImport, PlanIsWhole, NoRow
  <2> QED
    BY <2>2, <2>3
<1>3. CASE Report \/ ReporterEnds
  <2>1. /\ reporter /\ UNCHANGED <<cfg, ctx, walk, nodes>>
        /\ tick' = tick \/ tick' = DOMAIN nodes
    BY <1>3 DEF Report, ReporterEnds
  <2>2. pc \notin Early /\ walk # "setup" /\ ~IsImport
    BY <2>1 DEF PlaceInv, Fresh
  <2>3. PlaceInv'
    BY <1>0, <2>1, <2>2 DEF PlaceInv, Early, Late, IsImport
  <2>4. RowInv'
    BY <1>0, <2>1 DEF RowInv, Busy, Whole, Found, IsImport, PlanIsWhole, NoRow
  <2> QED
    BY <2>3, <2>4
<1> QED
  BY <1>1, <1>2, <1>3 DEF Engine, Walks, WalkNext, EngineStep

\* What a row or a plan has been made of depends on its pages alone.
LEMMA RowIs ==
  ASSUME NEW r \in Row
  PROVE  /\ \A s : /\ Found([r EXCEPT !.status = s]) = Found(r) /\ [r EXCEPT !.status = s].spec = r.spec
                   /\ [r EXCEPT !.status = s].status = s
         /\ \A s : [r EXCEPT !.pages = s].spec = r.spec /\ [r EXCEPT !.pages = s].status = r.status
         /\ \A s : Found([r EXCEPT !.pages = s]) = IF r.spec THEN Pages ELSE s
         /\ [r EXCEPT !.spec = TRUE].spec /\ [r EXCEPT !.spec = TRUE].status = r.status
         /\ Found([r EXCEPT !.spec = TRUE]) = Pages
  BY DEF Row, Found

\* So does a step of the crawl's goroutine.
LEMMA GoroutinePlace ==
  ASSUME Typed, PlaceInv, RowInv, Goroutine
  PROVE  PlaceInv' /\ RowInv'
<1>0. /\ row \in Row /\ UNCHANGED <<plans, planning, up, cfg, reporter, tick, visited, queue, loading, fetch, count>>
      /\ IsImport' = IsImport
  BY DEF Typed, RowTyped, Goroutine, Start, Register, Mark, FetchSpec, Returned, Ended, StoreGraph, Unregister,
         handlers, walkVars, rodVars, collyVars, IsImport
<1> DEFINE Same == UNCHANGED <<walk, nodes>>
<1>1. CASE Start
  <2>1. pc = "none" /\ pc' \in {"register", "mark"} /\ Same /\ (pc' = "register" => ~IsImport)
    BY <1>1 DEF Start, walkVars, IsImport
  <2>2. ~row'.spec /\ row'.status = "pending" /\ planning = NoRow /\ plans = <<>>
    BY <1>0, <1>1, RowIs DEF Start, RowInv, Early, Late
  <2>3. PlaceInv'
    BY <1>0, <2>1 DEF PlaceInv, Fresh, Early, Late, Busy
  <2>4. RowInv'
    BY <1>0, <2>1, <2>2 DEF RowInv, PlaceInv, Early, PlanIsWhole
  <2> QED
    BY <2>3, <2>4
<1>2. CASE Register
  <2>1. pc = "register" /\ pc' = "mark" /\ Same /\ row' = row
    BY <1>2 DEF Register, walkVars
  <2>2. ~row.spec /\ row.status # "completed" /\ planning = NoRow /\ plans = <<>>
    BY <2>1 DEF RowInv, Early, Late
  <2>3. PlaceInv'
    BY <1>0, <2>1 DEF PlaceInv, Fresh, Early, Late, Busy
  <2>4. RowInv'
    BY <1>0, <2>1, <2>2 DEF RowInv, PlaceInv, Early, PlanIsWhole
  <2> QED
    BY <2>3, <2>4
<1>3. CASE Mark
  <2>1. /\ pc = "mark" /\ UNCHANGED nodes
        /\ \/ IsImport /\ pc' = "fetch" /\ UNCHANGED walk
           \/ ~IsImport /\ pc' = "crawl" /\ walk' = "setup"
    BY <1>3 DEF Mark, IsImport
  <2>2. ~row'.spec /\ row'.status = "crawling" /\ planning = NoRow /\ plans = <<>>
    BY <1>0, <1>3, RowIs DEF Mark, Status, RowInv, Early, Late
  <2>3. PlaceInv'
    BY <1>0, <2>1, <2>2 DEF PlaceInv, Fresh, Early, Late, Busy
  <2>4. RowInv'
    BY <1>0, <2>1, <2>2 DEF RowInv, PlaceInv, Early, PlanIsWhole
  <2> QED
    BY <2>3, <2>4
<1>4. CASE FetchSpec
  <2>1. pc = "fetch" /\ IsImport /\ walk = "idle" /\ UNCHANGED walk
    BY <1>4 DEF FetchSpec, PlaceInv
  <2>2. ~row.spec /\ row.status # "completed" /\ planning = NoRow /\ plans = <<>>
    BY <2>1 DEF RowInv, Early, Late
  <2>3. \/ pc' = "over" /\ UNCHANGED nodes /\ ~row'.spec /\ row'.status = "failed"
        \/ pc' = "graph" /\ DOMAIN nodes' = Pages /\ row'.spec /\ row'.status = row.status
    <3>1. CASE row' = [row EXCEPT !.status = "failed"] /\ pc' = "over" /\ UNCHANGED nodes
      BY <1>0, <2>2, <3>1, RowIs
    <3>2. CASE row' = [row EXCEPT !.spec = TRUE] /\ pc' = "graph" /\ nodes' = AsNodes(Pages)
      <4>1. DOMAIN nodes' = Pages
        BY <3>2 DEF AsNodes
      <4>2. row'.spec = TRUE /\ row'.status = row.status
        BY <1>0, <3>2 DEF Row
      <4> QED
        BY <3>2, <4>1, <4>2
    <3> QED
      BY <1>4, <3>1, <3>2 DEF FetchSpec
  <2>4. PlaceInv'
    BY <1>0, <2>1, <2>3 DEF PlaceInv, Early, Late, Busy
  <2>5. RowInv'
    BY <1>0, <2>1, <2>2, <2>3 DEF RowInv, PlaceInv, Early, PlanIsWhole
  <2> QED
    BY <2>4, <2>5
<1>5. CASE Returned
  <2>1. /\ pc = "crawl" /\ Same /\ row' = row /\ walk \in {"ok", "error", "ctx"}
        /\ pc' \in {"cancelled", "failed", "graph"} /\ (pc' = "graph" => walk = "ok")
    BY <1>5 DEF Returned, walkVars
  <2>2. ~row.spec /\ row.status # "completed" /\ planning = NoRow /\ plans = <<>> /\ ~IsImport
    BY <2>1 DEF RowInv, PlaceInv, Late
  <2>3. PlaceInv'
    BY <1>0, <2>1, <2>2 DEF PlaceInv, Early, Late, Busy
  <2>4. RowInv'
    BY <1>0, <2>1, <2>2 DEF RowInv, PlanIsWhole, Busy
  <2> QED
    BY <2>3, <2>4
<1>6. CASE Ended
  <2>1. /\ pc \in {"cancelled", "failed", "completed"} /\ Same /\ row'.status = pc /\ row'.spec = row.spec
        /\ Found(row)' = Found(row)
        /\ pc' = IF IsImport THEN "over" ELSE "unregister"
    BY <1>0, <1>6, RowIs DEF Ended, walkVars, Status, IsImport, Found
  <2>2. planning = NoRow /\ plans = <<>> /\ walk \notin {"setup", "walking"}
    BY <2>1 DEF RowInv, PlaceInv, Late
  <2>3. PlaceInv'
    BY <1>0, <2>1, <2>2 DEF PlaceInv, Early, Late, Busy
  <2>4. RowInv'
    BY <1>0, <2>1, <2>2 DEF RowInv, PlanIsWhole, Busy, Whole, Early, Late
  <2> QED
    BY <2>3, <2>4
<1>7. CASE StoreGraph
  <2>1. /\ pc = "graph" /\ pc' = "completed" /\ Same /\ row'.status = row.status /\ row'.spec = row.spec
        /\ Found(row)' = IF row.spec THEN Pages ELSE DOMAIN nodes
    BY <1>0, <1>7, RowIs DEF StoreGraph, walkVars, Found
  <2>2. planning = NoRow /\ plans = <<>> /\ walk \notin {"setup", "walking"} /\ row.status # "completed"
    BY <2>1 DEF RowInv, PlaceInv, Late
  <2>3. PlaceInv'
    BY <1>0, <2>1, <2>2 DEF PlaceInv, Early, Late, Busy
  <2>4. RowInv'
    BY <1>0, <2>1, <2>2 DEF RowInv, PlanIsWhole, Busy, Whole, Early, Late
  <2> QED
    BY <2>3, <2>4
<1>8. CASE Unregister
  <2>1. pc = "unregister" /\ pc' = "over" /\ Same /\ row' = row
    BY <1>8 DEF Unregister
  <2>2. walk \notin {"setup", "walking"} /\ ~IsImport
    BY <2>1 DEF PlaceInv
  <2>3. PlaceInv'
    BY <1>0, <2>1, <2>2 DEF PlaceInv, Early, Late, Busy
  <2>4. RowInv'
    BY <1>0, <2>1, <2>2 DEF RowInv, PlanIsWhole, Busy, Whole, Early, Late, Found, NoRow
  <2> QED
    BY <2>3, <2>4
<1> QED
  BY <1>1, <1>2, <1>3, <1>4, <1>5, <1>6, <1>7, <1>8 DEF Goroutine

\* So do the handlers, the reports and a crash.
LEMMA HandlersPlace ==
  ASSUME Typed, PlaceInv, RowInv, WriteReport \/ Cancel \/ CancelWrites \/ ReadForPlan \/ CreatePlan \/ Crash
  PROVE  PlaceInv' /\ RowInv'
<1>0. /\ row \in Row /\ UNCHANGED <<nodes, cfg, visited, queue, loading, fetch, count>>
      /\ IsImport' = IsImport /\ plans \in Seq(SUBSET Pages)
  BY DEF Typed, RowTyped, WriteReport, Cancel, CancelWrites, ReadForPlan, CreatePlan, Crash,
         walkVars, rodVars, collyVars, IsImport
<1>1. CASE WriteReport
  <2>1. /\ Busy /\ up /\ UNCHANGED <<walk, reporter, pc, plans, planning, up>> /\ tick' = NoTick
        /\ row'.status = row.status /\ row'.spec = row.spec
        /\ Found(row)' = IF row.spec THEN Pages ELSE tick
    BY <1>0, <1>1, RowIs DEF WriteReport, Found, handlers
  <2>2. pc \notin Early /\ walk # "setup" /\ ~IsImport /\ ~row.spec /\ pc # "dead"
    BY <2>1 DEF PlaceInv, RowInv, Fresh, Busy
  <2>3. walk = "ok" => tick = DOMAIN nodes
    BY <2>1 DEF RowInv
  <2>4. PlaceInv'
    BY <1>0, <2>1, <2>2 DEF PlaceInv, Early, Late
  <2>5. RowInv'
    BY <1>0, <2>1, <2>2, <2>3 DEF RowInv, PlanIsWhole, Busy, Whole, Late, NoRow, Found
  <2> QED
    BY <2>4, <2>5
<1>2. CASE Cancel
  <2>1. UNCHANGED <<walk, reporter, tick, row, pc, plans, planning, up>>
    BY <1>2 DEF Cancel
  <2>2. PlaceInv'
    BY <1>0, <2>1 DEF PlaceInv, Fresh, Early, Late, Busy
  <2>3. RowInv'
    BY <1>0, <2>1 DEF RowInv, PlanIsWhole, Busy, Whole, Found, NoRow, Early, Late
  <2> QED
    BY <2>2, <2>3
<1>3. CASE CancelWrites
  <2>1. /\ UNCHANGED <<walk, reporter, tick, pc, plans, planning, up>>
        /\ row'.status = "cancelled" /\ row'.spec = row.spec /\ Found(row)' = Found(row)
    BY <1>0, <1>3, RowIs DEF CancelWrites, Status, walkVars, Found
  <2>2. PlaceInv'
    BY <1>0, <2>1 DEF PlaceInv, Fresh, Early, Late, Busy
  <2>3. RowInv'
    BY <1>0, <2>1 DEF RowInv, PlanIsWhole, Busy, Whole, Found, NoRow, Early, Late
  <2> QED
    BY <2>2, <2>3
<1>4. CASE ReadForPlan
  <2>1. UNCHANGED <<walk, reporter, tick, row, pc, plans, up>> /\ row.status = "completed" /\ planning' = row
    BY <1>4 DEF ReadForPlan, walkVars
  <2>2. PlaceInv'
    BY <1>0, <2>1 DEF PlaceInv, Fresh, Early, Late, Busy
  <2>3. RowInv'
    BY <1>0, <2>1 DEF RowInv, PlanIsWhole, Busy, Whole, Found, NoRow, Early, Late
  <2> QED
    BY <2>2, <2>3
<1>5. CASE CreatePlan
  <2>1. /\ UNCHANGED <<walk, reporter, tick, row, pc, up>> /\ planning # NoRow /\ planning' = NoRow
        /\ plans' = Append(plans, Found(planning))
    BY <1>5 DEF CreatePlan, walkVars, Found
  <2>2. Found(planning) = DOMAIN nodes /\ pc \in Late
    BY <2>1 DEF RowInv, Whole
  <2>3. PlaceInv'
    BY <1>0, <2>1 DEF PlaceInv, Fresh, Early, Late, Busy
  <2>4. PlanIsWhole'
    <3>1. PlanIsWhole
      BY DEF RowInv
    <3>2. PICK x : x = Found(planning)
      OBVIOUS
    <3>3. x \in SUBSET Pages
      BY <2>2, <3>2 DEF Typed, WalkTyped
    <3>4. plans' = Append(plans, x) /\ x = DOMAIN nodes' /\ DOMAIN nodes' = DOMAIN nodes
      BY <1>0, <2>1, <2>2, <3>2
    <3>5. \A i \in DOMAIN plans' : (i \in DOMAIN plans /\ plans'[i] = plans[i]) \/ plans'[i] = x
      BY <1>0, <3>3, <3>4
    <3> QED
      BY <3>1, <3>4, <3>5 DEF PlanIsWhole
  <2>5. RowInv'
    BY <1>0, <2>1, <2>2, <2>4 DEF RowInv, Busy, Whole, Found, Early, Late
  <2> QED
    BY <2>3, <2>5
<1>6. CASE Crash
  <2>1. /\ UNCHANGED <<row, plans>> /\ pc' = "dead" /\ walk' = "idle" /\ reporter' = FALSE /\ tick' = NoTick
        /\ planning' = NoRow /\ up' = FALSE
    BY <1>6 DEF Crash
  <2>2. PlaceInv'
    BY <1>0, <2>1 DEF PlaceInv, Early, Late, Busy
  <2>3. RowInv'
    BY <1>0, <2>1 DEF RowInv, PlanIsWhole, Busy, Whole, Found, Early, Late
  <2> QED
    BY <2>2, <2>3
<1> QED
  BY <1>1, <1>2, <1>3, <1>4, <1>5, <1>6

\* The invariant of the row, which every step keeps.
RowsInv == Typed /\ PlaceInv /\ RowInv

\* Every step keeps the row's invariant.
LEMMA RowsStep == RowsInv /\ [Next]_vars => RowsInv'
<1> SUFFICES ASSUME RowsInv, [Next]_vars PROVE RowsInv'
  OBVIOUS
<1>1. Typed'
  BY TypedStep DEF RowsInv
<1>2. CASE UNCHANGED vars
  <2>1. PlaceInv'
    BY <1>2 DEF vars, walkVars, rodVars, collyVars, RowsInv, PlaceInv, Fresh, Early, Late, IsImport, Busy
  <2>2. RowInv'
    BY <1>2 DEF vars, walkVars, RowsInv, RowInv, PlanIsWhole, Busy, Whole, Found, NoRow, Early, Late, IsImport
  <2> QED
    BY <1>1, <2>1, <2>2 DEF RowsInv
<1>3. CASE Next
  BY <1>1, <1>3, EnginePlace, GoroutinePlace, HandlersPlace DEF Next, RowsInv
<1> QED
  BY <1>2, <1>3

\* The row's invariant always holds.
LEMMA RowsHold == Spec => []RowsInv
<1>1. Init => RowsInv
  BY InitTyped, InitPlace DEF RowsInv
<1> QED
  BY <1>1, RowsStep, PTL DEF Spec

\* Every plan made of a crawl has all the crawl found, whatever reports are
\* being written, and however often the crawl is cancelled.
THEOREM PlansAreWhole == Spec => []PlanIsWhole
<1>1. RowsInv => PlanIsWhole
  BY DEF RowsInv, RowInv
<1> QED
  BY <1>1, RowsHold, PTL

\* A crawl that was cancelled while its engine ran goes only where the row is
\* not made completed or failed.
Heard == ctx /\ pc \in {"crawl", "cancelled", "unregister", "over", "dead"} /\ row.status \notin {"completed", "failed"}

\* A crawl that was cancelled in time stays so.
LEMMA HeardStep == RowsInv /\ Heard /\ [Next]_vars => Heard'
<1> SUFFICES ASSUME RowsInv, Heard, [Next]_vars PROVE Heard'
  OBVIOUS
<1>0. row \in Row
  BY DEF RowsInv, Typed, RowTyped
<1>1. CASE UNCHANGED vars
  BY <1>1 DEF vars, walkVars, Heard
<1>2. CASE Engine
  <2>1. ctx' = ctx
    <3>1. CASE SpiderSteps \/ SpiderEnds \/ Report \/ ReporterEnds
      BY <3>1 DEF SpiderSteps, SpiderEnds, Report, ReporterEnds
    <3> QED
      BY <1>2, <3>1, EngineWorks DEF Engine, Walks, WalkNext, EngineStep
  <2> QED
    BY <1>2, <2>1 DEF Engine, Walks, Heard
<1>3. CASE Goroutine
  <2>1. CASE Returned
    BY <2>1 DEF Returned, walkVars, Heard
  <2>2. CASE Ended
    <3>1. pc = "cancelled" /\ row'.status = pc /\ ctx' = ctx /\ pc' \in {"over", "unregister"}
      BY <1>0, <2>2, RowIs DEF Ended, Status, walkVars, Heard
    <3> QED
      BY <3>1 DEF Heard
  <2>3. CASE Unregister
    BY <2>3 DEF Unregister, Heard
  <2>4. CASE Start \/ Register \/ Mark \/ FetchSpec \/ StoreGraph
    BY <2>4 DEF Start, Register, Mark, FetchSpec, StoreGraph, Heard
  <2> QED
    BY <1>3, <2>1, <2>2, <2>3, <2>4 DEF Goroutine
<1>4. CASE WriteReport
  BY <1>0, <1>4, RowIs DEF WriteReport, Heard
<1>5. CASE Cancel
  BY <1>5 DEF Cancel, Heard
<1>6. CASE CancelWrites
  BY <1>0, <1>6, RowIs DEF CancelWrites, Status, walkVars, Heard
<1>7. CASE ReadForPlan \/ CreatePlan
  BY <1>7 DEF ReadForPlan, CreatePlan, walkVars, Heard
<1>8. CASE Crash
  BY <1>8 DEF Crash, Heard
<1> QED
  BY <1>1, <1>2, <1>3, <1>4, <1>5, <1>6, <1>7, <1>8 DEF Next

\* A crawl whose context is cancelled while its engine runs is never reported
\* completed or failed, for any site, engine and number of requests.
THEOREM CancelHeard == Spec => CancelIsHeard
<1>1. RowsInv /\ ctx /\ pc = "crawl" => Heard
  BY DEF RowsInv, PlaceInv, Heard
<1>2. Heard => row.status \notin {"completed", "failed"}
  BY DEF Heard
<1> QED
  BY <1>1, <1>2, HeardStep, RowsHold, PTL DEF Spec, CancelIsHeard

-----------------------------------------------------------------------------
(* Pages are found one at a time, along links, within the limits           *)

\* Where the engines' variables change.
LEMMA WalkSteps ==
  ASSUME RowsInv, [Next]_vars
  PROVE  /\ cfg' = cfg
         /\ Walking("rod")' =>
              \/ Setup /\ cfg.engine = "rod"
              \/ RodNext \/ RodVisits
              \/ Walking("rod") /\ UNCHANGED <<nodes, rodVars>>
         /\ Walking("colly")' =>
              \/ Setup /\ cfg.engine = "colly"
              \/ \E p \in Pages : CollyStep(p)
              \/ Walking("colly") /\ UNCHANGED <<nodes, collyVars>> /\ (ctx => ctx')
         /\ \/ RodVisits \/ \E p \in Pages : CollyStep(p)
            \/ UNCHANGED nodes \/ cfg.engine \notin {"rod", "colly"}
<1>1. CASE UNCHANGED vars
  BY <1>1 DEF vars, walkVars, Walking, rodVars, collyVars
<1>2. CASE Setup
  BY <1>2 DEF Setup, Walking
<1>3. CASE RodNext
  BY <1>3 DEF RodNext, Walking
<1>4. CASE RodVisits
  BY <1>4 DEF RodVisits, Walking
<1>5. CASE CollyWaits
  BY <1>5 DEF CollyWaits, Walking
<1>6. CASE \E p \in Pages : CollyStep(p)
  <2>1. PICK p \in Pages : CollyStep(p)
    BY <1>6
  <2> QED
    BY <1>6, <2>1 DEF CollyStep, OnRequest, OnResponse, ReadLink, FollowLink, Walking
<1>7. CASE ZapStep
  BY <1>7 DEF ZapStep, ZapStatus, ZapReports, ZapMessages, Walking
<1>8. CASE SpiderSteps \/ SpiderEnds \/ Report \/ ReporterEnds
  BY <1>8 DEF SpiderSteps, SpiderEnds, Report, ReporterEnds, Walking
<1>9. CASE Start \/ Register \/ Returned \/ Ended \/ StoreGraph \/ CancelWrites \/ ReadForPlan \/ CreatePlan
  BY <1>9 DEF Start, Register, Returned, Ended, StoreGraph, CancelWrites, ReadForPlan, CreatePlan,
              walkVars, Walking, rodVars, collyVars
<1>10. CASE Mark \/ WriteReport \/ Crash
  BY <1>10 DEF Mark, WriteReport, Crash, Walking
<1>101. CASE Unregister
  BY <1>101 DEF Unregister, Walking
<1>102. CASE Cancel
  <2>1. UNCHANGED <<cfg, walk, nodes, rodVars, collyVars>> /\ (ctx => ctx')
    BY <1>102 DEF Cancel
  <2> QED
    BY <2>1 DEF Walking
<1>11. CASE FetchSpec
  <2>1. cfg.engine = "openapi"
    BY <1>11 DEF FetchSpec, RowsInv, PlaceInv, IsImport
  <2> QED
    BY <1>11, <2>1 DEF FetchSpec, Walking
<1> QED
  BY <1>1, <1>2, <1>3, <1>4, <1>5, <1>6, <1>7, <1>8, <1>9, <1>10, <1>101, <1>102, <1>11
  DEF Next, Engine, Walks, WalkNext, EngineStep, Goroutine

\* What a sequence has as a set.
LEMMA ToSetIs ==
  ASSUME NEW S, NEW s \in Seq(S)
  PROVE  \A x : x \in ToSet(s) <=> \E i \in 1 .. Len(s) : s[i] = x
<1>1. DOMAIN s = 1 .. Len(s)
  OBVIOUS
<1> QED
  BY <1>1 DEF ToSet

\* The pages asked for stay what they are while the graph grows.
LegitNext(p, d) ==
  \/ p = Entry /\ d = 0
  \/ /\ p \notin cfg'.off
     /\ \E q \in DOMAIN nodes' : p \in ToSet(cfg'.links[q]) /\ nodes'[q] + 1 = d

\* A page stays legitimately asked for while the graph grows.
LEMMA LegitGrows ==
  ASSUME UNCHANGED cfg, NEW p, NEW d, p \notin DOMAIN nodes,
         nodes' = nodes \/ nodes' = AddNode(p, d)
  PROVE  /\ \A q \in DOMAIN nodes : q \in DOMAIN nodes' /\ nodes'[q] = nodes[q]
         /\ \A q, e : Legit(q, e) => LegitNext(q, e)
<1>1. \A q \in DOMAIN nodes : q \in DOMAIN nodes' /\ nodes'[q] = nodes[q]
  BY DEF AddNode
<1> QED
  BY <1>1 DEF Legit, LegitNext, Links

\* Rod starts with its invariant.
LEMMA RodStarts ==
  ASSUME RowsInv, Setup, cfg.engine = "rod", Walking("rod")'
  PROVE  RodInv'
<1>1. /\ cfg' = cfg /\ DOMAIN nodes' = {} /\ visited' = {} /\ loading' = None
      /\ queue' = <<[page |-> Entry, depth |-> 0]>>
  BY DEF RowsInv, PlaceInv, Fresh, Setup, NoNodes, Walking
<1>2. \A i \in 1 .. Len(queue') : queue'[i] = [page |-> Entry, depth |-> 0]
  BY <1>1
<1>3. cfg.limit \in Nat
  BY WalkParts DEF RowsInv, Typed
<1> QED
  BY <1>1, <1>2, <1>3, FS_EmptySet DEF RodInv, Legit

\* Rod's loop keeps it.
LEMMA RodNextKeeps ==
  ASSUME RowsInv, RodInv, RodNext, Walking("rod")'
  PROVE  RodInv'
<1>0. UNCHANGED <<cfg, nodes>> /\ loading = None /\ RodTakes /\ walk' = "walking"
  BY DEF RodNext, RodStops, Walking
<1>1. /\ queue \in Seq(Item) /\ queue # <<>> /\ Len(queue) \in Nat
      /\ queue' = Tail(queue) /\ visited' = visited \union {Head(queue).page}
  BY <1>0, WalkParts DEF RodTakes, RowsInv, Typed
<1>2. /\ Len(queue') = Len(queue) - 1 /\ Head(queue) = queue[1] /\ 1 \in 1 .. Len(queue)
      /\ \A i \in 1 .. Len(queue') : queue'[i] = queue[i + 1] /\ i + 1 \in 1 .. Len(queue)
  BY <1>1
<1>3. \A i \in 1 .. Len(queue') : Legit(queue'[i].page, queue'[i].depth)
  BY <1>2 DEF RodInv
<1>4. Legit(Head(queue).page, Head(queue).depth)
  BY <1>2 DEF RodInv
<1>5. IsFiniteSet(visited') /\ Cardinality(visited') = IF Head(queue).page \in visited THEN Cardinality(visited) ELSE Cardinality(visited) + 1
  BY <1>1, FS_AddElement DEF RodInv
<1>6. Cardinality(visited') <= cfg.limit
  BY <1>0, <1>1, <1>5 DEF RodInv, RodTakes, Walking
<1>7. loading' # None => loading' = Head(queue) /\ Head(queue).page \notin visited
  BY <1>0 DEF RodTakes
<1>8. DOMAIN nodes' \subseteq visited'
  BY <1>0, <1>1 DEF RodInv
<1>9. loading' # None => loading'.page \in visited' \ DOMAIN nodes' /\ LegitNext(loading'.page, loading'.depth)
  BY <1>0, <1>1, <1>4, <1>7 DEF RodInv, Legit, LegitNext, Links
<1>10. \A i \in 1 .. Len(queue') : LegitNext(queue'[i].page, queue'[i].depth)
  BY <1>0, <1>3 DEF Legit, LegitNext, Links
<1> QED
  BY <1>0, <1>5, <1>6, <1>8, <1>9, <1>10 DEF RodInv, Legit, LegitNext, Links

\* What the visit of a page leaves in the graph and in the queue.
LEMMA RodVisitIs ==
  ASSUME RowsInv, RodInv, RodVisits
  PROVE  /\ loading # None /\ loading' = None /\ UNCHANGED <<cfg, visited>>
         /\ loading.page \in Pages /\ loading.depth \in 0 .. cfg.depth
         /\ loading.page \notin cfg.slow
         /\ \/ loading.page \in cfg.dead /\ UNCHANGED <<nodes, queue>>
            \/ /\ Reads(loading.page) /\ nodes' = AddNode(loading.page, loading.depth)
               /\ \/ loading.depth >= cfg.depth /\ queue' = queue
                  \/ /\ loading.depth < cfg.depth
                     /\ Extends(queue', Len(Links(loading.page)), queue, Links(loading.page), loading.depth + 1)
         /\ queue' \in Seq(Item)
<1>1. loading # None /\ loading' = None /\ UNCHANGED <<cfg, visited>> /\ loading.page \notin cfg.slow
  BY DEF RodVisits
<1>2. loading.page \in Pages /\ loading.depth \in 0 .. cfg.depth /\ cfg.depth \in Nat
  BY <1>1, TypedParts, WalkParts DEF RowsInv, Typed
<1>3. queue' \in Seq(Item)
  <2>1. queue' \in Seq(Item)'
    BY RodVisitsTyped DEF RowsInv, Typed, WalkTyped
  <2> QED
    BY <1>1, <2>1, SameJob
<1>4. CASE loading.page \in cfg.dead /\ UNCHANGED <<nodes, queue>>
  BY <1>1, <1>2, <1>3, <1>4
<1>5. CASE /\ loading.page \notin cfg.dead /\ ~Busy
           /\ nodes' = AddNode(loading.page, loading.depth)
           /\ queue' = IF loading.depth >= cfg.depth THEN queue
                       ELSE Queued(cfg.links[loading.page], loading.depth + 1)
  <2>1. Reads(loading.page)
    BY <1>1, <1>5 DEF Reads
  <2>2. ASSUME loading.depth < cfg.depth
        PROVE  Extends(queue', Len(Links(loading.page)), queue, Links(loading.page), loading.depth + 1)
    <3>1. queue' = Queued(Links(loading.page), loading.depth + 1)
      BY <1>2, <1>5, <2>2 DEF Links
    <3>2. Len(Links(loading.page)) \in Nat /\ queue \in Seq(Item)
      BY <1>2, JobTyped, WalkParts DEF RowsInv, Typed
    <3>3. ASSUME NEW j \in 1 .. Len(Links(loading.page))
          PROVE  [page |-> Links(loading.page)[j], depth |-> loading.depth + 1] \in Item
      <4>1. Links(loading.page)[j] \in Pages
        BY <1>2, JobTyped, WalkParts DEF RowsInv, Typed
      <4>2. loading.depth + 1 \in 0 .. cfg.depth
        BY <1>2, <2>2
      <4> QED
        BY <4>1, <4>2 DEF Item
    <3> QED
      BY <3>1, <3>2, <3>3, QueuedIs
  <2>3. loading.depth >= cfg.depth \/ loading.depth < cfg.depth
    BY <1>2
  <2> QED
    BY <1>1, <1>2, <1>3, <1>5, <2>1, <2>2, <2>3
<1> QED
  BY <1>4, <1>5 DEF RodVisits

\* A visit keeps it.
LEMMA RodVisitsKeeps ==
  ASSUME RowsInv, RodInv, RodVisits
  PROVE  RodInv'
<1> DEFINE page == loading.page
           depth == loading.depth
           links == Links(page)
<1>1. /\ loading # None /\ loading' = None /\ UNCHANGED <<cfg, visited>>
      /\ page \in Pages /\ depth \in 0 .. cfg.depth
      /\ nodes' = nodes \/ nodes' = AddNode(page, depth)
      /\ queue' = queue \/ (/\ nodes' = AddNode(page, depth)
                            /\ Extends(queue', Len(links), queue, links, depth + 1))
  BY RodVisitIs
<1>2. page \in visited /\ page \notin DOMAIN nodes
  BY <1>1 DEF RodInv
<1>3. /\ \A q \in DOMAIN nodes : q \in DOMAIN nodes' /\ nodes'[q] = nodes[q]
      /\ \A q, e : Legit(q, e) => LegitNext(q, e)
  BY <1>1, <1>2, LegitGrows
<1>4. DOMAIN nodes' \subseteq visited'
  BY <1>1, <1>2 DEF RodInv, AddNode
<1>5. IsFiniteSet(visited') /\ Cardinality(visited') <= cfg'.limit
  BY <1>1 DEF RodInv
<1>6. ASSUME NEW i \in 1 .. Len(queue') PROVE LegitNext(queue'[i].page, queue'[i].depth)
  <2>1. CASE queue' = queue
    BY <1>3, <1>6, <2>1 DEF RodInv
  <2>2. CASE nodes' = AddNode(page, depth) /\ Extends(queue', Len(links), queue, links, depth + 1)
    <3>0. Len(queue) \in Nat /\ queue' \in Seq(Item) /\ Len(queue') \in Nat
      BY WalkParts, RodVisitIs DEF RowsInv, Typed
    <3>1. CASE i <= Len(queue)
      <4>1. i \in 1 .. Len(queue) /\ queue'[i] = queue[i]
        BY <2>2, <3>0, <3>1 DEF Extends
      <4> QED
        BY <1>3, <4>1 DEF RodInv
    <3>2. CASE i > Len(queue)
      <4>1. PICK j \in 1 .. Len(links) : Follows(links[j]) /\ queue'[i] = [page |-> links[j], depth |-> depth + 1]
        BY <2>2, <3>2 DEF Extends
      <4>2. links[j] \notin cfg.off /\ queue'[i].page = links[j] /\ queue'[i].depth = depth + 1
        BY <4>1 DEF Follows, ShouldVisit
      <4>3. links[j] \in ToSet(links)
        BY <1>1, JobTyped, WalkParts, ToSetIs DEF RowsInv, Typed
      <4>4. page \in DOMAIN nodes' /\ nodes'[page] = depth
        BY <2>2 DEF AddNode
      <4>5. cfg'.links[page] = links
        BY <1>1 DEF Links
      <4> HIDE DEF page, depth, links
      <4> QED
        BY <1>1, <4>2, <4>3, <4>4, <4>5 DEF LegitNext
    <3> QED
      BY <3>0, <3>1, <3>2
  <2> QED
    BY <1>1, <2>1, <2>2
<1> QED
  BY <1>1, <1>4, <1>5, <1>6 DEF RodInv, Legit, LegitNext, Links

\* The parts of Colly's invariant that concern one page.
CollyPage(p) ==
  /\ fetch[p].at \in {"reading", "counting"} => p \in DOMAIN nodes
  /\ p \in DOMAIN nodes => nodes[p] = fetch[p].depth /\ fetch[p].at \in {"reading", "counting", "done"}
  /\ fetch[p].at = "counting" => Links(p)[fetch[p].pos] \notin cfg.off

\* Colly starts with its invariant.
LEMMA CollyStarts ==
  ASSUME RowsInv, Setup, cfg.engine = "colly", Walking("colly")'
  PROVE  CollyInv'
<1>1. /\ cfg' = cfg /\ DOMAIN nodes' = {} /\ count' = 0
      /\ fetch = [p \in Pages |-> NotAsked]
      /\ fetch' = [fetch EXCEPT ![Entry] = Sent(0)]
  BY DEF RowsInv, PlaceInv, Fresh, Setup, NoNodes, Walking
<1>2. \A p \in Pages : fetch'[p] = IF p = Entry THEN Sent(0) ELSE NotAsked
  BY <1>1, EntryAssumption
<1>3. Asked' = {Entry} /\ Passed' = {}
  BY <1>1, <1>2, EntryAssumption DEF Asked, Passed, Sent, NotAsked
<1>4. cfg.limit \in Nat
  BY WalkParts DEF RowsInv, Typed
<1>5. \A p \in Asked' : Legit(p, fetch[p].depth)'
  BY <1>2, <1>3, EntryAssumption DEF Legit, Sent
<1>6. \A p \in Pages : CollyPage(p)'
  BY <1>1, <1>2 DEF CollyPage, Sent, NotAsked
<1>7. IsFiniteSet(Asked') /\ Cardinality(Asked') <= count' + 1 /\ Cardinality(Passed') <= cfg'.limit
  <2>1. IsFiniteSet({Entry}) /\ Cardinality({Entry}) = 1 /\ Cardinality({}) = 0
    BY FS_EmptySet, FS_Singleton
  <2>2. Cardinality(Asked') = 1 /\ Cardinality(Passed') = 0 /\ cfg'.limit = cfg.limit
    BY <1>1, <1>3, <2>1
  <2> QED
    BY <1>1, <1>3, <1>4, <2>1, <2>2
<1> QED
  BY <1>3, <1>5, <1>6, <1>7 DEF CollyInv, CollyPage

\* The link a request is at.
Link(p) == Links(p)[fetch[p].pos]

\* A request leaves the other pages' requests alone, but for the one it makes.
LEMMA CollyStepIs ==
  ASSUME RowsInv, NEW p \in Pages, CollyStep(p)
  PROVE  /\ UNCHANGED cfg /\ fetch \in [Pages -> Request] /\ Walking("colly")
         /\ fetch'[p].at # "none" /\ fetch'[p].depth = fetch[p].depth
         /\ fetch[p].at \in {"sent", "fetching", "reading", "counting"}
         /\ fetch[p].at # "fetching" => UNCHANGED nodes
         /\ fetch[p].at # "counting" => UNCHANGED count /\ \A q \in Pages : q # p => fetch'[q] = fetch[q]
         /\ fetch[p].at = "sent" =>
              /\ fetch'[p].pos = fetch[p].pos
              /\ fetch'[p].at = (IF ctx \/ count >= cfg.limit THEN "done" ELSE "fetching")
         /\ fetch[p].at = "fetching" =>
              \/ UNCHANGED nodes /\ ~Reads(p) /\ fetch'[p].at = "done"
              \/ /\ Reads(p) /\ fetch'[p].at = "reading" /\ fetch'[p].pos = 1
                 /\ nodes' = IF p \in DOMAIN nodes THEN nodes ELSE AddNode(p, fetch[p].depth)
         /\ fetch[p].at = "reading" =>
              \/ fetch[p].pos > Len(Links(p)) /\ fetch'[p].at = "done" /\ fetch'[p].pos = fetch[p].pos
              \/ /\ fetch[p].pos <= Len(Links(p)) /\ ShouldVisit(Link(p), count)
                 /\ fetch'[p].at = "counting" /\ fetch'[p].pos = fetch[p].pos
              \/ /\ fetch[p].pos <= Len(Links(p)) /\ ~ShouldVisit(Link(p), count)
                 /\ fetch'[p].at = "reading" /\ fetch'[p].pos = fetch[p].pos + 1
         /\ fetch[p].at = "counting" =>
              /\ fetch'[p].at = "reading" /\ fetch'[p].pos = fetch[p].pos + 1 /\ count' = count + 1
              /\ fetch[p].pos \in 1 .. Len(Links(p)) /\ Link(p) \in Pages
              /\ ~Dispatched(p, Link(p)) => \A q \in Pages : q # p => fetch'[q] = fetch[q]
              /\ Dispatched(p, Link(p)) => /\ Link(p) # p /\ fetch'[Link(p)] = Sent(fetch[p].depth + 1)
                                           /\ \A q \in Pages : q # p /\ q # Link(p) => fetch'[q] = fetch[q]
<1>0. /\ fetch \in [Pages -> Request] /\ fetch[p] \in Request
      /\ fetch[p].pos \in Nat /\ Len(Links(p)) \in Nat /\ Links(p) = cfg.links[p]
  BY TypedParts, JobTyped DEF RowsInv, Typed, WalkTyped, Links
<1>1. CASE OnRequest(p)
  <2>1. /\ fetch[p].at = "sent" /\ UNCHANGED <<cfg, nodes, count>> /\ Walking("colly")
        /\ fetch' = [fetch EXCEPT ![p].at = IF ctx \/ count >= cfg.limit THEN "done" ELSE "fetching"]
    BY <1>1 DEF OnRequest
  <2>2. /\ fetch'[p] = [fetch[p] EXCEPT !.at = IF ctx \/ count >= cfg.limit THEN "done" ELSE "fetching"]
        /\ \A q \in Pages : q # p => fetch'[q] = fetch[q]
    BY <1>0, <2>1
  <2>3. /\ fetch'[p].depth = fetch[p].depth /\ fetch'[p].pos = fetch[p].pos
        /\ fetch'[p].at = (IF ctx \/ count >= cfg.limit THEN "done" ELSE "fetching")
    BY <1>0, <2>2 DEF Request
  <2> QED
    BY <1>0, <2>1, <2>2, <2>3
<1>2. CASE OnResponse(p)
  <2>1. /\ fetch[p].at = "fetching" /\ UNCHANGED <<cfg, count>> /\ Walking("colly")
    BY <1>2 DEF OnResponse
  <2>2. CASE ~Reads(p) /\ fetch' = [fetch EXCEPT ![p].at = "done"] /\ UNCHANGED nodes
    <3>1. /\ fetch'[p] = [fetch[p] EXCEPT !.at = "done"]
          /\ \A q \in Pages : q # p => fetch'[q] = fetch[q]
      BY <1>0, <2>2
    <3>2. fetch'[p].depth = fetch[p].depth /\ fetch'[p].at = "done"
      BY <1>0, <3>1 DEF Request
    <3> QED
      BY <1>0, <2>1, <2>2, <3>1, <3>2
  <2>3. CASE /\ Reads(p) /\ fetch' = [fetch EXCEPT ![p].at = "reading", ![p].pos = 1]
             /\ nodes' = IF p \in DOMAIN nodes THEN nodes ELSE AddNode(p, fetch[p].depth)
    <3>1. /\ fetch'[p] = [fetch[p] EXCEPT !.at = "reading", !.pos = 1]
          /\ \A q \in Pages : q # p => fetch'[q] = fetch[q]
      BY <1>0, <2>3
    <3>2. fetch'[p].depth = fetch[p].depth /\ fetch'[p].at = "reading" /\ fetch'[p].pos = 1
      BY <1>0, <3>1 DEF Request
    <3> QED
      BY <1>0, <2>1, <2>3, <3>1, <3>2
  <2> QED
    BY <1>2, <2>2, <2>3 DEF OnResponse, Reads
<1>3. CASE ReadLink(p)
  <2>1. fetch[p].at = "reading" /\ UNCHANGED <<cfg, count, nodes>> /\ Walking("colly")
    BY <1>3 DEF ReadLink
  <2> DEFINE next == IF fetch[p].pos > Len(Links(p)) THEN [fetch[p] EXCEPT !.at = "done"]
                     ELSE IF ShouldVisit(Link(p), count) THEN [fetch[p] EXCEPT !.at = "counting"]
                     ELSE [fetch[p] EXCEPT !.pos = fetch[p].pos + 1]
  <2>2. fetch' = [fetch EXCEPT ![p] = next]
    BY <1>0, <1>3 DEF ReadLink, Link
  <2>3. fetch'[p] = next /\ \A q \in Pages : q # p => fetch'[q] = fetch[q]
    BY <1>0, <2>2
  <2>4. CASE fetch[p].pos > Len(Links(p))
    <3>1. fetch'[p] = [fetch[p] EXCEPT !.at = "done"]
      BY <2>3, <2>4
    <3>2. fetch'[p].depth = fetch[p].depth /\ fetch'[p].at = "done" /\ fetch'[p].pos = fetch[p].pos
      BY <1>0, <3>1 DEF Request
    <3> QED
      BY <1>0, <2>1, <2>3, <2>4, <3>2
  <2>5. CASE ~(fetch[p].pos > Len(Links(p))) /\ ShouldVisit(Link(p), count)
    <3>1. fetch'[p] = [fetch[p] EXCEPT !.at = "counting"]
      BY <2>3, <2>5
    <3>2. /\ fetch'[p].depth = fetch[p].depth /\ fetch'[p].at = "counting" /\ fetch'[p].pos = fetch[p].pos
          /\ fetch[p].pos <= Len(Links(p))
      BY <1>0, <2>5, <3>1 DEF Request
    <3> QED
      BY <1>0, <2>1, <2>3, <2>5, <3>2
  <2>6. CASE ~(fetch[p].pos > Len(Links(p))) /\ ~ShouldVisit(Link(p), count)
    <3>1. fetch'[p] = [fetch[p] EXCEPT !.pos = fetch[p].pos + 1]
      BY <2>3, <2>6
    <3>2. /\ fetch'[p].depth = fetch[p].depth /\ fetch'[p].at = fetch[p].at /\ fetch'[p].pos = fetch[p].pos + 1
          /\ fetch[p].pos <= Len(Links(p))
      BY <1>0, <2>6, <3>1 DEF Request
    <3> QED
      BY <1>0, <2>1, <2>3, <2>6, <3>2
  <2> QED
    BY <2>4, <2>5, <2>6
<1>4. CASE FollowLink(p)
  <2> DEFINE read == [fetch EXCEPT ![p].at = "reading", ![p].pos = @ + 1]
  <2>1. /\ fetch[p].at = "counting" /\ UNCHANGED <<cfg, nodes>> /\ count' = count + 1 /\ Walking("colly")
        /\ \/ Dispatched(p, Link(p)) /\ fetch' = [read EXCEPT ![Link(p)] = Sent(fetch[p].depth + 1)]
           \/ ~Dispatched(p, Link(p)) /\ fetch' = read
    BY <1>0, <1>4 DEF FollowLink, Link
  <2>2. fetch[p].pos \in 1 .. Len(Links(p)) /\ Link(p) \in Pages
    BY <2>1, TypedParts, JobTyped, WalkParts DEF RowsInv, Typed, Link
  <2>3. /\ read \in [Pages -> [at : {"reading"} \cup {"none", "sent", "fetching", "reading", "counting", "done"}, depth : 0 .. cfg.depth, pos : Nat]]
        /\ read[p].at = "reading" /\ read[p].depth = fetch[p].depth /\ read[p].pos = fetch[p].pos + 1
        /\ \A q \in Pages : q # p => read[q] = fetch[q]
    <3>1. PICK k : k = fetch[p].pos + 1
      OBVIOUS
    <3>2. k \in Nat /\ read = [fetch EXCEPT ![p].at = "reading", ![p].pos = k]
      BY <1>0, <3>1
    <3> HIDE DEF read
    <3>3. read[p] = [fetch[p] EXCEPT !.at = "reading", !.pos = k] /\ \A q \in Pages : q # p => read[q] = fetch[q]
      BY <1>0, <3>2
    <3>4. read[p].at = "reading" /\ read[p].depth = fetch[p].depth /\ read[p].pos = k
      BY <1>0, <3>3 DEF Request
    <3>5. read \in [Pages -> Request]
      BY <1>0, <3>2 DEF Request
    <3> QED
      BY <3>1, <3>3, <3>4, <3>5 DEF Request
  <2> HIDE DEF read
  <2>4. Dispatched(p, Link(p)) => Link(p) # p
    BY <2>1 DEF Dispatched
  <2>5. \/ /\ Dispatched(p, Link(p)) /\ Link(p) # p /\ fetch'[Link(p)] = Sent(fetch[p].depth + 1)
           /\ \A q \in Pages : q # Link(p) => fetch'[q] = read[q]
        \/ ~Dispatched(p, Link(p)) /\ \A q \in Pages : fetch'[q] = read[q]
    BY <2>1, <2>2, <2>3, <2>4
  <2>6. fetch'[p] = read[p]
    BY <2>5
  <2> QED
    BY <1>0, <2>1, <2>2, <2>3, <2>5, <2>6
<1> QED
  BY <1>1, <1>2, <1>3, <1>4 DEF CollyStep

\* Every step of a request keeps it.
LEMMA CollyStepKeeps ==
  ASSUME RowsInv, CollyInv, NEW p \in Pages, CollyStep(p)
  PROVE  CollyInv'
<1> DEFINE Made == fetch[p].at = "counting" /\ Dispatched(p, Link(p))
<1>0. /\ UNCHANGED cfg /\ fetch[p].at # "none" /\ fetch'[p].at # "none" /\ fetch'[p].depth = fetch[p].depth
      /\ fetch[p].at \in {"none", "sent", "fetching", "reading", "counting", "done"}
      /\ count \in Nat /\ cfg.limit \in Nat
  BY CollyStepIs, TypedParts, WalkParts DEF RowsInv, Typed, WalkTyped
<1>1. /\ \A q \in Pages : CollyPage(q)
      /\ \A q \in Asked : Legit(q, fetch[q].depth)
      /\ IsFiniteSet(Asked) /\ Cardinality(Asked) <= count + 1
      /\ Passed \subseteq Asked /\ Cardinality(Passed) <= cfg.limit
  BY DEF CollyInv, CollyPage
<1>2. IsFiniteSet(Passed) /\ Cardinality(Passed) \in Nat /\ Cardinality(Asked) \in Nat
  BY <1>1, FS_Subset, FS_CardinalityType
<1>3. \A q, e : Legit(q, e) => LegitNext(q, e)
  <2>1. CASE nodes' = nodes
    BY <1>0, <2>1 DEF Legit, LegitNext, Links
  <2>2. CASE nodes' # nodes
    <3>1. p \notin DOMAIN nodes /\ nodes' = AddNode(p, fetch[p].depth)
      BY <2>2, CollyStepIs
    <3> QED
      BY <1>0, <3>1, LegitGrows
  <2> QED
    BY <2>1, <2>2
<1>4. \A q \in Pages : q # p =>
        fetch'[q] = fetch[q] \/ (Made /\ q = Link(p) /\ fetch[q].at = "none" /\ fetch'[q] = Sent(fetch[p].depth + 1))
  BY CollyStepIs DEF Dispatched
<1>5. CASE fetch[p].at = "counting"
  <2>1. /\ count' = count + 1 /\ UNCHANGED nodes /\ fetch'[p].at = "reading" /\ Link(p) \in Pages
        /\ fetch[p].pos \in 1 .. Len(Links(p))
    BY <1>5, CollyStepIs
  <2>2. p \in DOMAIN nodes /\ nodes[p] = fetch[p].depth /\ Link(p) \notin cfg.off
    BY <1>1, <1>5 DEF CollyPage, Link
  <2>3. Asked' = Asked \/ (Made /\ Asked' = Asked \cup {Link(p)})
    <3>1. CASE Made
      <4>1. Link(p) # p /\ fetch'[Link(p)] = Sent(fetch[p].depth + 1) /\ \A q \in Pages : q # p /\ q # Link(p) => fetch'[q] = fetch[q]
        BY <1>5, <3>1, CollyStepIs
      <4>2. fetch'[Link(p)].at # "none"
        BY <4>1 DEF Sent
      <4> QED
        BY <1>0, <2>1, <3>1, <4>1, <4>2 DEF Asked
    <3>2. CASE ~Made
      BY <1>0, <1>4, <3>2 DEF Asked
    <3> QED
      BY <3>1, <3>2
  <2>4. IsFiniteSet(Asked') /\ Cardinality(Asked') <= count' + 1
    <3>1. /\ IsFiniteSet(Asked \cup {Link(p)})
          /\ Cardinality(Asked \cup {Link(p)}) = IF Link(p) \in Asked THEN Cardinality(Asked) ELSE Cardinality(Asked) + 1
      BY <1>1, FS_AddElement
    <3>2. Cardinality(Asked') <= Cardinality(Asked) + 1
      <4>1. Cardinality(Asked \cup {Link(p)}) <= Cardinality(Asked) + 1
        BY <1>2, <3>1
      <4>2. Cardinality(Asked) <= Cardinality(Asked) + 1
        BY <1>2
      <4> QED
        BY <2>3, <4>1, <4>2
    <3>3. IsFiniteSet(Asked')
      BY <1>1, <2>3, <3>1
    <3>4. Cardinality(Asked') \in Nat
      BY <3>3, FS_CardinalityType
    <3> QED
      BY <1>0, <1>1, <1>2, <2>1, <3>2, <3>3, <3>4
  <2>5. Passed' = Passed
    BY <1>0, <1>4, <1>5, <2>1 DEF Passed, Sent
  <2>6. ASSUME NEW q \in Asked' PROVE LegitNext(q, fetch'[q].depth)
    <3>0. q \in Pages
      BY DEF Asked
    <3>1. CASE q \in Asked
      <4>1. fetch'[q].depth = fetch[q].depth
        BY <1>0, <1>4, <3>0, <3>1 DEF Asked
      <4> QED
        BY <1>1, <1>3, <3>1, <4>1
    <3>2. CASE q \notin Asked
      <4>1. Made /\ q = Link(p)
        BY <2>3, <3>2
      <4>2. fetch'[q].depth = fetch[p].depth + 1
        <5>1. q # p
          BY <1>0, <3>2 DEF Asked
        <5>2. fetch'[q] = Sent(fetch[p].depth + 1)
          BY <1>5, <4>1, CollyStepIs
        <5> QED
          BY <5>2 DEF Sent
      <4>3. Link(p) \in ToSet(Links(p))
        BY <2>1, JobTyped, WalkParts, ToSetIs DEF RowsInv, Typed, Link
      <4>4. cfg'.links[p] = Links(p)
        BY <1>0 DEF Links
      <4> QED
        BY <1>0, <2>1, <2>2, <4>1, <4>2, <4>3, <4>4 DEF LegitNext
    <3> QED
      BY <3>1, <3>2
  <2>7. ASSUME NEW q \in Pages PROVE CollyPage(q)'
    <3>1. CASE q = p
      BY <1>0, <2>1, <2>2, <3>1 DEF CollyPage
    <3>2. CASE q # p /\ fetch'[q] = fetch[q]
      BY <1>0, <1>1, <2>1, <3>2 DEF CollyPage, Links
    <3>3. CASE fetch[q].at = "none" /\ fetch'[q] = Sent(fetch[p].depth + 1)
      BY <1>0, <1>1, <2>1, <3>3 DEF CollyPage, Sent
    <3> QED
      BY <1>4, <3>1, <3>2, <3>3
  <2>8. Passed' \subseteq Asked' /\ Cardinality(Passed') <= cfg'.limit
    BY <1>0, <1>1, <2>3, <2>5
  <2>9. \A q \in Asked' : Legit(q, fetch[q].depth)'
    BY <2>6 DEF Legit, LegitNext, Links
  <2> QED
    BY <2>4, <2>7, <2>8, <2>9 DEF CollyInv, CollyPage
<1>6. CASE fetch[p].at # "counting"
  <2>1. UNCHANGED count /\ \A q \in Pages : q # p => fetch'[q] = fetch[q]
    BY <1>6, CollyStepIs
  <2>2. Asked' = Asked
    BY <1>0, <2>1 DEF Asked
  <2>3. \A q \in Asked' : Legit(q, fetch[q].depth)'
    <3>1. \A q \in Pages : fetch'[q].depth = fetch[q].depth
      BY <1>0, <2>1
    <3>2. \A q \in Asked' : q \in Pages /\ LegitNext(q, fetch'[q].depth)
      BY <1>1, <1>3, <2>2, <3>1 DEF Asked
    <3> QED
      BY <3>2 DEF Legit, LegitNext, Links
  <2>4. ASSUME NEW q \in Pages, q # p PROVE CollyPage(q)'
    <3>0. nodes' = nodes \/ nodes' = AddNode(p, fetch[p].depth)
      BY CollyStepIs
    <3>1. (q \in DOMAIN nodes' <=> q \in DOMAIN nodes) /\ (q \in DOMAIN nodes => nodes'[q] = nodes[q])
      BY <2>4, <3>0 DEF AddNode
    <3> QED
      BY <1>0, <1>1, <2>1, <2>4, <3>1 DEF CollyPage, Links
  <2>5. CASE fetch[p].at = "sent"
    <3>1. /\ UNCHANGED nodes /\ fetch'[p].at \in {"done", "fetching"}
          /\ fetch'[p].at = "fetching" => ~(count >= cfg.limit)
      BY <2>5, CollyStepIs
    <3>2. p \notin DOMAIN nodes
      BY <1>1, <2>5 DEF CollyPage
    <3>3. CollyPage(p)'
      BY <3>1, <3>2 DEF CollyPage
    <3>4. CASE fetch'[p].at = "done"
      <4>1. Passed' = Passed
        BY <2>1, <2>5, <3>1, <3>4 DEF Passed
      <4> QED
        BY <1>0, <1>1, <2>1, <2>2, <2>3, <2>4, <3>3, <4>1 DEF CollyInv, CollyPage
    <3>5. CASE fetch'[p].at = "fetching"
      <4>1. Passed' = Passed \cup {p}
        BY <2>1, <2>5, <3>1, <3>5 DEF Passed
      <4>2. p \in Asked
        BY <1>0 DEF Asked
      <4>3. Passed' \subseteq Asked
        BY <1>1, <4>1, <4>2
      <4>4. Cardinality(Passed') <= Cardinality(Asked)
        BY <1>1, <4>3, FS_Subset
      <4>5. IsFiniteSet(Passed') /\ Cardinality(Passed') \in Nat
        BY <1>1, <4>3, FS_Subset, FS_CardinalityType
      <4>6. Cardinality(Passed') <= cfg'.limit
        BY <1>0, <1>1, <1>2, <3>1, <3>5, <4>4, <4>5
      <4> QED
        BY <1>0, <1>1, <2>1, <2>2, <2>3, <2>4, <3>3, <4>3, <4>6 DEF CollyInv, CollyPage
    <3> QED
      BY <3>1, <3>4, <3>5
  <2>6. CASE fetch[p].at = "fetching"
    <3>1. p \notin DOMAIN nodes
      BY <1>1, <2>6 DEF CollyPage
    <3>2. CASE UNCHANGED nodes /\ fetch'[p].at = "done"
      <4>1. Passed' \subseteq Passed
        BY <2>1, <3>2 DEF Passed
      <4>2. Cardinality(Passed') <= Cardinality(Passed) /\ Cardinality(Passed') \in Nat
        BY <1>2, <4>1, FS_Subset, FS_CardinalityType
      <4>3. Cardinality(Passed') <= cfg'.limit
        BY <1>0, <1>1, <1>2, <4>2
      <4>4. CollyPage(p)'
        BY <3>1, <3>2 DEF CollyPage
      <4> QED
        BY <1>1, <2>1, <2>2, <2>3, <2>4, <4>1, <4>3, <4>4 DEF CollyInv, CollyPage
    <3>3. CASE fetch'[p].at = "reading" /\ nodes' = AddNode(p, fetch[p].depth)
      <4>1. Passed' = Passed
        BY <2>1, <2>6, <3>3 DEF Passed, AddNode
      <4>2. CollyPage(p)'
        BY <1>0, <3>3 DEF CollyPage, AddNode
      <4> QED
        BY <1>0, <1>1, <2>1, <2>2, <2>3, <2>4, <4>1, <4>2 DEF CollyInv, CollyPage
    <3> QED
      BY <2>6, <3>1, <3>2, <3>3, CollyStepIs
  <2>7. CASE fetch[p].at = "reading"
    <3>1. /\ UNCHANGED nodes /\ fetch'[p].at \in {"done", "counting", "reading"}
          /\ fetch'[p].at = "counting" => /\ fetch'[p].pos = fetch[p].pos
                                          /\ ShouldVisit(Link(p), count)
      BY <2>7, CollyStepIs
    <3>2. p \in DOMAIN nodes /\ nodes[p] = fetch[p].depth
      BY <1>1, <2>7 DEF CollyPage
    <3>3. CollyPage(p)'
      BY <1>0, <3>1, <3>2 DEF CollyPage, ShouldVisit, Links, Link
    <3>4. Passed' = Passed
      BY <2>1, <2>7, <3>1 DEF Passed
    <3> QED
      BY <1>0, <1>1, <2>1, <2>2, <2>3, <2>4, <3>3, <3>4 DEF CollyInv, CollyPage
  <2>8. fetch[p].at \in {"sent", "fetching", "reading"}
    BY <1>6, CollyStepIs
  <2> QED
    BY <2>5, <2>6, <2>7, <2>8
<1> QED
  BY <1>5, <1>6

-----------------------------------------------------------------------------
(* The abstract walk                                                       *)

\* The engine that walks has its invariant.
BoundInv ==
  /\ Walking("rod") => RodInv
  /\ Walking("colly") => CollyInv

\* The row's invariant and the engine's.
WalksInv == RowsInv /\ BoundInv

\* Every step keeps them.
LEMMA WalksStep == WalksInv /\ [Next]_vars => WalksInv'
<1> SUFFICES ASSUME WalksInv, [Next]_vars PROVE WalksInv'
  OBVIOUS
<1>1. RowsInv /\ RowsInv'
  BY RowsStep DEF WalksInv
<1>2. ASSUME Walking("rod")' PROVE RodInv'
  <2>1. CASE Setup /\ cfg.engine = "rod"
    BY <1>1, <1>2, <2>1, RodStarts
  <2>2. CASE RodNext
    <3>1. RodInv
      BY <2>2 DEF RodNext, WalksInv, BoundInv
    <3> QED
      BY <1>1, <1>2, <2>2, <3>1, RodNextKeeps
  <2>3. CASE RodVisits
    <3>1. RodInv
      BY <2>3 DEF RodVisits, WalksInv, BoundInv
    <3> QED
      BY <1>1, <2>3, <3>1, RodVisitsKeeps
  <2>4. CASE Walking("rod") /\ UNCHANGED <<nodes, rodVars>>
    <3>1. RodInv /\ UNCHANGED <<cfg, nodes, visited, queue, loading>>
      BY <1>1, <2>4, WalkSteps DEF WalksInv, BoundInv, rodVars
    <3> QED
      BY <3>1 DEF RodInv, Legit, Links
  <2> QED
    BY <1>1, <1>2, <2>1, <2>2, <2>3, <2>4, WalkSteps
<1>3. ASSUME Walking("colly")' PROVE CollyInv'
  <2>1. CASE Setup /\ cfg.engine = "colly"
    BY <1>1, <1>3, <2>1, CollyStarts
  <2>2. ASSUME NEW p \in Pages, CollyStep(p) PROVE CollyInv'
    <3>1. CollyInv
      BY <1>1, <2>2, CollyStepIs DEF WalksInv, BoundInv
    <3> QED
      BY <1>1, <2>2, <3>1, CollyStepKeeps
  <2>3. CASE Walking("colly") /\ UNCHANGED <<nodes, collyVars>>
    <3>1. CollyInv /\ UNCHANGED <<cfg, nodes, fetch, count>>
      BY <1>1, <2>3, WalkSteps DEF WalksInv, BoundInv, collyVars
    <3> QED
      BY <3>1 DEF CollyInv, Legit, Links, Asked, Passed
  <2> QED
    BY <1>1, <1>3, <2>1, <2>2, <2>3, WalkSteps
<1> QED
  BY <1>1, <1>2, <1>3 DEF WalksInv, BoundInv

\* They always hold.
LEMMA WalksHold == Spec => []WalksInv
<1>1. Init => WalksInv
  BY InitTyped, InitPlace DEF Init, WalkInit, Walking, RowsInv, BoundInv, WalksInv
<1> QED
  BY <1>1, WalksStep, PTL DEF Spec

\* A page the graph takes up is one the abstract walk finds.
LEMMA FindsOne ==
  ASSUME WalksInv, UNCHANGED cfg, OwnWalk, NEW p \in Pages, NEW d \in 0 .. cfg.depth,
         p \notin DOMAIN nodes, nodes' = AddNode(p, d), Legit(p, d), Cardinality(DOMAIN nodes) < cfg.limit
  PROVE  Walk!Next
<1>1. OwnWalk'
  BY DEF OwnWalk
<1>2. (p = Entry /\ d = 0) \/ (Walk!Linked(p, d) /\ p \notin cfg.off /\ d <= cfg.depth)
  <2>1. d <= cfg.depth
    BY WalkParts DEF WalksInv, RowsInv, Typed
  <2> QED
    BY <2>1 DEF Walk!Linked, Legit, Links, Walk!ToSet, ToSet
<1>3. nodes' = [q \in DOMAIN nodes \union {p} |-> IF q = p THEN d ELSE nodes[q]]
  BY DEF AddNode
<1>4. (IF OwnWalk THEN nodes ELSE NoNodes) = nodes /\ (IF OwnWalk THEN nodes ELSE NoNodes)' = nodes'
  BY <1>1
<1>41. Walk!Cardinality(DOMAIN nodes) = Cardinality(DOMAIN nodes)
  BY DEF Walk!Cardinality, Cardinality
<1>5. Walk!Find(p, d)
  BY <1>2, <1>3, <1>4, <1>41 DEF Walk!Find
<1> QED
  BY <1>5 DEF Walk!Next

\* Every step is one of the abstract walk, or none.
LEMMA WalkStep == WalksInv /\ [Next]_vars => [Walk!Next]_<<cfg, IF OwnWalk THEN nodes ELSE NoNodes>>
<1> SUFFICES ASSUME WalksInv, [Next]_vars,
                    ~UNCHANGED <<cfg, IF OwnWalk THEN nodes ELSE NoNodes>>
             PROVE  Walk!Next
  OBVIOUS
<1>0. RowsInv /\ cfg' = cfg /\ OwnWalk' = OwnWalk
  BY WalkSteps DEF WalksInv, OwnWalk
<1>1. OwnWalk /\ nodes' # nodes
  BY <1>0 DEF NoNodes
<1>2. cfg.engine \in {"rod", "colly"}
  BY <1>1 DEF OwnWalk
<1>3. CASE RodVisits
  <2>1. RodInv
    BY <1>3 DEF RodVisits, WalksInv, BoundInv
  <2>2. /\ loading # None /\ loading.page \in Pages /\ loading.depth \in 0 .. cfg.depth
        /\ nodes' = AddNode(loading.page, loading.depth)
    BY <1>0, <1>1, <1>3, <2>1, RodVisitIs
  <2>3. loading.page \in visited /\ loading.page \notin DOMAIN nodes /\ Legit(loading.page, loading.depth)
    BY <2>1, <2>2 DEF RodInv
  <2>4. Cardinality(DOMAIN nodes) < cfg.limit
    <3>1. IsFiniteSet(visited) /\ Cardinality(visited) <= cfg.limit /\ DOMAIN nodes \in SUBSET (visited \ {loading.page})
      BY <2>1, <2>3 DEF RodInv
    <3>2. IsFiniteSet(visited \ {loading.page}) /\ Cardinality(visited \ {loading.page}) = Cardinality(visited) - 1
      BY <2>3, <3>1, FS_RemoveElement
    <3>3. Cardinality(DOMAIN nodes) <= Cardinality(visited) - 1 /\ Cardinality(DOMAIN nodes) \in Nat /\ Cardinality(visited) \in Nat
      BY <3>1, <3>2, FS_Subset, FS_CardinalityType
    <3>4. cfg.limit \in Nat
      BY <1>0, WalkParts DEF RowsInv, Typed
    <3> QED
      BY <3>1, <3>3, <3>4
  <2> QED
    BY <1>0, <1>1, <2>2, <2>3, <2>4, FindsOne
<1>4. ASSUME NEW p \in Pages, CollyStep(p) PROVE Walk!Next
  <2>1. CollyInv
    BY <1>0, <1>4, CollyStepIs DEF WalksInv, BoundInv
  <2>2. p \notin DOMAIN nodes /\ nodes' = AddNode(p, fetch[p].depth) /\ fetch[p].at = "fetching"
    BY <1>0, <1>1, <1>4, CollyStepIs
  <2>3. p \in Asked /\ Legit(p, fetch[p].depth) /\ fetch[p].depth \in 0 .. cfg.depth
    BY <1>0, <2>1, <2>2, TypedParts DEF CollyInv, Asked, RowsInv, Typed
  <2>4. Cardinality(DOMAIN nodes) < cfg.limit
    <3>1. Passed \in SUBSET Asked /\ IsFiniteSet(Asked) /\ Cardinality(Passed) <= cfg.limit /\ p \in Passed
      BY <2>1, <2>2 DEF CollyInv, Passed
    <3>2. IsFiniteSet(Passed)
      BY <3>1, FS_Subset
    <3>3. IsFiniteSet(Passed \ {p}) /\ Cardinality(Passed \ {p}) = Cardinality(Passed) - 1
      BY <3>1, <3>2, FS_RemoveElement
    <3>4. DOMAIN nodes \in SUBSET (Passed \ {p})
      BY <2>2 DEF Passed
    <3>5. Cardinality(DOMAIN nodes) <= Cardinality(Passed) - 1 /\ Cardinality(DOMAIN nodes) \in Nat /\ Cardinality(Passed) \in Nat
      BY <3>2, <3>3, <3>4, FS_Subset, FS_CardinalityType
    <3>6. cfg.limit \in Nat
      BY <1>0, WalkParts DEF RowsInv, Typed
    <3> QED
      BY <3>1, <3>5, <3>6
  <2> QED
    BY <1>0, <1>1, <2>2, <2>3, <2>4, FindsOne
<1> QED
  BY <1>0, <1>1, <1>2, <1>3, <1>4, WalkSteps

\* Rod and Colly find pages as the abstract walk does: one at a time, along
\* links, past the filter, within the depth and up to the limit.
THEOREM WalkIsBounded == Spec => WalkSpec
<1>1. Init => Walk!Init
  BY DEF Init, WalkInit, Walk!Init, NoNodes
<1> QED
  BY <1>1, WalkStep, WalksHold, PTL DEF Spec, WalkSpec, Walk!Spec

-----------------------------------------------------------------------------
(* The pages in reach                                                      *)

\* One link further.
LEMMA WithinStep ==
  ASSUME NEW d \in Nat
  PROVE  Within[d + 1] = Within[d] \cup
           {p \in Pages \ cfg.off : \E q \in Within[d] : Reads(q) /\ p \in ToSet(Links(q))}
<1>1. PICK e : e = d + 1
  OBVIOUS
<1>2. e \in Nat \ {0} /\ e - 1 = d
  BY <1>1
<1>3. Within[e] = Within[e - 1] \cup
        {p \in Pages \ cfg.off : \E q \in Within[e - 1] : Reads(q) /\ p \in ToSet(cfg.links[q])}
  BY <1>2, WithinIs
<1> QED
  BY <1>1, <1>2, <1>3 DEF Links

\* Pages in reach are pages.
LEMMA WithinPages == \A d \in Nat : Within[d] \subseteq Pages
  BY WithinIs, EntryAssumption

\* What is in reach stays so further on.
LEMMA WithinGrows ==
  ASSUME NEW d \in Nat, NEW e \in Nat, d <= e
  PROVE  Within[d] \subseteq Within[e]
<1> DEFINE Bad == {x \in Nat : d <= x /\ ~(Within[d] \subseteq Within[x])}
<1> SUFFICES ASSUME Bad # {} PROVE FALSE
  OBVIOUS
<1>0. Bad \in SUBSET Nat
  OBVIOUS
<1>1. PICK x \in Bad : \A k \in Bad : x <= k
  BY <1>0, LeastNatural
<1>2. x # d /\ x \in Nat /\ d <= x /\ x - 1 \in Nat /\ d <= x - 1 /\ ~(x <= x - 1)
  BY <1>1
<1>3. Within[d] \subseteq Within[x - 1]
  BY <1>1, <1>2
<1>4. Within[x - 1] \subseteq Within[(x - 1) + 1]
  BY <1>2, WithinStep
<1>5. (x - 1) + 1 = x
  BY <1>2
<1> QED
  BY <1>1, <1>3, <1>4, <1>5

\* What a page that was read links to is one link further.
LEMMA LinkWithin ==
  ASSUME NEW d \in Nat, NEW q \in Within[d], Reads(q),
         NEW p \in Pages, p \notin cfg.off, p \in ToSet(Links(q))
  PROVE  p \in Within[d + 1]
  BY WithinStep

\* The pages in reach are the site's, which does not change.
Reach ==
  /\ Within[0] = {Entry}
  /\ \A d \in Nat \ {0} :
       Within[d] = Within[d - 1] \cup
         {p \in Pages \ cfg.off : \E q \in Within[d - 1] : Reads(q) /\ p \in ToSet(cfg.links[q])}

\* The same of the next state.
LEMMA ReachNext == Reach'
<1>1. Reach
  BY WithinIs DEF Reach
<1> QED
  BY <1>1, PTL

\* What is in reach does not change with the walk.
LEMMA SameWithin ==
  ASSUME UNCHANGED cfg
  PROVE  /\ \A d \in Nat : Within'[d] = Within[d]
         /\ \A p : Reads(p)' <=> Reads(p)
<1>1. \A p : Reads(p)' <=> Reads(p)
  BY DEF Reads
<1>2. /\ Within'[0] = {Entry}
      /\ \A d \in Nat \ {0} :
           Within'[d] = Within'[d - 1] \cup
             {p \in Pages \ cfg.off : \E q \in Within'[d - 1] : Reads(q) /\ p \in ToSet(cfg.links[q])}
  BY <1>1, ReachNext DEF Reach, Reads
<1> DEFINE Bad == {d \in Nat : Within'[d] # Within[d]}
<1>3. Bad = {}
  <2> SUFFICES ASSUME Bad # {} PROVE FALSE
    OBVIOUS
  <2>0. Bad \in SUBSET Nat
    OBVIOUS
  <2>1. PICK d \in Bad : \A k \in Bad : d <= k
    BY <2>0, LeastNatural
  <2>2. d # 0
    BY <1>2, <2>1, WithinIs
  <2>3. d \in Nat \ {0} /\ d - 1 \in Nat /\ ~(d <= d - 1)
    BY <2>1, <2>2
  <2>4. Within'[d - 1] = Within[d - 1]
    BY <2>1, <2>3
  <2>5. Within[d] = Within[d - 1] \cup
          {p \in Pages \ cfg.off : \E q \in Within[d - 1] : Reads(q) /\ p \in ToSet(cfg.links[q])}
    BY <2>3, WithinIs
  <2>6. Within'[d] = Within'[d - 1] \cup
          {p \in Pages \ cfg.off : \E q \in Within'[d - 1] : Reads(q) /\ p \in ToSet(cfg.links[q])}
    BY <1>2, <2>3
  <2> QED
    BY <2>1, <2>4, <2>5, <2>6, Zenon
<1> QED
  BY <1>1, <1>3

-----------------------------------------------------------------------------
(* Rod finds what is in reach                                              *)

\* A page that is asked for is in reach as far as the pages found are.
LEMMA LegitWithin ==
  ASSUME cfg \in Jobs, NEW p \in Pages, NEW d \in Nat, Legit(p, d),
         \A q \in DOMAIN nodes : Reads(q) /\ q \in Within[nodes[q]] /\ nodes[q] \in Nat
  PROVE  p \in Within[d]
<1>1. CASE p = Entry /\ d = 0
  BY <1>1, WithinIs
<1>2. CASE p \notin cfg.off /\ \E q \in DOMAIN nodes : p \in ToSet(Links(q)) /\ nodes[q] + 1 = d
  <2>1. PICK q \in DOMAIN nodes : p \in ToSet(Links(q)) /\ nodes[q] + 1 = d
    BY <1>2
  <2>2. p \in Within[nodes[q] + 1]
    BY <1>2, <2>1, LinkWithin
  <2> QED
    BY <2>1, <2>2
<1> QED
  BY <1>1, <1>2 DEF Legit

\* Where the limit does not bind, a page in reach that was not visited passes
\* the filter.
LEMMA RodFollows ==
  ASSUME IsFiniteSet(Pages), RowsInv, RodInv, cfg.engine = "rod", Fits, visited \subseteq Within[cfg.depth],
         NEW p \in Within[cfg.depth], p \notin visited
  PROVE  Cardinality(visited) < cfg.limit
<1>0. cfg.depth \in Nat /\ cfg.limit \in Nat
  BY WalkParts DEF RowsInv, Typed
<1>1. IsFiniteSet(Within[cfg.depth]) /\ Cardinality(Within[cfg.depth]) \in Nat
  BY <1>0, WithinPages, FS_Subset, FS_CardinalityType
<1>2. Cardinality(Within[cfg.depth]) <= cfg.limit
  BY DEF Fits
<1>3. visited \in SUBSET Within[cfg.depth] /\ visited # Within[cfg.depth]
  OBVIOUS
<1>4. /\ Cardinality(visited) <= Cardinality(Within[cfg.depth]) /\ Cardinality(visited) \in Nat
      /\ Cardinality(visited) # Cardinality(Within[cfg.depth])
  BY <1>1, <1>3, FS_Subset, FS_CardinalityType
<1> QED
  BY <1>0, <1>1, <1>2, <1>4

\* How far the pages found are from the entry page.
LEMMA RodFoundWithin ==
  ASSUME RowsInv, RodInv, RodFinds
  PROVE  /\ \A q \in DOMAIN nodes : q \in Pages /\ nodes[q] \in 0 .. cfg.depth /\ Reads(q) /\ q \in Within[nodes[q]]
         /\ loading # None => loading.page \in Within[loading.depth] /\ loading.page \in Within[cfg.depth]
         /\ \A i \in 1 .. Len(queue) : queue[i].page \in Within[queue[i].depth] /\ queue[i].page \in Within[cfg.depth]
<1>0. cfg \in Jobs /\ cfg.depth \in Nat
  BY WalkParts DEF RowsInv, Typed
<1>1. \A q \in DOMAIN nodes : q \in Pages /\ nodes[q] \in 0 .. cfg.depth /\ Reads(q) /\ q \in Within[nodes[q]]
  BY TypedParts DEF RodFinds, RowsInv, Typed
<1>2. \A q \in DOMAIN nodes : Reads(q) /\ q \in Within[nodes[q]] /\ nodes[q] \in Nat
  BY <1>0, <1>1
<1>3. \A d \in 0 .. cfg.depth : d \in Nat /\ Within[d] \subseteq Within[cfg.depth]
  BY <1>0, WithinGrows
<1>4. ASSUME loading # None
      PROVE  loading.page \in Within[loading.depth] /\ loading.page \in Within[cfg.depth]
  <2>1. loading.page \in Pages /\ loading.depth \in 0 .. cfg.depth /\ Legit(loading.page, loading.depth)
    BY <1>4, TypedParts DEF RowsInv, Typed, RodInv
  <2>2. loading.page \in Within[loading.depth]
    BY <1>0, <1>2, <1>3, <2>1, LegitWithin
  <2> QED
    BY <1>3, <2>1, <2>2
<1>5. ASSUME NEW i \in 1 .. Len(queue)
      PROVE  queue[i].page \in Within[queue[i].depth] /\ queue[i].page \in Within[cfg.depth]
  <2>1. queue[i].page \in Pages /\ queue[i].depth \in 0 .. cfg.depth /\ Legit(queue[i].page, queue[i].depth)
    BY TypedParts DEF RowsInv, Typed, RodInv
  <2>2. queue[i].page \in Within[queue[i].depth]
    BY <1>0, <1>2, <1>3, <2>1, LegitWithin
  <2> QED
    BY <1>3, <2>1, <2>2
<1> QED
  BY <1>1, <1>4, <1>5

\* Known in the next state.
KnownNext(p, d) ==
  \/ ~Reads(p)
  \/ p \in DOMAIN nodes' /\ nodes'[p] <= d
  \/ loading' # None /\ loading'.page = p /\ loading'.depth <= d
  \/ \E i \in 1 .. Len(queue') : queue'[i].page = p /\ queue'[i].depth <= d

\* RodFinds in the next state, said of this state's site.
LEMMA RodFindsNext ==
  ASSUME UNCHANGED cfg, cfg.depth \in Nat,
         \A p \in visited' : p \in DOMAIN nodes' \/ (loading' # None /\ loading'.page = p) \/ ~Reads(p),
         \A q \in DOMAIN nodes' : nodes'[q] \in Nat /\ Reads(q) /\ q \in Within[nodes'[q]],
         visited' \subseteq Within[cfg.depth], KnownNext(Entry, 0),
         \A q \in DOMAIN nodes' : nodes'[q] < cfg.depth =>
           \A p \in ToSet(Links(q)) \ cfg.off : KnownNext(p, nodes'[q] + 1)
  PROVE  RodFinds'
<1>1. /\ \A d \in Nat : Within'[d] = Within[d]
      /\ \A p : Reads(p)' <=> Reads(p)
  BY SameWithin
<1>2. \A p, d : KnownNext(p, d) <=>
        \/ ~Reads(p)'
        \/ p \in DOMAIN nodes' /\ nodes'[p] <= d
        \/ loading' # None /\ loading'.page = p /\ loading'.depth <= d
        \/ \E i \in 1 .. Len(queue') : queue'[i].page = p /\ queue'[i].depth <= d
  BY <1>1 DEF KnownNext
<1>3. \A p \in visited' : p \in DOMAIN nodes' \/ (loading' # None /\ loading'.page = p) \/ ~Reads(p)'
  BY <1>1
<1>4. \A q \in DOMAIN nodes' : Reads(q)' /\ q \in Within'[nodes'[q]]
  BY <1>1
<1>5. visited' \subseteq Within'[cfg'.depth]
  BY <1>1
<1>6. Known(Entry, 0)'
  BY <1>2 DEF Known
<1>7. \A q \in DOMAIN nodes' : nodes'[q] < cfg'.depth =>
        \A p \in ToSet(Links(q)') \ cfg'.off : Known(p, nodes[q] + 1)'
  BY <1>2 DEF Known, Links
<1> QED
  BY <1>3, <1>4, <1>5, <1>6, <1>7 DEF RodFinds

\* Rod starts with the entry page waiting.
LEMMA RodStartsWhole ==
  ASSUME RowsInv, Setup, cfg.engine = "rod", Walking("rod")'
  PROVE  QueueInv' /\ RodFinds'
<1>1. /\ cfg' = cfg /\ DOMAIN nodes' = {} /\ visited' = {} /\ loading' = None
      /\ queue' = <<[page |-> Entry, depth |-> 0]>>
  BY DEF RowsInv, PlaceInv, Fresh, Setup, NoNodes, Walking
<1>2. Len(queue') = 1 /\ 1 \in 1 .. Len(queue') /\ queue'[1].page = Entry /\ queue'[1].depth = 0
  BY <1>1
<1>3. KnownNext(Entry, 0)
  BY <1>2 DEF KnownNext
<1>4. cfg.depth \in Nat
  BY WalkParts DEF RowsInv, Typed
<1>5. RodFinds'
  BY <1>1, <1>3, <1>4, RodFindsNext
<1>6. QueueInv'
  <2>1. \A i \in 1 .. Len(queue') : i = 1
    BY <1>2
  <2> QED
    BY <1>1, <1>2, <2>1 DEF QueueInv
<1> QED
  BY <1>5, <1>6

\* Taking a page from the queue keeps what waits in order, and never ends the
\* walk where the limit does not bind.
LEMMA RodTakesWhole ==
  ASSUME IsFiniteSet(Pages), RowsInv, RodInv, Fits, QueueInv, RodFinds, RodNext, RodTakes
  PROVE  QueueInv' /\ RodFinds' /\ walk' = "walking"
<1> DEFINE item == Head(queue)
<1>0. UNCHANGED <<cfg, nodes>> /\ loading = None /\ walk = "walking" /\ cfg.engine = "rod"
  BY DEF RodNext, Walking
<1>1. /\ queue \in Seq(Item) /\ queue # <<>> /\ Len(queue) \in Nat
      /\ queue' = Tail(queue) /\ visited' = visited \union {item.page}
  BY WalkParts DEF RodTakes, RowsInv, Typed
<1>2. /\ Len(queue') = Len(queue) - 1 /\ item = queue[1] /\ 1 \in 1 .. Len(queue) /\ Len(queue') \in Nat
      /\ \A i \in 1 .. Len(queue') : queue'[i] = queue[i + 1] /\ i + 1 \in 1 .. Len(queue)
      /\ \A i \in 1 .. Len(queue) : i = 1 \/ (i - 1 \in 1 .. Len(queue') /\ queue'[i - 1] = queue[i])
  BY <1>1
<1>21. cfg.depth \in Nat /\ cfg.limit \in Nat
  BY WalkParts DEF RowsInv, Typed
<1>3. /\ item.page \in Within[cfg.depth] /\ item.page \in Pages /\ item.depth \in 0 .. cfg.depth
      /\ \A i \in 1 .. Len(queue) : queue[i].depth \in 0 .. cfg.depth
      /\ \A q \in DOMAIN nodes : nodes[q] \in 0 .. cfg.depth /\ Reads(q) /\ q \in Within[nodes[q]]
  BY <1>2, RodFoundWithin, TypedParts DEF RowsInv, Typed
<1> HIDE DEF item
<1>4. \/ item.page \in visited /\ loading' = loading /\ walk' = walk
      \/ item.page \notin visited /\ loading' = item /\ walk' = walk
  <2>1. CASE item.page \in visited
    BY <2>1 DEF RodTakes, item
  <2>2. CASE item.page \notin visited
    <3>1. Cardinality(visited) < cfg.limit
      BY <1>0, <1>3, <2>2, RodFollows DEF RodFinds
    <3>2. IsFiniteSet(visited) /\ Cardinality(visited') = Cardinality(visited) + 1
      BY <1>1, <2>2, FS_AddElement DEF RodInv
    <3>3. Cardinality(visited) \in Nat
      BY <3>2, FS_CardinalityType
    <3>4. Cardinality(visited') <= cfg.limit /\ ~(Cardinality(visited') > cfg.limit)
      BY <1>21, <3>1, <3>2, <3>3
    <3> QED
      BY <2>2, <3>4 DEF RodTakes, item
  <2> QED
    BY <2>1, <2>2
<1>5. item # None /\ None.depth = -1
  BY <1>3 DEF None
<1>6. \A p, d : d \in Nat /\ Known(p, d) => KnownNext(p, d)
  <2> SUFFICES ASSUME NEW p, NEW d, d \in Nat, Known(p, d) PROVE KnownNext(p, d)
    OBVIOUS
  <2>1. CASE ~Reads(p) \/ (p \in DOMAIN nodes /\ nodes[p] <= d)
    BY <1>0, <2>1 DEF KnownNext
  <2>2. CASE \E i \in 1 .. Len(queue) : queue[i].page = p /\ queue[i].depth <= d
    <3>1. PICK i \in 1 .. Len(queue) : queue[i].page = p /\ queue[i].depth <= d
      BY <2>2
    <3>2. CASE i # 1
      BY <1>2, <3>1, <3>2 DEF KnownNext
    <3>3. CASE i = 1 /\ item.page \notin visited
      BY <1>2, <1>4, <1>5, <3>1, <3>3 DEF KnownNext
    <3>4. CASE i = 1 /\ item.page \in visited
      <4>1. p \in DOMAIN nodes \/ ~Reads(p)
        BY <1>0, <1>2, <3>1, <3>4 DEF RodFinds
      <4>2. p \in DOMAIN nodes => nodes[p] <= queue[1].depth
        BY <1>2 DEF QueueInv
      <4>3. p \in DOMAIN nodes => nodes[p] <= d
        BY <1>2, <1>3, <1>21, <2>2, <3>1, <3>4, <4>2
      <4> QED
        BY <1>0, <4>1, <4>3 DEF KnownNext
    <3> QED
      BY <3>2, <3>3, <3>4
  <2> QED
    BY <1>0, <2>1, <2>2 DEF Known
<1>7. RodFinds'
  <2>1. \A p \in visited' : p \in DOMAIN nodes' \/ (loading' # None /\ loading'.page = p) \/ ~Reads(p)
    BY <1>0, <1>1, <1>4, <1>5 DEF RodFinds
  <2>2. visited' \subseteq Within[cfg.depth]
    BY <1>1, <1>3 DEF RodFinds
  <2>3. \A q \in DOMAIN nodes' : nodes'[q] \in Nat /\ Reads(q) /\ q \in Within[nodes'[q]]
    BY <1>0, <1>3, <1>21
  <2>4. KnownNext(Entry, 0)
    BY <1>6 DEF RodFinds
  <2>5. \A q \in DOMAIN nodes' : nodes'[q] < cfg.depth =>
          \A p \in ToSet(Links(q)) \ cfg.off : KnownNext(p, nodes'[q] + 1)
    <3>1. \A q \in DOMAIN nodes : nodes[q] + 1 \in Nat
      BY <1>3, <1>21
    <3> QED
      BY <1>0, <1>6, <3>1 DEF RodFinds
  <2> QED
    BY <1>0, <1>21, <2>1, <2>2, <2>3, <2>4, <2>5, RodFindsNext
<1>8. QueueInv'
  <2>1. \A i, j \in 1 .. Len(queue') : i <= j =>
          queue'[i].depth <= queue'[j].depth /\ queue'[j].depth <= queue'[i].depth + 1
    <3> SUFFICES ASSUME NEW i \in 1 .. Len(queue'), NEW j \in 1 .. Len(queue'), i <= j
                 PROVE  queue'[i].depth <= queue'[j].depth /\ queue'[j].depth <= queue'[i].depth + 1
      OBVIOUS
    <3>1. /\ queue'[i] = queue[i + 1] /\ i + 1 \in 1 .. Len(queue)
          /\ queue'[j] = queue[j + 1] /\ j + 1 \in 1 .. Len(queue) /\ i + 1 <= j + 1
      BY <1>2
    <3> QED
      BY <3>1 DEF QueueInv
  <2>2. ASSUME NEW i \in 1 .. Len(queue')
        PROVE  /\ loading' # None => loading'.depth <= queue'[i].depth /\ queue'[i].depth <= loading'.depth + 1
               /\ \A q \in DOMAIN nodes' : nodes'[q] <= queue'[i].depth
    <3>1. queue'[i] = queue[i + 1] /\ i + 1 \in 1 .. Len(queue) /\ 1 <= i + 1
      BY <1>2
    <3>2. queue[1].depth <= queue[i + 1].depth /\ queue[i + 1].depth <= queue[1].depth + 1
      BY <1>2, <3>1 DEF QueueInv
    <3>3. loading' # None => loading' = queue[1]
      BY <1>0, <1>2, <1>4
    <3>4. \A q \in DOMAIN nodes' : nodes'[q] <= queue'[i].depth
      BY <1>0, <3>1 DEF QueueInv
    <3> QED
      BY <3>1, <3>2, <3>3, <3>4
  <2>3. loading' # None => \A q \in DOMAIN nodes' : nodes'[q] <= loading'.depth
    BY <1>0, <1>2, <1>4 DEF QueueInv
  <2> QED
    BY <2>1, <2>2, <2>3 DEF QueueInv
<1> QED
  BY <1>0, <1>4, <1>7, <1>8

\* A page visited leaves what it links to waiting, one link further.
LEMMA RodVisitsWhole ==
  ASSUME IsFiniteSet(Pages), RowsInv, RodInv, Fits, QueueInv, RodFinds, RodVisits
  PROVE  QueueInv' /\ RodFinds'
<1> DEFINE page == loading.page
           depth == loading.depth
           links == Links(page)
<1>0. cfg.depth \in Nat /\ Len(queue) \in Nat /\ cfg.engine = "rod" /\ cfg \in Jobs
  BY WalkParts DEF RowsInv, Typed, RodVisits, Walking
<1>1. /\ loading # None /\ loading' = None /\ UNCHANGED <<cfg, visited>>
      /\ page \in Pages /\ depth \in 0 .. cfg.depth
      /\ queue' \in Seq(Item) /\ Len(queue') \in Nat
      /\ \/ ~Reads(page) /\ UNCHANGED <<nodes, queue>>
         \/ /\ Reads(page) /\ nodes' = AddNode(page, depth)
            /\ \/ depth >= cfg.depth /\ queue' = queue
               \/ depth < cfg.depth /\ Extends(queue', Len(links), queue, links, depth + 1)
  BY RodVisitIs DEF Reads
<1>2. /\ page \in visited /\ page \notin DOMAIN nodes /\ page \in Within[depth]
      /\ \A q \in DOMAIN nodes : q \in Pages /\ nodes[q] \in 0 .. cfg.depth /\ Reads(q) /\ q \in Within[nodes[q]]
      /\ \A q \in DOMAIN nodes : nodes[q] <= depth
      /\ \A i \in 1 .. Len(queue) : /\ depth <= queue[i].depth /\ queue[i].depth <= depth + 1
                                    /\ queue[i].depth \in 0 .. cfg.depth
  BY <1>1, RodFoundWithin, TypedParts DEF RodInv, QueueInv, RowsInv, Typed
<1>3. links \in Seq(Pages) /\ Len(links) \in Nat
  BY <1>0, <1>1, JobTyped
<1> HIDE DEF page, depth, links
<1>4. CASE ~Reads(page) /\ UNCHANGED <<nodes, queue>>
  <2>1. \A p, d : Known(p, d) => KnownNext(p, d)
    BY <1>1, <1>4 DEF Known, KnownNext, page, depth
  <2>2. RodFinds'
    <3>1. \A p \in visited' : p \in DOMAIN nodes' \/ (loading' # None /\ loading'.page = p) \/ ~Reads(p)
      BY <1>1, <1>4 DEF RodFinds, page
    <3>2. visited' \subseteq Within[cfg.depth] /\ KnownNext(Entry, 0)
      BY <1>1, <2>1 DEF RodFinds
    <3>3. \A q \in DOMAIN nodes' : nodes'[q] \in Nat /\ Reads(q) /\ q \in Within[nodes'[q]]
      BY <1>2, <1>4
    <3>4. \A q \in DOMAIN nodes' : nodes'[q] < cfg.depth =>
            \A p \in ToSet(Links(q)) \ cfg.off : KnownNext(p, nodes'[q] + 1)
      BY <1>4, <2>1 DEF RodFinds
    <3> QED
      BY <1>0, <1>1, <3>1, <3>2, <3>3, <3>4, RodFindsNext
  <2>3. QueueInv'
    BY <1>1, <1>4 DEF QueueInv
  <2> QED
    BY <2>2, <2>3
<1>5. CASE /\ Reads(page) /\ nodes' = AddNode(page, depth)
           /\ \/ depth >= cfg.depth /\ queue' = queue
              \/ depth < cfg.depth /\ Extends(queue', Len(links), queue, links, depth + 1)
  <2>1. /\ DOMAIN nodes' = DOMAIN nodes \cup {page} /\ nodes'[page] = depth
        /\ \A q \in DOMAIN nodes : nodes'[q] = nodes[q]
    BY <1>2, <1>5 DEF AddNode
  <2>2. \A i \in 1 .. Len(queue) : i \in 1 .. Len(queue') /\ queue'[i] = queue[i]
    BY <1>0, <1>1, <1>5 DEF Extends
  <2>3. \A i \in 1 .. Len(queue') : i \in 1 .. Len(queue) \/ (i > Len(queue) /\ queue'[i].depth = depth + 1)
    <3> SUFFICES ASSUME NEW i \in 1 .. Len(queue'), i \notin 1 .. Len(queue)
                 PROVE  i > Len(queue) /\ queue'[i].depth = depth + 1
      OBVIOUS
    <3>1. i > Len(queue)
      BY <1>0, <1>1
    <3>2. CASE queue' = queue
      BY <3>2
    <3>3. CASE Extends(queue', Len(links), queue, links, depth + 1)
      <4>1. PICK j \in 1 .. Len(links) : queue'[i] = [page |-> links[j], depth |-> depth + 1]
        BY <3>1, <3>3 DEF Extends
      <4> QED
        BY <3>1, <4>1
    <3> QED
      BY <1>5, <3>2, <3>3
  <2>4. \A p, d : Known(p, d) => KnownNext(p, d)
    <3> SUFFICES ASSUME NEW p, NEW d, Known(p, d) PROVE KnownNext(p, d)
      OBVIOUS
    <3>1. CASE ~Reads(p) \/ (p \in DOMAIN nodes /\ nodes[p] <= d)
      BY <2>1, <3>1 DEF KnownNext
    <3>2. CASE loading.page = p /\ loading.depth <= d
      BY <2>1, <3>2 DEF KnownNext, page, depth
    <3>3. CASE \E i \in 1 .. Len(queue) : queue[i].page = p /\ queue[i].depth <= d
      BY <2>2, <3>3 DEF KnownNext
    <3> QED
      BY <3>1, <3>2, <3>3 DEF Known
  <2>5. ASSUME depth < cfg.depth, NEW p \in ToSet(links) \ cfg.off PROVE KnownNext(p, depth + 1)
    <3>1. PICK j \in 1 .. Len(links) : links[j] = p
      BY <1>3, ToSetIs
    <3>2. p \in Pages
      BY <1>3, <3>1
    <3>3. CASE p \in visited
      <4>1. p \in DOMAIN nodes \/ p = page \/ ~Reads(p)
        BY <3>3 DEF RodFinds, page
      <4>2. p \in DOMAIN nodes => p \in DOMAIN nodes' /\ nodes'[p] <= depth + 1
        BY <1>0, <1>1, <1>2, <2>1
      <4>3. page \in DOMAIN nodes' /\ nodes'[page] <= depth + 1
        BY <1>0, <1>1, <2>1
      <4> QED
        BY <4>1, <4>2, <4>3 DEF KnownNext
    <3>4. CASE p \notin visited
      <4>1. depth \in Nat /\ depth + 1 \in Nat /\ depth + 1 <= cfg.depth
        BY <1>0, <1>1, <2>5
      <4>2. p \in Within[depth + 1]
        BY <1>2, <1>5, <3>2, <4>1, LinkWithin DEF links
      <4>3. p \in Within[cfg.depth]
        BY <1>0, <4>1, <4>2, WithinGrows
      <4>4. Cardinality(visited) < cfg.limit
        BY <1>0, <3>4, <4>3, RodFollows DEF RodFinds
      <4>5. Follows(links[j])
        BY <3>1, <3>4, <4>4 DEF Follows, ShouldVisit
      <4>6. Extends(queue', Len(links), queue, links, depth + 1)
        BY <1>0, <1>1, <1>5, <2>5
      <4>7. PICK i \in 1 .. Len(queue') : queue'[i] = [page |-> links[j], depth |-> depth + 1]
        BY <4>5, <4>6 DEF Extends
      <4>8. queue'[i].page = p /\ queue'[i].depth = depth + 1
        BY <3>1, <4>7
      <4>9. queue'[i].depth <= depth + 1
        BY <4>1, <4>8
      <4> QED
        BY <4>8, <4>9 DEF KnownNext
    <3> QED
      BY <3>3, <3>4
  <2>6. RodFinds'
    <3>1. \A p \in visited' : p \in DOMAIN nodes' \/ (loading' # None /\ loading'.page = p) \/ ~Reads(p)
      BY <1>1, <2>1 DEF RodFinds, page
    <3>2. visited' \subseteq Within[cfg.depth] /\ KnownNext(Entry, 0)
      BY <1>1, <2>4 DEF RodFinds
    <3>3. \A q \in DOMAIN nodes' : nodes'[q] \in Nat /\ Reads(q) /\ q \in Within[nodes'[q]]
      BY <1>1, <1>2, <1>5, <2>1
    <3>4. ASSUME NEW q \in DOMAIN nodes', nodes'[q] < cfg.depth, NEW p \in ToSet(Links(q)) \ cfg.off
          PROVE  KnownNext(p, nodes'[q] + 1)
      <4>1. CASE q = page
        BY <2>1, <2>5, <3>4, <4>1 DEF links
      <4>2. CASE q \in DOMAIN nodes
        BY <2>1, <2>4, <3>4, <4>2 DEF RodFinds
      <4> QED
        BY <2>1, <4>1, <4>2
    <3> QED
      BY <1>0, <1>1, <3>1, <3>2, <3>3, <3>4, RodFindsNext
  <2>7. QueueInv'
    <3>1. ASSUME NEW i \in 1 .. Len(queue')
          PROVE  /\ depth <= queue'[i].depth /\ queue'[i].depth <= depth + 1 /\ queue'[i].depth \in Nat
      BY <1>0, <1>1, <1>2, <2>2, <2>3
    <3>2. ASSUME NEW i \in 1 .. Len(queue'), NEW j \in 1 .. Len(queue'), i <= j
          PROVE  queue'[i].depth <= queue'[j].depth /\ queue'[j].depth <= queue'[i].depth + 1
      <4>0. depth \in Nat
        BY <1>1
      <4>1. CASE j \in 1 .. Len(queue)
        <5>1. i \in 1 .. Len(queue) /\ queue'[i] = queue[i] /\ queue'[j] = queue[j]
          BY <1>0, <2>2, <3>2, <4>1
        <5> QED
          BY <3>2, <4>1, <5>1 DEF QueueInv
      <4>2. CASE queue'[j].depth = depth + 1
        BY <3>1, <4>0, <4>2
      <4> QED
        BY <2>3, <4>1, <4>2
    <3>3. ASSUME NEW i \in 1 .. Len(queue'), NEW q \in DOMAIN nodes' PROVE nodes'[q] <= queue'[i].depth
      <4>1. nodes'[q] <= depth /\ nodes'[q] \in Nat /\ depth \in Nat
        BY <1>0, <1>1, <1>2, <2>1
      <4> QED
        BY <3>1, <4>1
    <3> QED
      BY <1>1, <3>2, <3>3 DEF QueueInv
  <2> QED
    BY <2>6, <2>7
<1> QED
  BY <1>1, <1>4, <1>5

\* When the queue is empty and no page is loading, what is in reach was found.
LEMMA RodEnds ==
  ASSUME RowsInv, RodInv, RodFinds, queue = <<>>, loading = None
  PROVE  DOMAIN nodes = {p \in Within[cfg.depth] : Reads(p)}
<1>0. cfg.depth \in Nat
  BY WalkParts DEF RowsInv, Typed
<1>1. \A q \in DOMAIN nodes : q \in Pages /\ nodes[q] \in 0 .. cfg.depth /\ Reads(q) /\ q \in Within[nodes[q]]
  BY RodFoundWithin
<1>2. \A p, d : Known(p, d) /\ Reads(p) => p \in DOMAIN nodes /\ nodes[p] <= d
  <2>1. \A i \in 1 .. Len(queue) : FALSE
    OBVIOUS
  <2> QED
    BY <2>1 DEF Known
<1> DEFINE Bad == {d \in 0 .. cfg.depth : \E p \in Within[d] : Reads(p) /\ ~(p \in DOMAIN nodes /\ nodes[p] <= d)}
<1>3. Bad = {}
  <2> SUFFICES ASSUME Bad # {} PROVE FALSE
    OBVIOUS
  <2>0. Bad \in SUBSET Nat
    BY <1>0
  <2>1. PICK d \in Bad : \A k \in Bad : d <= k
    BY <2>0, LeastNatural
  <2>2. PICK p \in Within[d] : Reads(p) /\ ~(p \in DOMAIN nodes /\ nodes[p] <= d)
    BY <2>1
  <2>3. CASE d = 0
    <3>1. p = Entry
      BY <2>2, <2>3, WithinIs
    <3> QED
      BY <1>2, <2>2, <2>3, <3>1 DEF RodFinds
  <2>4. CASE d # 0
    <3>1. d \in Nat \ {0} /\ d - 1 \in 0 .. cfg.depth /\ d - 1 \in Nat /\ ~(d <= d - 1) /\ d - 1 < cfg.depth
      BY <1>0, <2>1, <2>4
    <3>2. \A q \in Within[d - 1] : Reads(q) => q \in DOMAIN nodes /\ nodes[q] <= d - 1
      BY <2>1, <3>1
    <3>3. p \in Within[d - 1] \/ (p \notin cfg.off /\ \E q \in Within[d - 1] : Reads(q) /\ p \in ToSet(Links(q)))
      <4>1. Within[d] = Within[d - 1] \cup
              {x \in Pages \ cfg.off : \E q \in Within[d - 1] : Reads(q) /\ x \in ToSet(cfg.links[q])}
        BY <3>1, WithinIs
      <4> QED
        BY <2>2, <4>1 DEF Links
    <3>4. CASE p \in Within[d - 1]
      <4>1. p \in DOMAIN nodes /\ nodes[p] <= d - 1 /\ nodes[p] \in Nat
        BY <1>0, <1>1, <2>2, <3>2, <3>4
      <4> QED
        BY <2>2, <3>1, <4>1
    <3>5. CASE p \notin cfg.off /\ \E q \in Within[d - 1] : Reads(q) /\ p \in ToSet(Links(q))
      <4>1. PICK q \in Within[d - 1] : Reads(q) /\ p \in ToSet(Links(q))
        BY <3>5
      <4>2. q \in DOMAIN nodes /\ nodes[q] <= d - 1 /\ nodes[q] \in Nat
        BY <1>0, <1>1, <3>2, <4>1
      <4>3. nodes[q] < cfg.depth
        BY <1>0, <3>1, <4>2
      <4>4. Known(p, nodes[q] + 1)
        BY <3>5, <4>1, <4>2, <4>3 DEF RodFinds
      <4>5. p \in DOMAIN nodes /\ nodes[p] <= nodes[q] + 1
        BY <1>2, <2>2, <4>4
      <4>6. nodes[p] \in Nat
        BY <1>0, <1>1, <4>5
      <4>7. nodes[p] <= d
        BY <3>1, <4>2, <4>5, <4>6
      <4> QED
        BY <2>2, <4>5, <4>7
    <3> QED
      BY <3>3, <3>4, <3>5
  <2> QED
    BY <2>3, <2>4
<1>4. \A p \in Within[cfg.depth] : Reads(p) => p \in DOMAIN nodes
  BY <1>0, <1>3
<1>5. \A q \in DOMAIN nodes : Within[nodes[q]] \subseteq Within[cfg.depth]
  BY <1>0, <1>1, WithinGrows
<1> QED
  BY <1>1, <1>4, <1>5

-----------------------------------------------------------------------------
(* Colly finds what is in reach                                            *)

\* The links on finitely many pages are finitely many.
LEMMA LinksFinite ==
  ASSUME cfg \in Jobs, NEW X \in SUBSET Pages, IsFiniteSet(X)
  PROVE  IsFiniteSet(LinksOf(X))
<1> DEFINE f == [p \in X |-> {p} \X DOMAIN Links(p)]
           T == {{p} \X DOMAIN Links(p) : p \in X}
<1>1. f \in Surjection(X, T)
  BY DEF Surjection
<1>2. IsFiniteSet(T)
  BY <1>1, FS_Surjection
<1>3. ASSUME NEW s \in T PROVE IsFiniteSet(s)
  <2>1. PICK p \in X : s = {p} \X DOMAIN Links(p)
    OBVIOUS
  <2>2. DOMAIN Links(p) = 1 .. Len(Links(p)) /\ Len(Links(p)) \in Nat
    BY JobTyped
  <2>3. IsFiniteSet(DOMAIN Links(p))
    BY <2>2, FS_Interval
  <2> QED
    BY <2>1, <2>3, FS_Singleton, FS_Product
<1>4. IsFiniteSet(UNION T)
  BY <1>2, <1>3, FS_UNION
<1> QED
  BY <1>4 DEF LinksOf

\* What Colly has counted stays below the limit where the limit does not bind.
LEMMA CollyCounts ==
  ASSUME IsFiniteSet(Pages), RowsInv, CollyInv, cfg.engine = "colly", Fits, CollyFinds
  PROVE  /\ count < cfg.limit /\ cfg.depth >= Cardinality(Pages)
         /\ IsFiniteSet(Passes) /\ Cardinality(Passes) \in Nat /\ Cardinality(Passes) >= count
         /\ \A q \in DOMAIN nodes : q \in Pages /\ nodes[q] \in Nat /\ q \in Within[nodes[q]] /\ Within[nodes[q]] \subseteq Within[cfg.depth]
         /\ Cardinality(Asked) \in Nat /\ Cardinality(Asked) <= Cardinality(Pages) /\ Cardinality(Pages) \in Nat
<1>0. cfg.depth \in Nat /\ cfg.limit \in Nat /\ cfg \in Jobs /\ count \in Nat
  BY WalkParts DEF RowsInv, Typed, WalkTyped
<1>1. \A q \in DOMAIN nodes : q \in Pages /\ nodes[q] \in 0 .. cfg.depth /\ q \in Within[nodes[q]]
  BY TypedParts DEF CollyFinds, RowsInv, Typed
<1>2. \A q \in DOMAIN nodes : nodes[q] \in Nat /\ Within[nodes[q]] \subseteq Within[cfg.depth]
  BY <1>0, <1>1, WithinGrows
<1>3. LinksOn(Within[cfg.depth]) = Cardinality(LinksOf(Within[cfg.depth]))
  BY DEF LinksOn, LinksOf, Links
<1>4. Cardinality(LinksOf(Within[cfg.depth])) < cfg.limit /\ cfg.depth >= Cardinality(Pages)
  BY <1>3 DEF Fits
<1>5. Within[cfg.depth] \in SUBSET Pages /\ IsFiniteSet(Within[cfg.depth])
  BY <1>0, WithinPages, FS_Subset
<1>6. IsFiniteSet(LinksOf(Within[cfg.depth])) /\ Cardinality(LinksOf(Within[cfg.depth])) \in Nat
  BY <1>0, <1>5, LinksFinite, FS_CardinalityType
<1>7. Passes \in SUBSET LinksOf(Within[cfg.depth])
  BY <1>1, <1>2 DEF Passes, LinksOf
<1>8. IsFiniteSet(Passes) /\ Cardinality(Passes) \in Nat /\ Cardinality(Passes) <= Cardinality(LinksOf(Within[cfg.depth]))
  BY <1>6, <1>7, FS_Subset, FS_CardinalityType
<1>9. count <= Cardinality(Passes)
  BY DEF CollyFinds
<1>10. count < cfg.limit
  BY <1>0, <1>4, <1>6, <1>8, <1>9
<1>11. Asked \in SUBSET Pages
  BY DEF Asked
<1>12. /\ Cardinality(Asked) \in Nat /\ Cardinality(Asked) <= Cardinality(Pages) /\ Cardinality(Pages) \in Nat
  BY <1>11, FS_Subset, FS_CardinalityType
<1> QED
  BY <1>0, <1>1, <1>2, <1>4, <1>8, <1>9, <1>10, <1>12

\* What each page found has of the links on it.
PageFinds(p) ==
  /\ Reads(p) /\ p \in Within[nodes[p]] /\ (fetch[p].at = "done" => fetch[p].pos = Len(Links(p)) + 1)
  /\ \A i \in 1 .. Len(Links(p)) :
       i < fetch[p].pos => Links(p)[i] \in cfg.off \union Asked

\* CollyFinds in the next state, said of this state's site.
LEMMA CollyFindsNext ==
  ASSUME UNCHANGED cfg, Entry \in Asked',
         \A p \in Asked' : fetch'[p].depth < Cardinality(Asked'),
         \A p \in DOMAIN nodes' :
           /\ nodes'[p] \in Nat /\ Reads(p) /\ p \in Within[nodes'[p]]
           /\ fetch'[p].at = "done" => fetch'[p].pos = Len(Links(p)) + 1
           /\ \A i \in 1 .. Len(Links(p)) :
                i < fetch'[p].pos => Links(p)[i] \in cfg.off \union Asked',
         \A p \in Pages : ~ctx' /\ fetch'[p].at = "done" /\ Reads(p) => p \in DOMAIN nodes',
         count' <= Cardinality(Passes')
  PROVE  CollyFinds'
<1>1. /\ \A d \in Nat : Within'[d] = Within[d]
      /\ \A p : Reads(p)' <=> Reads(p)
      /\ \A p : Links(p)' = Links(p)
  BY SameWithin, SameJob
<1>2. \A p \in DOMAIN nodes' : PageFinds(p)'
  BY <1>1 DEF PageFinds
<1>3. \A p \in Pages : ~ctx' /\ fetch'[p].at = "done" /\ Reads(p)' => p \in DOMAIN nodes'
  BY <1>1
<1> QED
  BY <1>2, <1>3 DEF CollyFinds, PageFinds

\* Colly starts with the entry page asked for.
LEMMA CollyStartsWhole ==
  ASSUME RowsInv, Setup, cfg.engine = "colly", Walking("colly")'
  PROVE  CollyFinds'
<1>1. /\ cfg' = cfg /\ DOMAIN nodes' = {} /\ count' = 0
      /\ fetch = [p \in Pages |-> NotAsked]
      /\ fetch' = [fetch EXCEPT ![Entry] = Sent(0)]
  BY DEF RowsInv, PlaceInv, Fresh, Setup, NoNodes, Walking
<1>2. \A p \in Pages : fetch'[p] = IF p = Entry THEN Sent(0) ELSE NotAsked
  BY <1>1, EntryAssumption
<1>3. Asked' = {Entry} /\ \A p \in Pages : fetch'[p].at # "done"
  BY <1>1, <1>2, EntryAssumption DEF Asked, Sent, NotAsked
<1>4. fetch'[Entry].depth = 0
  BY <1>2, EntryAssumption DEF Sent
<1>5. Cardinality(Asked') = 1
  BY <1>3, FS_Singleton
<1>6. Passes' = {} /\ Cardinality(Passes') = 0
  BY <1>1, FS_EmptySet DEF Passes, LinksOf
<1> QED
  BY <1>1, <1>3, <1>4, <1>5, <1>6, CollyFindsNext

\* The links passed, when one page's request moves on.
LEMMA PassesGrow ==
  ASSUME RowsInv, UNCHANGED cfg, NEW p \in Pages,
         DOMAIN nodes \subseteq DOMAIN nodes', DOMAIN nodes' \in SUBSET Pages,
         IsFiniteSet(Pages), p \in DOMAIN nodes => fetch'[p].pos \in Nat /\ fetch[p].pos <= fetch'[p].pos,
         \A q \in DOMAIN nodes : q # p => fetch'[q].pos = fetch[q].pos
  PROVE  Passes \subseteq Passes' /\ IsFiniteSet(Passes') /\ Cardinality(Passes) <= Cardinality(Passes')
<1>0. cfg \in Jobs /\ \A q : Links(q)' = Links(q)
  BY SameJob, WalkParts DEF RowsInv, Typed
<1>1. \A q \in Pages : fetch[q].pos \in Nat
  BY TypedParts DEF RowsInv, Typed
<1>2. /\ \A x \in LinksOf(DOMAIN nodes) : x[1] \in DOMAIN nodes /\ x[2] \in Nat
      /\ LinksOf(DOMAIN nodes) \subseteq LinksOf(DOMAIN nodes')
  <2>1. \A q \in Pages : DOMAIN Links(q) = 1 .. Len(Links(q)) /\ Len(Links(q)) \in Nat
    BY <1>0, JobTyped
  <2>2. ASSUME NEW x \in LinksOf(DOMAIN nodes)
        PROVE  x[1] \in DOMAIN nodes /\ x[2] \in Nat /\ x \in LinksOf(DOMAIN nodes')
    <3>1. PICK q \in DOMAIN nodes : x \in {q} \X DOMAIN Links(q)
      BY DEF LinksOf
    <3>2. q \in Pages /\ q \in DOMAIN nodes'
      OBVIOUS
    <3>3. x[1] = q /\ x[2] \in DOMAIN Links(q)
      BY <3>1
    <3>4. x[2] \in Nat
      BY <2>1, <3>2, <3>3
    <3> QED
      BY <3>1, <3>2, <3>3, <3>4 DEF LinksOf
  <2> QED
    BY <2>2
<1>3. Passes' = {x \in LinksOf(DOMAIN nodes') : x[2] < fetch'[x[1]].pos}
  BY <1>0 DEF Passes, LinksOf
<1>4. Passes \subseteq Passes'
  <2> SUFFICES ASSUME NEW x \in Passes PROVE x \in Passes'
    OBVIOUS
  <2>1. x \in LinksOf(DOMAIN nodes') /\ x[1] \in DOMAIN nodes /\ x[2] \in Nat /\ x[2] < fetch[x[1]].pos
    BY <1>2 DEF Passes
  <2>2. fetch[x[1]].pos \in Nat
    BY <1>1, <2>1
  <2>3. x[2] < fetch'[x[1]].pos
    BY <2>1, <2>2
  <2> QED
    BY <1>3, <2>1, <2>3
<1>5. IsFiniteSet(DOMAIN nodes') /\ IsFiniteSet(LinksOf(DOMAIN nodes'))
  BY <1>0, FS_Subset, LinksFinite
<1>6. IsFiniteSet(Passes')
  BY <1>3, <1>5, FS_Subset
<1> QED
  BY <1>4, <1>6, FS_Subset

\* Every step of a request keeps what Colly finds.
LEMMA CollyStepWhole ==
  ASSUME IsFiniteSet(Pages), RowsInv, CollyInv, Fits, CollyFinds, NEW p \in Pages, CollyStep(p)
  PROVE  CollyFinds'
<1>0. /\ UNCHANGED cfg /\ cfg.engine = "colly" /\ ctx' = ctx /\ cfg \in Jobs
      /\ fetch'[p].at # "none" /\ fetch'[p].depth = fetch[p].depth
      /\ fetch[p].at \in {"sent", "fetching", "reading", "counting"}
      /\ fetch[p].pos \in Nat /\ fetch[p].depth \in Nat /\ Len(Links(p)) \in Nat
      /\ fetch[p].pos <= Len(Links(p)) + 1 /\ cfg.depth \in Nat /\ cfg.limit \in Nat /\ count \in Nat
  <2>1. ctx' = ctx /\ cfg.engine = "colly"
    BY DEF CollyStep, OnRequest, OnResponse, ReadLink, FollowLink, Walking
  <2>2. cfg.depth \in Nat /\ cfg.limit \in Nat /\ cfg \in Jobs /\ count \in Nat
    BY WalkParts DEF RowsInv, Typed, WalkTyped
  <2>3. fetch[p].pos \in Nat /\ fetch[p].depth \in 0 .. cfg.depth /\ fetch[p].pos <= Len(Links(p)) + 1
    BY TypedParts DEF RowsInv, Typed
  <2>4. Len(Links(p)) \in Nat
    BY <2>2, JobTyped
  <2> QED
    BY <2>1, <2>2, <2>3, <2>4, CollyStepIs
<1>1. /\ count < cfg.limit /\ cfg.depth >= Cardinality(Pages)
      /\ IsFiniteSet(Passes) /\ Cardinality(Passes) \in Nat /\ Cardinality(Passes) >= count
      /\ \A q \in DOMAIN nodes : q \in Pages /\ nodes[q] \in Nat /\ q \in Within[nodes[q]]
      /\ Cardinality(Asked) \in Nat /\ Cardinality(Asked) <= Cardinality(Pages) /\ Cardinality(Pages) \in Nat
  BY <1>0, CollyCounts
<1>2. /\ \A q \in Pages : CollyPage(q)
      /\ \A q \in Asked : Legit(q, fetch[q].depth)
      /\ IsFiniteSet(Asked)
  BY DEF CollyInv, CollyPage
<1>3. /\ Entry \in Asked /\ \A q \in Asked : fetch[q].depth < Cardinality(Asked)
      /\ \A q \in DOMAIN nodes : PageFinds(q)
      /\ \A q \in Pages : ~ctx /\ fetch[q].at = "done" /\ Reads(q) => q \in DOMAIN nodes
  BY DEF CollyFinds, PageFinds
<1>4. p \in Asked
  BY <1>0 DEF Asked
<1>5. DOMAIN nodes' \in SUBSET Pages
  BY CollyTyped DEF RowsInv, Typed, WalkTyped
<1>6. CASE fetch[p].at = "counting"
  <2>1. /\ count' = count + 1 /\ UNCHANGED nodes /\ fetch'[p].at = "reading" /\ Link(p) \in Pages
        /\ fetch'[p].pos = fetch[p].pos + 1 /\ fetch[p].pos \in 1 .. Len(Links(p))
        /\ ~Dispatched(p, Link(p)) => \A q \in Pages : q # p => fetch'[q] = fetch[q]
        /\ Dispatched(p, Link(p)) => /\ Link(p) # p /\ fetch'[Link(p)] = Sent(fetch[p].depth + 1)
                                     /\ \A q \in Pages : q # p /\ q # Link(p) => fetch'[q] = fetch[q]
    BY <1>6, CollyStepIs
  <2>2. p \in DOMAIN nodes /\ nodes[p] = fetch[p].depth
    BY <1>2, <1>6 DEF CollyPage
  <2>3. Link(p) \in Asked' /\ Asked' = Asked \cup {Link(p)}
    <3>1. CASE Dispatched(p, Link(p))
      <4>1. fetch'[Link(p)].at # "none"
        BY <2>1, <3>1 DEF Sent
      <4> QED
        BY <1>0, <2>1, <3>1, <4>1 DEF Asked
    <3>2. CASE ~Dispatched(p, Link(p))
      <4>1. fetch[p].depth < Cardinality(Asked)
        BY <1>3, <1>4
      <4>2. fetch[p].depth + 1 <= cfg.depth
        BY <1>0, <1>1, <4>1
      <4>3. fetch[Link(p)].at # "none"
        BY <3>2, <4>2 DEF Dispatched
      <4>4. Asked' = Asked
        BY <1>0, <2>1, <3>2 DEF Asked
      <4> QED
        BY <2>1, <4>3, <4>4 DEF Asked
    <3> QED
      BY <3>1, <3>2
  <2>4. \A q \in Asked' : fetch'[q].depth < Cardinality(Asked')
    <3>1. CASE Dispatched(p, Link(p))
      <4>1. Link(p) \notin Asked
        BY <3>1 DEF Dispatched, Asked
      <4>2. Cardinality(Asked') = Cardinality(Asked) + 1
        BY <1>2, <2>3, <4>1, FS_AddElement
      <4>3. fetch'[Link(p)].depth = fetch[p].depth + 1 /\ fetch[p].depth < Cardinality(Asked)
        BY <1>3, <1>4, <2>1, <3>1 DEF Sent
      <4>4. ASSUME NEW q \in Asked PROVE fetch'[q].depth = fetch[q].depth /\ fetch[q].depth < Cardinality(Asked) /\ fetch[q].depth \in Nat
        <5>1. q \in Pages /\ q # Link(p)
          BY <4>1 DEF Asked
        <5>2. fetch[q].depth \in 0 .. cfg.depth
          BY <5>1, TypedParts DEF RowsInv, Typed
        <5> QED
          BY <1>0, <1>3, <2>1, <3>1, <5>1, <5>2
      <4>5. ASSUME NEW q \in Asked' PROVE fetch'[q].depth < Cardinality(Asked')
        <5>1. CASE q \in Asked
          BY <1>1, <4>2, <4>4, <5>1
        <5>2. CASE q = Link(p)
          BY <1>0, <1>1, <4>2, <4>3, <5>2
        <5> QED
          BY <2>3, <5>1, <5>2
      <4> QED
        BY <4>5
    <3>2. CASE ~Dispatched(p, Link(p))
      <4>1. Asked' = Asked
        BY <1>0, <2>1, <3>2 DEF Asked
      <4>2. \A q \in Asked : fetch'[q].depth = fetch[q].depth
        BY <1>0, <2>1, <3>2 DEF Asked
      <4> QED
        BY <1>3, <4>1, <4>2
    <3> QED
      BY <3>1, <3>2
  <2>5. ASSUME NEW q \in DOMAIN nodes'
        PROVE  /\ nodes'[q] \in Nat /\ Reads(q) /\ q \in Within[nodes'[q]]
               /\ fetch'[q].at = "done" => fetch'[q].pos = Len(Links(q)) + 1
               /\ \A i \in 1 .. Len(Links(q)) :
                    i < fetch'[q].pos => Links(q)[i] \in cfg.off \union Asked'
    <3>1. q \in DOMAIN nodes /\ nodes'[q] = nodes[q] /\ q \in Pages /\ PageFinds(q)
      BY <1>1, <1>3, <2>1
    <3>2. CASE q = p
      <4>1. ASSUME NEW i \in 1 .. Len(Links(p)), i < fetch'[p].pos PROVE Links(p)[i] \in cfg.off \union Asked'
        <5>1. i < fetch[p].pos \/ i = fetch[p].pos
          BY <1>0, <2>1, <4>1
        <5>2. CASE i < fetch[p].pos
          BY <2>3, <3>1, <3>2, <5>2 DEF PageFinds
        <5>3. CASE i = fetch[p].pos
          BY <2>3, <5>3 DEF Link
        <5> QED
          BY <5>1, <5>2, <5>3
      <4> QED
        BY <1>1, <2>1, <3>1, <3>2, <4>1 DEF PageFinds
    <3>3. CASE q # p
      <4>1. fetch'[q] = fetch[q]
        <5>1. fetch[q].at # "none"
          BY <1>2, <3>1 DEF CollyPage
        <5> QED
          BY <2>1, <3>1, <3>3, <5>1 DEF Dispatched
      <4> QED
        BY <1>1, <2>3, <3>1, <4>1 DEF PageFinds
    <3> QED
      BY <3>2, <3>3
  <2>6. \A q \in Pages : ~ctx' /\ fetch'[q].at = "done" /\ Reads(q) => q \in DOMAIN nodes'
    <3> SUFFICES ASSUME NEW q \in Pages, ~ctx', fetch'[q].at = "done", Reads(q) PROVE q \in DOMAIN nodes'
      OBVIOUS
    <3>1. q # p
      BY <2>1
    <3>2. fetch'[q] = fetch[q] \/ fetch'[q] = Sent(fetch[p].depth + 1)
      BY <2>1, <3>1
    <3>3. fetch'[q] = fetch[q]
      BY <3>2 DEF Sent
    <3> QED
      BY <1>0, <1>3, <2>1, <3>3
  <2>7. count' <= Cardinality(Passes')
    <3> DEFINE x == <<p, fetch[p].pos>>
    <3>1. Passes' = Passes \cup {x} /\ x \notin Passes
      <4>1. \A q \in DOMAIN nodes : q # p => fetch'[q] = fetch[q]
        <5> SUFFICES ASSUME NEW q \in DOMAIN nodes, q # p PROVE fetch'[q] = fetch[q]
          OBVIOUS
        <5>1. q \in Pages /\ fetch[q].at # "none"
          BY <1>1, <1>2 DEF CollyPage
        <5> QED
          BY <2>1, <5>1 DEF Dispatched
      <4>2. Passes' = {y \in LinksOf(DOMAIN nodes) : y[2] < fetch'[y[1]].pos}
        BY <1>0, <2>1 DEF Passes, LinksOf, Links
      <4>3. DOMAIN Links(p) = 1 .. Len(Links(p))
        BY <1>0, JobTyped
      <4>4. x \in LinksOf(DOMAIN nodes) /\ x[1] = p /\ x[2] = fetch[p].pos
        BY <2>1, <2>2, <4>3 DEF LinksOf
      <4>5. ASSUME NEW y \in LinksOf(DOMAIN nodes)
            PROVE  (y[2] < fetch'[y[1]].pos) <=> (y[2] < fetch[y[1]].pos \/ y = x)
        <5>1. PICK q \in DOMAIN nodes : y \in {q} \X DOMAIN Links(q)
          BY DEF LinksOf
        <5>2. y = <<q, y[2]>> /\ y[1] = q /\ y[2] \in DOMAIN Links(q)
          BY <5>1
        <5>3. CASE q = p
          <6>1. y[2] \in Nat
            BY <4>3, <5>2, <5>3
          <6>2. (y[2] < fetch[p].pos + 1) <=> (y[2] < fetch[p].pos \/ y[2] = fetch[p].pos)
            BY <1>0, <6>1
          <6>3. (y[2] = fetch[p].pos) <=> y = x
            BY <5>2, <5>3
          <6> QED
            BY <2>1, <5>2, <5>3, <6>2, <6>3
        <5>4. CASE q # p
          <6>1. fetch'[q] = fetch[q] /\ y # x
            BY <4>1, <5>2, <5>4
          <6> QED
            BY <5>2, <6>1
        <5> QED
          BY <5>3, <5>4
      <4>6. x \notin Passes
        BY <1>0, <4>4 DEF Passes
      <4> HIDE DEF x
      <4>7. Passes' = Passes \cup {x}
        BY <4>2, <4>4, <4>5 DEF Passes
      <4> QED
        BY <4>6, <4>7
    <3>2. Cardinality(Passes') = Cardinality(Passes) + 1
      BY <1>1, <3>1, FS_AddElement
    <3> QED
      BY <1>0, <1>1, <2>1, <3>2
  <2> QED
    BY <1>0, <1>3, <2>3, <2>4, <2>5, <2>6, <2>7, CollyFindsNext
<1>7. CASE fetch[p].at # "counting"
  <2>1. UNCHANGED count /\ \A q \in Pages : q # p => fetch'[q] = fetch[q]
    BY <1>7, CollyStepIs
  <2>2. Asked' = Asked /\ \A q \in Asked' : fetch'[q].depth < Cardinality(Asked')
    <3>1. Asked' = Asked
      BY <1>0, <2>1 DEF Asked
    <3>2. \A q \in Asked : fetch'[q].depth = fetch[q].depth
      BY <1>0, <2>1 DEF Asked
    <3> QED
      BY <1>3, <3>1, <3>2
  \* The request's page, and the links on it, after the step.
  <2> DEFINE Here == /\ p \in DOMAIN nodes' =>
                          /\ nodes'[p] \in Nat /\ Reads(p) /\ p \in Within[nodes'[p]]
                          /\ fetch'[p].at = "done" => fetch'[p].pos = Len(Links(p)) + 1
                          /\ \A i \in 1 .. Len(Links(p)) :
                               i < fetch'[p].pos => Links(p)[i] \in cfg.off \union Asked'
                     /\ ~ctx' /\ fetch'[p].at = "done" /\ Reads(p) => p \in DOMAIN nodes'
                     /\ p \in DOMAIN nodes => fetch'[p].pos \in Nat /\ fetch[p].pos <= fetch'[p].pos
                     /\ DOMAIN nodes \subseteq DOMAIN nodes' /\ DOMAIN nodes' \subseteq DOMAIN nodes \cup {p}
                     /\ \A q \in DOMAIN nodes : q # p => nodes'[q] = nodes[q]
  <2>3. ASSUME Here PROVE CollyFinds'
    <3>1. count' <= Cardinality(Passes')
      <4>1. IsFiniteSet(Passes') /\ Cardinality(Passes) <= Cardinality(Passes')
        <5>1. \A q \in DOMAIN nodes : q # p => fetch'[q].pos = fetch[q].pos
          BY <1>1, <2>1
        <5> QED
          BY <1>0, <1>5, <2>3, <5>1, PassesGrow
      <4>2. Cardinality(Passes') \in Nat
        BY <4>1, FS_CardinalityType
      <4> QED
        BY <1>0, <1>1, <2>1, <4>1, <4>2
    <3>2. ASSUME NEW q \in DOMAIN nodes'
          PROVE  /\ nodes'[q] \in Nat /\ Reads(q) /\ q \in Within[nodes'[q]]
                 /\ fetch'[q].at = "done" => fetch'[q].pos = Len(Links(q)) + 1
                 /\ \A i \in 1 .. Len(Links(q)) :
                      i < fetch'[q].pos => Links(q)[i] \in cfg.off \union Asked'
      <4>1. CASE q = p
        BY <2>3, <4>1
      <4>2. CASE q # p
        <5>1. q \in DOMAIN nodes /\ q \in Pages /\ nodes'[q] = nodes[q] /\ PageFinds(q) /\ fetch'[q] = fetch[q]
          BY <1>1, <1>3, <2>1, <2>3, <4>2
        <5> QED
          BY <1>1, <2>2, <5>1 DEF PageFinds
      <4> QED
        BY <4>1, <4>2
    <3>3. \A q \in Pages : ~ctx' /\ fetch'[q].at = "done" /\ Reads(q) => q \in DOMAIN nodes'
      BY <1>0, <1>3, <2>1, <2>3
    <3> HIDE DEF Here
    <3> QED
      BY <1>0, <1>3, <2>2, <3>1, <3>2, <3>3, CollyFindsNext
  <2>4. CASE fetch[p].at = "sent"
    <3>1. p \notin DOMAIN nodes /\ UNCHANGED nodes
      BY <1>2, <2>4, CollyStepIs DEF CollyPage
    <3>2. ~ctx => fetch'[p].at = "fetching"
      BY <1>0, <1>1, <2>4, CollyStepIs
    <3>3. Here
      BY <1>0, <3>1, <3>2
    <3> QED
      BY <2>3, <3>3
  <2>5. CASE fetch[p].at = "fetching"
    <3>1. p \notin DOMAIN nodes
      BY <1>2, <2>5 DEF CollyPage
    <3>2. CASE UNCHANGED nodes /\ ~Reads(p)
      <4>1. Here
        BY <3>1, <3>2
      <4> QED
        BY <2>3, <4>1
    <3>3. CASE /\ Reads(p) /\ fetch'[p].at = "reading" /\ fetch'[p].pos = 1
               /\ nodes' = AddNode(p, fetch[p].depth)
      <4>1. p \in Within[fetch[p].depth]
        <5>1. \A q \in DOMAIN nodes : Reads(q) /\ q \in Within[nodes[q]] /\ nodes[q] \in Nat
          BY <1>1, <1>3 DEF PageFinds
        <5>2. Legit(p, fetch[p].depth)
          BY <1>2, <1>4
        <5> QED
          BY <1>0, <5>1, <5>2, LegitWithin
      <4>2. /\ DOMAIN nodes' = DOMAIN nodes \cup {p} /\ nodes'[p] = fetch[p].depth
            /\ \A q \in DOMAIN nodes : q # p => nodes'[q] = nodes[q]
        BY <3>3 DEF AddNode
      <4>3. \A i \in 1 .. Len(Links(p)) : ~(i < fetch'[p].pos)
        BY <1>0, <3>3
      <4>4. fetch'[p].at # "done"
        BY <3>3
      <4>5. Here
        BY <1>0, <3>1, <3>3, <4>1, <4>2, <4>3, <4>4
      <4> QED
        BY <2>3, <4>5
    <3> QED
      BY <2>5, <3>1, <3>2, <3>3, CollyStepIs
  <2>6. CASE fetch[p].at = "reading"
    <3>1. p \in DOMAIN nodes /\ nodes[p] = fetch[p].depth /\ UNCHANGED nodes /\ PageFinds(p)
      BY <1>2, <1>3, <2>6, CollyStepIs DEF CollyPage
    <3>2. CASE fetch[p].pos > Len(Links(p)) /\ fetch'[p].at = "done" /\ fetch'[p].pos = fetch[p].pos
      <4>1. fetch'[p].pos = Len(Links(p)) + 1
        BY <1>0, <3>2
      <4>2. Here
        BY <1>0, <1>1, <2>2, <3>1, <3>2, <4>1 DEF PageFinds
      <4> QED
        BY <2>3, <4>2
    <3>3. CASE fetch'[p].at = "counting" /\ fetch'[p].pos = fetch[p].pos
      <4>1. fetch'[p].at # "done"
        BY <3>3
      <4>2. Here
        BY <1>0, <1>1, <2>2, <3>1, <3>3, <4>1 DEF PageFinds
      <4> QED
        BY <2>3, <4>2
    <3>4. CASE /\ fetch[p].pos <= Len(Links(p)) /\ ~ShouldVisit(Link(p), count)
               /\ fetch'[p].at = "reading" /\ fetch'[p].pos = fetch[p].pos + 1
      <4>1. Link(p) \in cfg.off
        BY <1>1, <3>4 DEF ShouldVisit
      <4>2. ASSUME NEW i \in 1 .. Len(Links(p)), i < fetch'[p].pos PROVE Links(p)[i] \in cfg.off \union Asked'
        <5>1. i < fetch[p].pos \/ i = fetch[p].pos
          BY <1>0, <3>4, <4>2
        <5>2. CASE i < fetch[p].pos
          BY <2>2, <3>1, <5>2 DEF PageFinds
        <5>3. CASE i = fetch[p].pos
          BY <4>1, <5>3 DEF Link
        <5> QED
          BY <5>1, <5>2, <5>3
      <4>3. fetch'[p].at # "done" /\ fetch[p].pos <= fetch'[p].pos /\ fetch'[p].pos \in Nat
        BY <1>0, <3>4
      <4>4. nodes[p] \in Nat /\ Reads(p) /\ p \in Within[nodes[p]]
        BY <1>1, <3>1 DEF PageFinds
      <4>5. Here
        BY <3>1, <4>2, <4>3, <4>4
      <4> QED
        BY <2>3, <4>5
    <3> QED
      BY <2>6, <3>2, <3>3, <3>4, CollyStepIs
  <2> QED
    BY <1>0, <1>7, <2>4, <2>5, <2>6
<1> QED
  BY <1>6, <1>7

\* When every request is answered, what is in reach was found.
LEMMA CollyEnds ==
  ASSUME RowsInv, CollyInv, CollyFinds, ~ctx, \A p \in Pages : fetch[p].at \in {"none", "done"}
  PROVE  DOMAIN nodes = {p \in Within[cfg.depth] : Reads(p)}
<1>0. cfg.depth \in Nat /\ cfg \in Jobs
  BY WalkParts DEF RowsInv, Typed
<1>1. \A q \in DOMAIN nodes : q \in Pages /\ nodes[q] \in 0 .. cfg.depth /\ PageFinds(q)
  BY TypedParts DEF CollyFinds, PageFinds, RowsInv, Typed
<1>2. \A q \in Asked : q \in Pages /\ fetch[q].at = "done"
  BY DEF Asked
<1> DEFINE Bad == {d \in Nat : ~(Within[d] \subseteq Asked)}
<1>3. Bad = {}
  <2> SUFFICES ASSUME Bad # {} PROVE FALSE
    OBVIOUS
  <2>0. Bad \in SUBSET Nat
    OBVIOUS
  <2>1. PICK d \in Bad : \A k \in Bad : d <= k
    BY <2>0, LeastNatural
  <2>2. d # 0
    BY <2>1, WithinIs DEF CollyFinds
  <2>3. d \in Nat \ {0} /\ d - 1 \in Nat /\ ~(d <= d - 1)
    BY <2>1, <2>2
  <2>4. Within[d - 1] \subseteq Asked
    BY <2>1, <2>3
  <2>5. Within[d] = Within[d - 1] \cup
          {x \in Pages \ cfg.off : \E q \in Within[d - 1] : Reads(q) /\ x \in ToSet(cfg.links[q])}
    BY <2>3, WithinIs
  <2>6. ASSUME NEW q \in Within[d - 1], Reads(q), NEW p \in ToSet(Links(q)), p \notin cfg.off
        PROVE  p \in Asked
    <3>1. q \in Pages /\ fetch[q].at = "done" /\ q \in DOMAIN nodes
      BY <1>2, <2>4, <2>6 DEF CollyFinds
    <3>2. fetch[q].pos = Len(Links(q)) + 1 /\ Len(Links(q)) \in Nat /\ Links(q) \in Seq(Pages)
      BY <1>0, <1>1, <3>1, JobTyped DEF PageFinds
    <3>3. PICK i \in 1 .. Len(Links(q)) : Links(q)[i] = p
      BY <3>2, ToSetIs
    <3>4. i < fetch[q].pos
      BY <3>2
    <3> QED
      BY <1>1, <2>6, <3>1, <3>3, <3>4 DEF PageFinds
  <2>7. Within[d] \subseteq Asked
    BY <2>4, <2>5, <2>6 DEF Links
  <2> QED
    BY <2>1, <2>7
<1>4. ASSUME NEW p \in Within[cfg.depth], Reads(p) PROVE p \in DOMAIN nodes
  <2>1. p \in Asked
    BY <1>0, <1>3
  <2> QED
    BY <1>2, <1>4, <2>1 DEF CollyFinds
<1>5. \A q \in DOMAIN nodes : q \in Within[nodes[q]] /\ Reads(q) /\ Within[nodes[q]] \subseteq Within[cfg.depth]
  BY <1>0, <1>1, WithinGrows DEF PageFinds
<1> QED
  BY <1>4, <1>5

-----------------------------------------------------------------------------
(* A walk the limit does not cut short finds what is in reach              *)

\* Whether the site fits does not change with the walk.
LEMMA SameFits ==
  ASSUME UNCHANGED cfg, cfg \in Jobs
  PROVE  /\ Fits' <=> Fits
         /\ {p \in Within[cfg.depth] : Reads(p)}' = {p \in Within[cfg.depth] : Reads(p)}
<1>1. Within'[cfg'.depth] = Within[cfg.depth]
  BY SameWithin, JobTyped
<1>2. {p \in Within[cfg.depth] : Reads(p)}' = {p \in Within[cfg.depth] : Reads(p)}
  BY <1>1, SameWithin
<1>3. LinksOn(Within[cfg.depth])' = LinksOn(Within[cfg.depth])
  BY <1>1 DEF LinksOn
<1> QED
  BY <1>1, <1>2, <1>3 DEF Fits

\* How a walk of Rod or Colly comes to its end.
LEMMA WalkEnds ==
  ASSUME RowsInv, [Next]_vars, walk' = "ok", cfg.engine \in {"rod", "colly"}
  PROVE  /\ UNCHANGED nodes
         /\ \/ walk = "ok"
            \/ Walking("rod") /\ RodNext /\ RodTakes
            \/ Walking("rod") /\ queue = <<>> /\ loading = None
            \/ Walking("colly") /\ ~ctx /\ \A p \in Pages : fetch[p].at \in {"none", "done"}
<1>1. CASE UNCHANGED vars
  BY <1>1 DEF vars, walkVars
<1>2. CASE Setup \/ RodVisits \/ Mark \/ Crash
  BY <1>2 DEF Setup, RodVisits, Walking, Mark, Crash, RowsInv, PlaceInv, IsImport
<1>3. CASE RodNext
  BY <1>3 DEF RodNext, RodStops, Walking
<1>4. CASE CollyWaits
  BY <1>4 DEF CollyWaits
<1>5. CASE \E p \in Pages : CollyStep(p)
  BY <1>5 DEF CollyStep, OnRequest, OnResponse, ReadLink, FollowLink, Walking
<1>6. CASE ZapStep
  BY <1>6 DEF ZapStep, ZapStatus, ZapReports, ZapMessages, Walking
<1>7. CASE SpiderSteps \/ SpiderEnds \/ Report \/ ReporterEnds
  BY <1>7 DEF SpiderSteps, SpiderEnds, Report, ReporterEnds
<1>8. CASE Start \/ Register \/ Returned \/ Ended \/ StoreGraph \/ CancelWrites \/ ReadForPlan \/ CreatePlan
  BY <1>8 DEF Start, Register, Returned, Ended, StoreGraph, CancelWrites, ReadForPlan, CreatePlan, walkVars
<1>9. CASE WriteReport \/ Unregister \/ Cancel
  BY <1>9 DEF WriteReport, Unregister, Cancel
<1>10. CASE FetchSpec
  BY <1>10 DEF FetchSpec, RowsInv, PlaceInv, IsImport
<1> QED
  BY <1>1, <1>2, <1>3, <1>4, <1>5, <1>6, <1>7, <1>8, <1>9, <1>10
  DEF Next, Engine, Walks, WalkNext, EngineStep, Goroutine

\* The inductive invariant of whole walks.
WholeInv == WalksInv /\ FindInv

\* While Rod walks a site that fits, everything in reach is found or waits.
LEMMA RodWholeNext ==
  ASSUME IsFiniteSet(Pages), WholeInv, [Next]_vars, Walking("rod")', Fits
  PROVE  QueueInv' /\ RodFinds'
<1>1. RowsInv /\ cfg' = cfg /\ (Walking("rod") => RodInv /\ QueueInv /\ RodFinds)
  BY WalkSteps DEF WholeInv, WalksInv, BoundInv, FindInv
<1>2. CASE Setup /\ cfg.engine = "rod"
  BY <1>1, <1>2, RodStartsWhole
<1>3. CASE RodNext
  <2>1. Walking("rod") /\ RodTakes
    BY <1>3 DEF RodNext, RodStops, Walking
  <2> QED
    BY <1>1, <1>3, <2>1, RodTakesWhole
<1>4. CASE RodVisits
  <2>1. Walking("rod")
    BY <1>4 DEF RodVisits
  <2> QED
    BY <1>1, <1>4, <2>1, RodVisitsWhole
<1>5. CASE Walking("rod") /\ UNCHANGED <<nodes, rodVars>>
  <2>1. QueueInv /\ RodFinds /\ UNCHANGED <<cfg, nodes, visited, queue, loading>>
    BY <1>1, <1>5 DEF rodVars
  <2>2. QueueInv'
    BY <2>1 DEF QueueInv
  <2>3. /\ cfg.depth \in Nat /\ KnownNext(Entry, 0)
        /\ \A q \in DOMAIN nodes' : nodes'[q] \in Nat
        /\ \A q \in DOMAIN nodes' : nodes'[q] < cfg.depth =>
             \A p \in ToSet(Links(q)) \ cfg.off : KnownNext(p, nodes'[q] + 1)
    <3>1. \A p, d : KnownNext(p, d) <=> Known(p, d)
      BY <2>1 DEF KnownNext, Known
    <3>2. \A q \in DOMAIN nodes : nodes[q] \in Nat
      BY <1>1, TypedParts DEF RowsInv, Typed
    <3>3. cfg.depth \in Nat
      BY <1>1, WalkParts DEF RowsInv, Typed
    <3> QED
      BY <2>1, <3>1, <3>2, <3>3 DEF RodFinds
  <2>4. RodFinds'
    BY <2>1, <2>3, RodFindsNext DEF RodFinds
  <2> QED
    BY <2>2, <2>4
<1> QED
  BY <1>1, <1>2, <1>3, <1>4, <1>5, WalkSteps

\* While Colly walks a site that fits, likewise.
LEMMA CollyWholeNext ==
  ASSUME IsFiniteSet(Pages), WholeInv, [Next]_vars, Walking("colly")', Fits
  PROVE  CollyFinds'
<1>1. RowsInv /\ cfg' = cfg /\ (Walking("colly") => CollyInv /\ CollyFinds)
  BY WalkSteps DEF WholeInv, WalksInv, BoundInv, FindInv
<1>2. CASE Setup /\ cfg.engine = "colly"
  BY <1>1, <1>2, CollyStartsWhole
<1>3. ASSUME NEW p \in Pages, CollyStep(p) PROVE CollyFinds'
  BY <1>1, <1>3, CollyStepIs, CollyStepWhole
<1>4. CASE Walking("colly") /\ UNCHANGED <<nodes, collyVars>> /\ (ctx => ctx')
  <2>1. CollyFinds /\ UNCHANGED <<cfg, nodes, fetch, count>> /\ (ctx => ctx')
    BY <1>1, <1>4 DEF collyVars
  <2>2. \A p \in DOMAIN nodes : nodes[p] \in Nat
    BY <1>1, TypedParts DEF RowsInv, Typed
  <2>3. Asked' = Asked /\ Passes' = Passes
    BY <2>1 DEF Asked, Passes, LinksOf, Links
  <2> QED
    BY <2>1, <2>2, <2>3, CollyFindsNext DEF CollyFinds
<1> QED
  BY <1>1, <1>2, <1>3, <1>4, WalkSteps

\* A walk of a site that fits ends with everything in reach.
LEMMA WalkIsWholeNext ==
  ASSUME IsFiniteSet(Pages), WholeInv, [Next]_vars, walk' = "ok", Fits
  PROVE  DOMAIN nodes = {p \in Within[cfg.depth] : Reads(p)} /\ UNCHANGED nodes
<1>1. RowsInv /\ cfg' = cfg /\ (Walking("rod") => RodInv /\ QueueInv /\ RodFinds)
  BY WalkSteps DEF WholeInv, WalksInv, BoundInv, FindInv
<1>2. Walking("colly") => CollyInv /\ CollyFinds
  BY DEF WholeInv, WalksInv, BoundInv, FindInv
<1>3. UNCHANGED nodes
  BY <1>1, WalkEnds DEF Fits
<1>4. CASE walk = "ok"
  BY <1>3, <1>4 DEF WholeInv, FindInv, WalkIsWhole
<1>5. ~(Walking("rod") /\ RodNext /\ RodTakes)
  BY <1>1, RodTakesWhole
<1>6. CASE Walking("rod") /\ queue = <<>> /\ loading = None
  BY <1>1, <1>3, <1>6, RodEnds
<1>7. CASE Walking("colly") /\ ~ctx /\ \A p \in Pages : fetch[p].at \in {"none", "done"}
  BY <1>1, <1>2, <1>3, <1>7, CollyEnds
<1> QED
  BY <1>1, <1>4, <1>5, <1>6, <1>7, WalkEnds DEF Fits

\* Every step keeps the invariant of whole walks.
LEMMA WholeStep == ASSUME IsFiniteSet(Pages) PROVE WholeInv /\ [Next]_vars => WholeInv'
<1> SUFFICES ASSUME WholeInv, [Next]_vars PROVE WholeInv'
  OBVIOUS
<1>1. WalksInv' /\ RowsInv /\ UNCHANGED cfg /\ cfg \in Jobs
  BY WalksStep, WalkSteps, WalkParts DEF WholeInv, WalksInv, RowsInv, Typed
<1>2. /\ Fits' <=> Fits
      /\ {p \in Within[cfg.depth] : Reads(p)}' = {p \in Within[cfg.depth] : Reads(p)}
  BY <1>1, SameFits
<1>3. Walking("rod")' /\ Fits' => QueueInv' /\ RodFinds'
  BY <1>2, RodWholeNext
<1>4. Walking("colly")' /\ Fits' => CollyFinds'
  BY <1>2, CollyWholeNext
<1>5. WalkIsWhole'
  BY <1>2, WalkIsWholeNext DEF WalkIsWhole
<1> QED
  BY <1>1, <1>3, <1>4, <1>5 DEF WholeInv, FindInv

\* A walk that ends by itself, and that the limit did not cut short, has found
\* exactly the pages in reach; and every plan has the whole graph.
THEOREM CrawlWhole == ASSUME IsFiniteSet(Pages) PROVE Spec => []CrawlIsWhole
<1>1. Init => FindInv
  BY DEF Init, WalkInit, Walking, FindInv, WalkIsWhole
<1>2. WalksInv /\ FindInv => CrawlIsWhole
  BY DEF FindInv, CrawlIsWhole, WalksInv, RowsInv, RowInv
<1>3. WalksInv /\ FindInv /\ [Next]_vars => FindInv'
  BY WholeStep DEF WholeInv
<1> QED
  BY <1>1, <1>2, <1>3, WalksHold, PTL DEF Spec
=============================================================================
