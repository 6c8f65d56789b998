------------------------------- MODULE Plans -------------------------------
(***************************************************************************)
(* A plan from where it comes from to what a VU does with it: it is drawn, *)
(* imported or generated, compiled for a run, and the script run by a VU   *)
(* of k6, iteration by iteration, while the run may be paused and resumed. *)
(* A job is [kind, from, opts].                                            *)
(***************************************************************************)
EXTENDS PlanSources, PlanMeaning, FiniteSetsExt

CONSTANTS
  Jobs,       \* where plans come from, and how they are compiled
  Conds,      \* the conditions that stand in plans
  Statuses,   \* of responses
  Rands,      \* values of Math.random(), in whole numbers
  MaxIter,    \* iterations a VU does
  MayHold     \* the run may be paused

VARIABLES job, plan, script, vu, turn, t
vars == <<job, plan, script, vu, turn, t>>

NoPlan == [type |-> "none"]
NoScript == [ok |-> FALSE]
NoTurn == [fn |-> 0]

Unmade ==
  /\ plan = NoPlan /\ script = NoScript /\ turn = NoTurn /\ t = 0
  /\ vu = [fn |-> 0, iter |-> 0, active |-> 0, once |-> 0]

Init == job \in Jobs /\ Unmade

\* The plan is stored: PlanHandlers.Create, ImportHandlers.ImportJMX or
\* CrawlHandler.GeneratePlan.
Make ==
  /\ plan = NoPlan
  /\ plan' = CASE job.kind = "openapi" -> GeneratePlanFromOpenAPI(job.from)
               [] job.kind = "jmx" -> ImportJMX(job.from)
               [] job.kind = "requests" -> GeneratePlanFromRequests(job.from)
               [] OTHER -> job.from
  /\ UNCHANGED <<job, script, vu, turn, t>>

Compile ==
  /\ plan /= NoPlan /\ script = NoScript
  /\ script' = CompileWithOptions(plan, job.opts)
  /\ UNCHANGED <<job, plan, vu, turn, t>>

\* Mutant: the pause is looked at after the iteration, not before.
Held_Late(control, hold) == FALSE

\* __osSync: a held iteration comes to nothing, but k6 has counted it.
Held(control, hold) == control /\ hold

SendsOnce(ev) == \E i \in DOMAIN ev : ev[i][1] = "request" /\ "once" \in {ev[i][2][j] : j \in DOMAIN ev[i][2]}
\* An iteration of the VU, whose function the first one settles.
Iterate ==
  /\ script.ok /\ job.kind /= "load" /\ vu.iter < MaxIter /\ Parses(script)
  /\ \E fn \in IF vu.fn = 0 THEN DOMAIN script.functions ELSE {vu.fn},
        conds \in [Conds -> BOOLEAN], status \in Statuses, rand \in Rands,
        hold \in IF MayHold THEN BOOLEAN ELSE {FALSE} :
       LET env  == [conds |-> conds, status |-> status, rand |-> rand,
                    iter |-> vu.iter, paced |-> script.control]
           held == Held(script.control, hold)
           ev   == IF held THEN <<>> ELSE Events(script.functions[fn].body, env)
       IN  /\ hold => script.control
           /\ turn' = [fn |-> fn, env |-> env, hold |-> hold, ev |-> ev]
           /\ vu' = [fn |-> fn, iter |-> vu.iter + 1, active |-> vu.active + (IF held THEN 0 ELSE 1),
                     once |-> vu.once + (IF SendsOnce(ev) THEN 1 ELSE 0)]
  /\ UNCHANGED <<job, plan, script, t>>

\* Mutant: the schedule has no end.
Tick_Endless ==
  /\ script.ok /\ job.kind = "load"
  /\ t' = t + 1
  /\ UNCHANGED <<job, plan, script, vu, turn>>

\* A second of a run whose VUs the engine drives.
Tick ==
  /\ script.ok /\ job.kind = "load" /\ t <= script.planned
  /\ t' = t + 1
  /\ UNCHANGED <<job, plan, script, vu, turn>>

Next == Make \/ Compile \/ Iterate \/ Tick
Spec == Init /\ [][Next]_vars
------------------------------------------------------------------------------
Compiled == script /= NoScript
Ready == Compiled /\ script.ok

TypeOK ==
  /\ t \in Nat /\ (t > 0 => Ready /\ t <= script.planned + 1)
  /\ vu.iter \in 0 .. MaxIter /\ vu.active \in 0 .. vu.iter /\ vu.once \in 0 .. vu.iter
  /\ turn /= NoTurn => turn.fn \in DOMAIN script.functions

\* What an iteration of the script does is what the plan says: its requests,
\* pauses and checks in their order, each check of the right response, for
\* every outcome of conditions and chance, in standalone and managed mode; and
\* nothing while the run is paused.
RunsThePlan ==
  turn /= NoTurn =>
    turn.ev = IF turn.hold THEN <<>> ELSE MeantBy(NodesOf(plan, turn.fn), turn.env)

\* A script that compiles is one k6 can load, if an else stands after its if;
\* and a plan the program made itself, of a document, a JMeter file or a
\* crawl, does compile.
ScriptParses ==
  Compiled =>
    /\ script.ok \/ job.kind \in {"drawn", "load"}
    /\ script.ok /\ ElseFollowsIf(plan.kids) => Parses(script)

\* A plan's script loads, and what it does is the plan.
ScriptIsThePlan == ScriptParses /\ RunsThePlan

RECURSIVE Fits(_, _, _)
\* The value is one the schema allows, up to the depth where examples end.
Fits(schemas, sch, v) ==
  v = Nothing \/
  CASE sch.kind = "ref" -> Fits(schemas, schemas[sch.to], v)
    [] sch.kind = "allOf" ->
         \A i \in DOMAIN sch.parts : Fits(schemas, sch.parts[i], v)
    [] sch.kind \in {"oneOf", "anyOf"} -> \E i \in DOMAIN sch.parts : Fits(schemas, sch.parts[i], v)
    [] sch.kind = "object" ->
         /\ v.kind = "object" /\ DOMAIN sch.fields \subseteq DOMAIN v.fields
         /\ \A f \in DOMAIN sch.fields : Fits(schemas, sch.fields[f], v.fields[f])
    [] sch.kind = "array" ->
         /\ v.kind = "array"
         /\ \A i \in DOMAIN v.items : v.items[i] /= Nothing /\ Fits(schemas, sch.items, v.items[i])
    [] OTHER -> v.kind = sch.kind

\* The parameter an operation has of a name and place: its own, or the path's.
Parameters(path, m) ==
  LET own == {path.ops[m].params[i] : i \in DOMAIN path.ops[m].params}
  IN  own \union {p \in {path.params[i] : i \in DOMAIN path.params} : \A q \in own : ~Same(p, q)}

\* The sampler n asks for the operation: where it says, with the parameters it
\* has or shares and a body its schema allows.
Samples(spec, path, m, n) ==
  LET named(w) == {p \in Parameters(path, m) : p.in = w} IN
  /\ n.p.method = m /\ n.id = Append(path.id, m)
  /\ n.p.headers = {p.name : p \in named("header")}
  /\ n.p.query = {p.name : p \in {q \in named("query") : q.required}}
  /\ \A p \in named("path"), k \in DOMAIN n.p.url :
       n.p.url[k][2] = p.name => n.p.url[k][1] = IF p.example THEN "val" ELSE "ref"
  /\ n.p.body /= NoBody =>
       LET body == path.ops[m].body
       IN  IF "example" \in DOMAIN body THEN n.p.body = body.example ELSE Fits(spec.schemas, body, n.p.body)
  /\ (\E k \in DOMAIN spec.servers : spec.servers[k].host = spec.docHost) => n.p.base = spec.docHost

\* Each operation an OpenAPI document gives is one sampler of the plan made of
\* it; each request a crawl captured is one of the plan made of the crawl.
OneSamplerEach ==
  plan /= NoPlan =>
    LET samplers == IF plan.kids = <<>> THEN <<>> ELSE plan.kids[1].kids IN
    /\ job.kind = "openapi" =>
         \A i \in DOMAIN job.from.paths :
           LET path == job.from.paths[i] IN
           \A m \in DOMAIN path.ops \ {"OPTIONS", "HEAD"} :
             Cardinality({k \in DOMAIN samplers : Samples(job.from, path, m, samplers[k])}) = 1
    /\ job.kind = "requests" =>
         \A i \in DOMAIN job.from :
           Cardinality({k \in DOMAIN samplers : samplers[k].id = <<job.from[i].url, job.from[i].method>>}) = 1

RECURSIVE Nested(_, _)
\* A JMeter file as JMeter reads it: under each element what is in the tree
\* that follows it.
Nested(els, i) ==
  IF i > Len(els) THEN <<>> ELSE
  LET el    == els[i]
      under == IF i < Len(els) /\ els[i+1].tag = "hashTree" THEN Nested(els[i+1].kids, 1) ELSE <<>>
  IN  (CASE TypeOf(el.tag) /= "none" ->
              << [Node(TypeOf(el.tag), el.name, el.name, under, PropsOf(el)) EXCEPT !.on = el.on] >>
         [] el.tag = "TestPlan" -> under
         [] OTHER -> <<>>)
      \o Nested(els, i + 1)

Requests(ev) == SelectSeq(ev, LAMBDA e : e[1] = "request")
\* An imported JMeter plan sends the requests of its file, when the file says.
ImportSendsTheSame ==
  turn /= NoTurn /\ job.kind = "jmx" /\ ~turn.hold =>
    Requests(turn.ev) = Requests(MeantBy(ScenariosOf(PlanOf(Nested(job.from[1].kids, 1)))[turn.fn].kids, turn.env))

\* What is imported or generated keeps what it is made of: operations,
\* captured requests, the requests of a JMeter file.
ImportsKeep == OneSamplerEach /\ ImportSendsTheSame

\* The children of a once-only controller run once in the life of a VU: not
\* again, and not never once it does iterations at all.
OncePerVU ==
  vu.active > 0 /\ SendsOnce(MeantBy(NodesOf(plan, turn.fn), [turn.env EXCEPT !.iter = 0]))
    => vu.once = 1

\* The profile of a plan is followed as OnRamp says, at every second.
OnTheRamp ==
  Ready /\ job.kind = "load" /\ script.planned > 0 => OnRamp(script.profile, t)

\* The limits k6 is started with hold what the profile asks for at any time,
\* and what the Run dialog asked for; live control is there for as long, and
\* only where the engine ends the run.
LoadFits ==
  Ready =>
    LET ov == job.opts.overrides
        own == {i \in DOMAIN script.scenarios : script.scenarios[i].load.executor = "externally-controlled"}
    IN  /\ script.planned > 0 => Suits(script.profile, script.maxVUs, script.max, ov, t)
        /\ script.control =>
             /\ own /= {} /\ script.planned > 0
             /\ script.scenarios[Len(script.scenarios)].load.len >= script.planned

\* The engine drives the VU count along the profile, within what the script
\* allows for as long.
LoadIsRight == OnTheRamp /\ LoadFits
=============================================================================
