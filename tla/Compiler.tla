------------------------------ MODULE Compiler ------------------------------
(***************************************************************************)
(* compiler/compiler.go: the tree of a plan's nodes becomes a k6 script.   *)
(* A script is kept as the tree of its statements, an expression as its    *)
(* label, and a name as the sequence of its characters that matter, so     *)
(* that two names may become one.  Comments, headers, bodies, timeouts and *)
(* thresholds are data no statement depends on.                            *)
(***************************************************************************)
EXTENDS Integers, Sequences, FiniteSets, PlanParts

CONSTANTS MinBuffer, MaxBuffer   \* of a run's maximum duration: 5 minutes and 24 hours

Enabled(nodes) == SelectSeq(nodes, LAMBDA n : n.on)
OfType(nodes, types) == SelectSeq(nodes, LAMBDA n : n.type \in types)
NoProps == [none |-> 0]

------------------------------------------------------------------------------
(* The statements of a function, emitted into c.body: c is the compiler. *)

\* A ${NAME} in a node's texts, or __vars in its code: the script needs __v().
Refs(p) == "refs" \in DOMAIN p
Res == <<"res">>   \* the variable every request's response is assigned to
Request(v, node, allows, paced) ==
  [k |-> "request", v |-> v, id |-> node.id, refs |-> Refs(node.p), allows |-> allows, paced |-> paced]
If(cond, body) == [k |-> "if", cond |-> cond, body |-> body, two |-> FALSE, other |-> <<>>]
Stray(body) == [k |-> "stray", body |-> body]   \* an else with no if before it

NewCompiler(control) ==
  [body |-> <<>>, imports |-> {}, data |-> <<>>, vars |-> FALSE, err |-> FALSE, control |-> control]
Emit(c, stmt) == [c EXCEPT !.body = Append(@, stmt)]
\* The statement made of a block, whose compiler has all but the body of c.
Close(c, block, stmt) == [block EXCEPT !.body = Append(c.body, stmt)]
Import(c, names) == [c EXCEPT !.imports = @ \union names]
UsesVars(c, p) == IF Refs(p) THEN [c EXCEPT !.vars = TRUE] ELSE c

\* The statuses a request's own assertions expect, which are no failures then.
ExpectedStatuses(kids) ==
  LET expects(k) == /\ k.on /\ k.type = "assertion" /\ k.p.condition = "equals" /\ ~k.p.negate
                    /\ k.p.value \in 400 .. 599
  IN  { kids[i].p.value : i \in {j \in DOMAIN kids : expects(kids[j])} }

\* A check of the request it stands under, or of the last response if any.
EmitAssertion(c, node, of) ==
  LET check == [k |-> "check", id |-> node.id, of |-> of, expr |-> node.p]
  IN  Emit(Import(c, {"check"}), IF of = Res THEN If("res", <<check>>) ELSE check)

EmitTimer(c, node) == Emit(Import(c, {"sleep"}), [k |-> "sleep", id |-> node.id])
EmitCodeBlock(c, node) == Emit(UsesVars(c, node.p), [k |-> "code", id |-> node.id, refs |-> Refs(node.p)])
EmitWebSocket(c, node) ==
  Emit(UsesVars(Import(c, IF node.p.expects THEN {"ws", "check"} ELSE {"ws"}), node.p),
       [k |-> "socket", v |-> VarName(node.id), id |-> node.id, refs |-> Refs(node.p)])
EmitDataSource(c, node) ==
  [Import(c, {"SharedArray"}) EXCEPT !.data =
     Append(@, VarName(IF node.p.variable = <<>> THEN node.id ELSE node.p.variable))]

Weights(node) ==
  LET kids == Enabled(node.kids)
  IN  IF Len(node.p.weights) = Len(kids) THEN node.p.weights ELSE [i \in DOMAIN kids |-> 1]

RECURSIVE EmitNode(_, _, _), EmitSeq(_, _, _), EmitBranches(_, _)
Block(c, kids) == EmitSeq([c EXCEPT !.body = <<>>], kids, Res)

Methods == {"", "GET", "HEAD", "OPTIONS", "DELETE", "POST", "PUT", "PATCH"}
EmitHTTP(c, node) ==
  LET v == VarName(node.id)
      asks == Emit(UsesVars(Import(c, {"http"}), node.p),
                   Request(v, node, ExpectedStatuses(node.kids), c.control))
  IN  EmitSeq([asks EXCEPT !.err = @ \/ node.p.method \notin Methods], node.kids, v)

EmitIfController(c, node) ==
  LET block == Block(c, node.kids)
  IN  Close(c, block, If(IF node.p.cond = "" THEN "true" ELSE node.p.cond, block.body))
EmitOnceOnlyController(c, node) ==
  LET block == Block(c, node.kids) IN Close(c, block, If("__ITER === 0", block.body))

\* The text " else {" goes right after a closing brace: it is the else of an if
\* whose statement was the last one, and of nothing otherwise.
EmitElseController(c, node) ==
  LET block == Block(c, node.kids)
      n     == Len(c.body)
  IN  IF n > 0 /\ c.body[n].k = "if" /\ ~c.body[n].two
      THEN [block EXCEPT !.body = [c.body EXCEPT ![n].two = TRUE, ![n].other = block.body]]
      ELSE Close(c, block, Stray(block.body))

EmitLoopController(c, node) ==
  LET block == Block(c, node.kids)
  IN  Close(c, block, IF node.p.while /= ""
                      THEN [k |-> "while", cond |-> node.p.while, body |-> block.body]
                      ELSE [k |-> "for", n |-> node.p.count, body |-> block.body])
EmitTransactionController(c, node) ==
  LET block == Block(c, node.kids)
  IN  Close(c, Import(block, {"group"}), [k |-> "group", id |-> node.id, body |-> block.body])
EmitRandomController(c, node) ==
  LET made == EmitBranches([c EXCEPT !.body = <<>>], Enabled(node.kids))
  IN  IF Enabled(node.kids) = <<>> THEN c
      ELSE Close(c, made.c, [k |-> "pick", bounds |-> Bounds(Weights(node)), branches |-> made.bodies])
EmitBranches(c, kids) ==
  IF kids = <<>> THEN [c |-> c, bodies |-> <<>>]
  ELSE LET first == EmitNode([c EXCEPT !.body = <<>>], Head(kids), Res)
           rest  == EmitBranches(first, Tail(kids))
       IN  [rest EXCEPT !.bodies = <<first.body>> \o @]

EmitNode(c, node, of) ==
  IF ~node.on THEN c ELSE
  CASE node.type = "http" -> EmitHTTP(c, node)
    [] node.type = "websocket" -> EmitWebSocket(c, node)
    [] node.type = "code-block" -> EmitCodeBlock(c, node)
    [] node.type = "if-controller" -> EmitIfController(c, node)
    [] node.type = "else-controller" -> EmitElseController(c, node)
    [] node.type = "loop-controller" -> EmitLoopController(c, node)
    [] node.type = "transaction-controller" -> EmitTransactionController(c, node)
    [] node.type = "once-only-controller" -> EmitOnceOnlyController(c, node)
    [] node.type = "random-controller" -> EmitRandomController(c, node)
    [] node.type = "assertion" -> EmitAssertion(c, node, of)
    [] node.type = "timer" -> EmitTimer(c, node)
    [] node.type = "data-source" -> EmitDataSource(c, node)
    [] node.type = "environment-binding" -> c
    [] OTHER -> [c EXCEPT !.err = TRUE]
EmitSeq(c, nodes, of) ==
  IF nodes = <<>> THEN c ELSE EmitSeq(EmitNode(c, Head(nodes), of), Tail(nodes), of)
------------------------------------------------------------------------------
(* Scenarios and the script.                                                *)

\* The scenarios compiled so far: their keys, functions, options and bodies.
NoProfile == [start |-> 0, stages |-> <<>>]
NewResult == [scenarios |-> <<>>, profile |-> NoProfile, maxVUs |-> 0, max |-> 0]

\* One scenario, of the key it was given; the state of the compiler is [c, res].
EmitScenario(st, node, key, kids, managed, opts) ==
  LET profile == ProfileFor(node.p, opts.overrides)
      driven  == managed /\ Duration(profile) > 0
      load    == IF opts.managed THEN ApplyNativeOverrides(node.p, opts.overrides) ELSE node.p
      top     == MaxVUsFor(node.p, profile)
      body    == EmitSeq([st.c EXCEPT !.body = <<>>, !.err = @ \/ (managed /\ ~driven)], kids, Res)
      out     == [key |-> key, fn |-> <<"scenario">> \o VarName(key), body |-> body.body,
                  load |-> IF managed THEN [NoLoad EXCEPT !.executor = "externally-controlled", !.vus = profile.start, !.maxVUs = top]
                           ELSE load]
      res     == [st.res EXCEPT !.scenarios = Append(@, out)]
  IN  [c   |-> [body EXCEPT !.body = <<>>],
       res |-> IF ~driven THEN res
               ELSE [res EXCEPT !.profile = profile, !.maxVUs = top,
                                !.max = MaxDurationFor(Duration(profile), MinBuffer, MaxBuffer)]]

Synthesized(loose) ==
  Node("scenario", <<"default">>, <<"default">>, loose,
       [NoLoad EXCEPT !.executor = "constant-vus", !.vus = 1, !.len = 30])

\* Nodes outside any scenario run as part of the first scenario.
KidsOf(i, scenario, loose) == (IF i = 1 THEN loose ELSE <<>>) \o scenario.kids

\* compilePlan: the whole plan, with opts [managed, kv, overrides, instances].
CompilePlan(root, opts) ==
  LET nodes  == Enabled(root.kids)
      given  == OfType(nodes, {"scenario"})
      loose  == SelectSeq(nodes, LAMBDA n : n.type \notin {"data-source", "environment-binding", "scenario"})
      alone  == given = <<>> /\ opts.managed
      scen   == IF alone THEN <<Synthesized(loose)>> ELSE given
      rest   == IF alone THEN <<>> ELSE loose
      drives == {i \in DOMAIN scen : opts.managed /\ IsVUBased(scen[i].p)}
      handed == IF Cardinality(drives) = 1 THEN drives ELSE {}
      keys   == KeysOf([i \in DOMAIN scen |-> ScenarioName(scen[i].name)])
      first  == EmitSeq(NewCompiler(opts.kv /\ handed /= {}), OfType(nodes, {"data-source"}), Res)
      done[i \in 0 .. Len(scen)] ==
        IF i = 0 THEN [c |-> first, res |-> NewResult]
        ELSE EmitScenario(done[i-1], scen[i], keys[i], KidsOf(i, scen[i], rest), i \in handed, opts)
      last   == done[Len(scen)]
      main   == IF scen = <<>> THEN EmitSeq(first, rest, Res) ELSE last.c
  IN  [c    |-> [main EXCEPT !.err = @ \/ root.type /= "plan"],
       res  |-> last.res]

ControlImports == {"http", "sleep", "exec", "openKv"}
Controller(max, instances) ==
  [key |-> <<"__opensynapse_control">>, fn |-> <<"__osControl">>, body |-> <<>>,
   load |-> [NoLoad EXCEPT !.executor = "constant-vus", !.vus = LongerOf(1, instances), !.len = max]]

\* The script of what was compiled.  Its functions are those of the scenarios,
\* or the default one; the control scenario's is a helper of its own.
Render(made, opts) ==
  LET control   == made.c.control
      scenarios == made.res.scenarios
      driven    == {i \in DOMAIN scenarios : scenarios[i].load.executor = "externally-controlled"}
  IN  [ok        |-> ~made.c.err,
       functions |-> IF scenarios = <<>> THEN <<[fn |-> <<"default">>, body |-> made.c.body]>>
                     ELSE [i \in DOMAIN scenarios |-> [fn |-> scenarios[i].fn, body |-> scenarios[i].body]],
       scenarios |-> IF control THEN Append(scenarios, Controller(made.res.max, opts.instances)) ELSE scenarios,
       imports   |-> made.c.imports \union (IF control THEN ControlImports ELSE {})
                     \union (IF driven = {} THEN {} ELSE {"exec"}),
       data      |-> made.c.data,
       vars      |-> made.c.vars,
       control   |-> control,
       profile   |-> made.res.profile,
       maxVUs    |-> made.res.maxVUs,
       planned   |-> Duration(made.res.profile),
       max       |-> made.res.max]

CompileWithOptions(root, opts) == Render(CompilePlan(root, opts), opts)
=============================================================================
