------------------------------ MODULE K6Script ------------------------------
(***************************************************************************)
(* What k6 makes of a script the compiler wrote: whether it parses, and    *)
(* what one iteration of a function does.  env decides what is random or   *)
(* of the target's doing: conds, the truth of each condition; status, that *)
(* of every response; rand, the random number; iter, the iteration.        *)
(***************************************************************************)
EXTENDS Compiler

\* How often a while loop runs whose condition holds at first.
WhileTurns == 2

NoRes == <<"none">>
Fails(env, allows) == env.status >= 400 /\ env.status \notin allows
\* Whether an assertion's expression is true of a response.  What it may look at
\* but the status is taken to be as expected when the response is no error.
Passes(env, expr) ==
  LET true == CASE expr.condition = "equals" -> env.status = expr.value
                [] expr.condition = "less_than" -> env.status < expr.value
                [] expr.condition = "greater_than" -> env.status > expr.value
                [] OTHER -> env.status < 400
  IN  true /= expr.negate
Truth(cond, env, res) ==
  CASE cond = "true" -> TRUE
    [] cond = "res" -> res /= NoRes
    [] cond = "__ITER === 0" -> env.iter = 0
    [] OTHER -> env.conds[cond]

\* The branch a random number below the last bound takes, or none.
Branch(stmt, env) ==
  LET r     == env.rand % LongerOf(stmt.bounds[Len(stmt.bounds)], 1)
      taken == BranchTaken(stmt.bounds, r)
  IN  IF taken = 0 THEN <<>> ELSE stmt.branches[taken]

RECURSIVE Run(_, _, _), Times(_, _, _, _)
\* Runs statements from state s: the events so far and the last response; the
\* response a check names is that of the request whose variable it is.
Step(stmt, s, env) ==
  CASE stmt.k = "request" ->
         [ev  |-> Append(s.ev, <<"request", stmt.id, Fails(env, stmt.allows), stmt.paced>>),
          res |-> stmt.id, of |-> [v \in DOMAIN s.of \union {stmt.v} |-> IF v = stmt.v THEN stmt.id ELSE s.of[v]]]
    [] stmt.k = "check" ->
         [s EXCEPT !.ev = Append(@, <<"check", stmt.id, IF stmt.of = Res THEN s.res ELSE s.of[stmt.of], Passes(env, stmt.expr)>>)]
    [] stmt.k \in {"sleep", "code", "socket"} -> [s EXCEPT !.ev = Append(@, <<stmt.k, stmt.id>>)]
    [] stmt.k = "if" ->
         Run(IF Truth(stmt.cond, env, s.res) THEN stmt.body ELSE stmt.other, s, env)
    [] stmt.k = "group" -> Run(stmt.body, [s EXCEPT !.ev = Append(@, <<"group", stmt.id>>)], env)
    [] stmt.k = "pick" -> Run(Branch(stmt, env), s, env)
    [] stmt.k = "for" -> Times(stmt.n, stmt.body, s, env)
    [] stmt.k = "while" -> Times(IF Truth(stmt.cond, env, s.res) THEN WhileTurns ELSE 0, stmt.body, s, env)
Run(body, s, env) == IF body = <<>> THEN s ELSE Run(Tail(body), Step(Head(body), s, env), env)
Times(n, body, s, env) == IF n = 0 THEN s ELSE Times(n - 1, body, Run(body, s, env), env)

\* One iteration of a function.
Events(body, env) == Run(body, [ev |-> <<>>, res |-> NoRes, of |-> [v \in {} |-> NoRes]], env).ev
------------------------------------------------------------------------------
Distinct(s) == \A i, j \in DOMAIN s : s[i] = s[j] => i = j

RECURSIVE BlockParses(_)
\* No else without its if, and no name declared twice in one block.
BlockParses(body) ==
  LET named == SelectSeq(body, LAMBDA t : t.k \in {"request", "socket"})
  IN  /\ Distinct([i \in DOMAIN named |-> named[i].v])
      /\ \A i \in DOMAIN body :
           CASE body[i].k = "stray" -> FALSE
             [] body[i].k = "if" -> BlockParses(body[i].body) /\ BlockParses(body[i].other)
             [] body[i].k = "pick" -> \A j \in DOMAIN body[i].branches : BlockParses(body[i].branches[j])
             [] body[i].k \in {"group", "for", "while"} -> BlockParses(body[i].body)
             [] OTHER -> TRUE

RECURSIVE Uses(_)
\* The names a body calls: k6's modules, and the helper for variables.
Uses(body) ==
  UNION { CASE body[i].k = "request" -> {"http"} \union (IF body[i].refs THEN {"__v"} ELSE {})
            [] body[i].k = "socket" -> {"ws"} \union (IF body[i].refs THEN {"__v"} ELSE {})
            [] body[i].k = "code" -> IF body[i].refs THEN {"__v"} ELSE {}
            [] body[i].k \in {"check", "sleep"} -> {body[i].k}
            [] body[i].k = "if" -> Uses(body[i].body) \union Uses(body[i].other)
            [] body[i].k = "group" -> {"group"} \union Uses(body[i].body)
            [] body[i].k = "pick" -> UNION {Uses(body[i].branches[j]) : j \in DOMAIN body[i].branches}
            [] body[i].k \in {"for", "while"} -> Uses(body[i].body)
            [] OTHER -> {} : i \in DOMAIN body }

\* k6 loads the script: the names at its top level are distinct, as are its
\* scenarios, whose functions are there, and every module it uses is imported.
Parses(script) ==
  LET fns == [i \in DOMAIN script.functions |-> script.functions[i].fn]
      keys == [i \in DOMAIN script.scenarios |-> script.scenarios[i].key]
  IN  /\ Distinct(fns \o script.data) /\ Distinct(keys)
      /\ \A i \in DOMAIN script.functions :
           /\ BlockParses(script.functions[i].body)
           /\ Uses(script.functions[i].body)
                \subseteq script.imports \union (IF script.vars THEN {"__v"} ELSE {})
      /\ script.control => ControlImports \subseteq script.imports
      /\ script.data /= <<>> => "SharedArray" \in script.imports
=============================================================================
