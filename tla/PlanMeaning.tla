---------------------------- MODULE PlanMeaning ----------------------------
(***************************************************************************)
(* What a plan means, node by node, as docs/03-feature-spec.md (F-02) says *)
(* of each type: the events of an iteration, without a script in between.  *)
(* The environment is that of K6Script.                                    *)
(***************************************************************************)
EXTENDS K6Script

RECURSIVE Mean(_, _, _, _, _), Repeat(_, _, _, _)
MeanAll(kids, s, env) == Mean(kids, 1, NoRes, s, env)
Says(s, event) == [s EXCEPT !.ev = Append(@, event)]

Holds(cond, env) == cond = "" \/ env.conds[cond]
\* The child whose share of the total weight the random number falls in.
Picked(node, env) ==
  LET kids  == Enabled(node.kids)
      whole == UNION {Share(Weights(node), i) : i \in DOMAIN kids}
  IN  CHOOSE i \in DOMAIN kids : env.rand % Cardinality(whole) \in Share(Weights(node), i)

\* Node i of its siblings; sampler is the request they all stand under.
MeanNode(nodes, i, sampler, s, env) ==
  LET n == nodes[i] IN
  CASE n.type = "http" ->
         Mean(n.kids, 1, n.id,
              [Says(s, <<"request", n.id, env.status >= 400 /\
                  ~\E j \in DOMAIN n.kids : LET k == n.kids[j] IN
                       k.on /\ k.type = "assertion" /\ k.p = [condition |-> "equals", value |-> env.status, negate |-> FALSE],
                  env.paced>>)
               EXCEPT !.res = n.id], env)
    [] n.type = "assertion" ->
         LET on == IF sampler = NoRes THEN s.res ELSE sampler IN
         IF on = NoRes THEN s
         ELSE Says(s, <<"check", n.id, on, Passes(env, n.p)>>)
    [] n.type = "timer" -> Says(s, <<"sleep", n.id>>)
    [] n.type = "code-block" -> Says(s, <<"code", n.id>>)
    [] n.type = "websocket" -> Says(s, <<"socket", n.id>>)
    [] n.type = "transaction-controller" -> MeanAll(n.kids, Says(s, <<"group", n.id>>), env)
    [] n.type = "if-controller" ->
         IF Holds(n.p.cond, env) THEN MeanAll(n.kids, s, env) ELSE s
    [] n.type = "else-controller" -> IF ~Holds(nodes[i-1].p.cond, env) THEN MeanAll(n.kids, s, env) ELSE s
    [] n.type = "once-only-controller" -> IF env.iter = 0 THEN MeanAll(n.kids, s, env) ELSE s
    [] n.type = "loop-controller" ->
         Repeat(IF n.p.while = "" THEN n.p.count ELSE IF env.conds[n.p.while] THEN WhileTurns ELSE 0, n.kids, s, env)
    [] n.type = "random-controller" ->
         IF Enabled(n.kids) = <<>> THEN s ELSE MeanAll(<<Enabled(n.kids)[Picked(n, env)]>>, s, env)
    [] OTHER -> s
Mean(nodes, i, sampler, s, env) ==
  IF i > Len(nodes) THEN s
  ELSE Mean(nodes, i + 1, sampler, IF nodes[i].on THEN MeanNode(nodes, i, sampler, s, env) ELSE s, env)
Repeat(n, kids, s, env) == IF n = 0 THEN s ELSE Repeat(n - 1, kids, MeanAll(kids, s, env), env)

MeantBy(nodes, env) == MeanAll(nodes, [ev |-> <<>>, res |-> NoRes], env).ev
------------------------------------------------------------------------------
\* The scenarios that run, and what stands outside them: part of the first.
ScenariosOf(root) == OfType(Enabled(root.kids), {"scenario"})
LooseOf(root) ==
  SelectSeq(Enabled(root.kids), LAMBDA n : n.type \notin {"scenario", "data-source", "environment-binding"})
NodesOf(root, i) ==
  IF ScenariosOf(root) = <<>> THEN LooseOf(root)
  ELSE (IF i = 1 THEN LooseOf(root) ELSE <<>>) \o ScenariosOf(root)[i].kids

RECURSIVE ElseFollowsIf(_)
\* "Must be a sibling immediately after an If controller" that is enabled, and
\* nothing disabled stands between them.
ElseFollowsIf(nodes) ==
  \A i \in DOMAIN nodes :
    /\ nodes[i].on /\ nodes[i].type = "else-controller" =>
         i > 1 /\ nodes[i-1].type = "if-controller" /\ nodes[i-1].on
    /\ ElseFollowsIf(nodes[i].kids)
=============================================================================
