------------------------------ MODULE PlanParts ------------------------------
(***************************************************************************)
(* What a plan and its script are made of, one thing at a time: the names, *)
(* loads and chances the compiler (compiler/compiler.go) computes, and the *)
(* lists of parameters and requests a plan is generated from               *)
(* (crawler/openapi.go, handlers/crawls.go).  The trees of nodes and of    *)
(* statements are in Compiler and PlanSources.                             *)
(***************************************************************************)
EXTENDS LoadSchedule, TLC

\* db.Node.  The properties p of a node have the fields its type needs.
Node(type, id, name, kids, p) ==
  [type |-> type, id |-> id, name |-> name, on |-> TRUE, kids |-> kids, p |-> p]

\* sanitizeVarName and sanitizeScenarioName: what may stand in an identifier,
\* and in k6's name of a scenario.
Digits == {"1", "2", "3", "4", "5", "6", "7", "8", "9"}
Odd == {"-", " ", "/"}
VarName(s) ==
  LET name == [i \in DOMAIN s |-> IF s[i] \in Odd THEN "_" ELSE s[i]]
  IN  IF s = <<>> \/ Head(s) \in Digits THEN <<"_">> \o name ELSE name
ScenarioName(s) ==
  IF s = <<>> THEN <<"default">>
  ELSE [i \in DOMAIN s |-> IF s[i] \in Odd THEN "-" ELSE s[i]]

\* The keys of a plan's scenarios, in their order: each its name, with a number
\* if one before it has that key.
UniqueKey(key, keys) ==
  LET step[i \in 0 .. Len(keys)] ==
        IF i = 0 THEN key
        ELSE IF keys[i] = step[i-1]
             THEN step[i-1] \o <<"-", ToString(Len(keys) + 1)>> ELSE step[i-1]
  IN  step[Len(keys)]
KeysOf(names) ==
  LET keys[i \in 0 .. Len(names)] ==
        IF i = 0 THEN <<>> ELSE Append(keys[i-1], UniqueKey(names[i], keys[i-1]))
  IN  keys[Len(names)]
------------------------------------------------------------------------------
(* Chance.  A random controller has a weight for each of its branches.      *)

SumsOf(weights) ==
  LET sum[i \in 0 .. Len(weights)] == IF i = 0 THEN 0 ELSE sum[i-1] + weights[i]
  IN  sum
\* What the random number is compared with, branch by branch: the sum of the
\* weights so far.
Bounds(weights) == [i \in 1 .. Len(weights) |-> SumsOf(weights)[i]]
\* The branch taken, by an if chain: the first whose bound is above the random
\* number, or the last; a lone branch has its condition all the same.  There is
\* none when it is 0.
BranchTaken(bounds, r) ==
  LET n     == Len(bounds)
      below == {i \in 1 .. n : r < bounds[i]}
  IN  IF below /= {} THEN Min(below) ELSE IF n = 1 THEN 0 ELSE n
\* The share of a child in the total of the weights.
Share(weights, i) == SumsOf(weights)[i-1] .. SumsOf(weights)[i] - 1
------------------------------------------------------------------------------
(* Scenarios and the options of k6.  A load [executor, vus, start, maxVUs,  *)
(* len, stages, rate, iterations] has 0 or <<>> where the plan says nothing.*)

NoLoad == [executor |-> "", vus |-> 0, start |-> 0, maxVUs |-> 0, prealloc |-> 0, len |-> 0,
           stages |-> <<>>, rate |-> 0, iterations |-> 0]
NoOverrides == [vus |-> 0, len |-> 0, rps |-> 0, stages |-> <<>>]
IsVUBased(load) == load.executor \in {"constant-vus", "ramping-vus", "externally-controlled"}
LongerOf(a, b) == IF a > b THEN a ELSE b
Given(new, old) == IF new > 0 THEN new ELSE old

\* The Run dialog's parameters on executors the engine does not drive.
ApplyNativeOverrides(load, ov) ==
  LET pool == [load EXCEPT !.prealloc = Given(ov.vus, @), !.maxVUs = LongerOf(@, ov.vus)]
  IN  CASE load.executor = "constant-arrival-rate" ->
             [pool EXCEPT !.rate = Given(ov.rps, @), !.len = Given(ov.len, @)]
        [] load.executor = "ramping-arrival-rate" ->
             [pool EXCEPT !.stages = IF ov.stages = <<>> THEN @ ELSE ov.stages]
        [] load.executor \in {"shared-iterations", "per-vu-iterations"} ->
             [load EXCEPT !.vus = Given(ov.vus, @)]
        [] OTHER -> load

Steady(vus, len) == [start |-> vus, stages |-> <<[len |-> len, target |-> vus]>>]
\* The VU schedule of a scenario the engine drives.
ProfileFor(load, ov) ==
  LET plan == IF load.executor = "ramping-vus"
              THEN [start |-> load.start, stages |-> load.stages]
              ELSE Steady(Given(load.vus, 1), Given(load.len, 30))
  IN  IF ov.stages /= <<>> THEN [start |-> 0, stages |-> ov.stages]
      ELSE IF ov.vus > 0 \/ ov.len > 0
           THEN Steady(Given(ov.vus, PeakVUs(plan)), Given(ov.len, Duration(plan)))
           ELSE plan

\* The VUs such a scenario may have at most: k6's maxVUs.
MaxVUsFor(load, profile) == LongerOf(1, LongerOf(PeakVUs(profile), load.maxVUs))

\* At t seconds, the limits a run is started with hold what its profile asks
\* for, and what the Run dialog asked for is what it gets.
Suits(profile, maxVUs, max, ov, t) ==
  /\ TargetAt(profile, t) <= maxVUs /\ Duration(profile) <= max
  /\ ov.stages = <<>> =>
       /\ ov.vus > 0 => TargetAt(profile, t) = ov.vus
       /\ ov.len > 0 => Duration(profile) = ov.len
------------------------------------------------------------------------------
(* The parameters of an operation, and the requests of a crawl.             *)

Same(a, b) == a.name = b.name /\ a.in = b.in
\* Mutant: a path's parameters replace those of the operation.
WithShared_Over(own, shared) ==
  SelectSeq(own, LAMBDA p : \A i \in DOMAIN shared : ~Same(shared[i], p)) \o shared

\* PathItem.UnmarshalJSON: the path's parameters the operation does not have.
WithShared(own, shared) ==
  LET take[i \in 0 .. Len(shared)] ==
        IF i = 0 THEN own
        ELSE IF \E j \in DOMAIN take[i-1] : Same(take[i-1][j], shared[i]) THEN take[i-1]
             ELSE Append(take[i-1], shared[i])
  IN  take[Len(shared)]

\* One sampler for each method and URL, in the order they were first seen.
FirstSeen(reqs, i) == \A j \in 1 .. i - 1 : reqs[j] /= reqs[i]
CapturedSampler(req) == Node("http", <<req.url, req.method>>, <<req.url>>, <<>>, [method |-> req.method])
SamplersOf(reqs) ==
  LET pick[i \in 0 .. Len(reqs)] ==
        IF i = 0 THEN <<>>
        ELSE IF FirstSeen(reqs, i) THEN Append(pick[i-1], CapturedSampler(reqs[i])) ELSE pick[i-1]
  IN  pick[Len(reqs)]
=============================================================================
