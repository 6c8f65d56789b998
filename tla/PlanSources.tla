---------------------------- MODULE PlanSources ----------------------------
(***************************************************************************)
(* Plans that are not drawn by hand: from an OpenAPI document              *)
(* (crawler/openapi.go), a JMeter file (importer/jmx.go) and the requests  *)
(* a crawl captured (handlers/crawls.go).  A node's uuid is the name of    *)
(* what it comes from.                                                     *)
(***************************************************************************)
EXTENDS Compiler

OneUser == [NoLoad EXCEPT !.executor = "constant-vus", !.vus = 1, !.len = 30]
PlanOf(nodes) == Node("plan", <<"plan">>, <<"plan">>, nodes, NoProps)
\* One scenario of samplers, as both generators of the crawler build it.
ScenarioPlan(name, samplers) == PlanOf(<<Node("scenario", name, name, samplers, OneUser)>>)
------------------------------------------------------------------------------
(* OpenAPI.  A document has servers, each [host, rel], and paths in their   *)
(* order: [id, url, params, ops], where url is the sequence of its parts,  *)
(* <<"lit", x>> or <<"var", name>>, and ops maps a method to [params, body]*)
(* with body a JSON schema.  A schema is [kind, ...]; NoBody is none.      *)

Documented == <<"DELETE", "GET", "HEAD", "OPTIONS", "PATCH", "POST", "PUT", "TRACE">>

\* The host requests go to: the first server on the document's own host, else
\* the first server, else the host Swagger 2 names, else the document's.
ResolveBaseURL(spec) ==
  LET host(i) == IF spec.servers[i].rel THEN spec.docHost ELSE spec.servers[i].host
      own == {i \in DOMAIN spec.servers : host(i) = spec.docHost}
  IN  IF own /= {} THEN spec.docHost
      ELSE IF spec.servers /= <<>> THEN host(1)
      ELSE IF spec.swagger /= "" THEN spec.swagger ELSE spec.docHost

\* Replaces the first occurrence of a path parameter, by its example or by a
\* variable of its name.
FillIn(url, param) ==
  LET at == {i \in DOMAIN url : url[i] = <<"var", param.name>>}
  IN  IF at = {} THEN url
      ELSE [url EXCEPT ![CHOOSE i \in at : \A j \in at : i <= j] =
              <<IF param.example THEN "val" ELSE "ref", param.name>>]

RECURSIVE Sample(_, _, _), Merge(_, _, _)
Nothing == [kind |-> "null"]
NoBody == [kind |-> "none"]
MaxDepth == 6
Items(item) == IF item = Nothing THEN <<>> ELSE <<item>>
\* An example of a schema: schemas maps names to [kind, ...], and ref names one.
Sample(schemas, sch, depth) ==
  IF depth > MaxDepth THEN Nothing ELSE
  CASE sch.kind = "ref" ->
         IF sch.to \in DOMAIN schemas THEN Sample(schemas, schemas[sch.to], depth + 1) ELSE Nothing
    [] sch.kind = "allOf" -> [kind |-> "object", fields |-> Merge(schemas, sch.parts, depth)]
    [] sch.kind \in {"oneOf", "anyOf"} -> Sample(schemas, sch.parts[1], depth + 1)
    [] sch.kind = "object" ->
         [kind |-> "object", fields |-> [f \in DOMAIN sch.fields |-> Sample(schemas, sch.fields[f], depth + 1)]]
    [] sch.kind = "array" ->
         [kind |-> "array", items |-> Items(Sample(schemas, sch.items, depth + 1))]
    [] OTHER -> [kind |-> sch.kind]
\* allOf: the fields of the parts that are objects, the later ones winning.
Merge(schemas, parts, depth) ==
  IF parts = <<>> THEN [f \in {} |-> Nothing]
  ELSE LET front == Merge(schemas, SubSeq(parts, 1, Len(parts) - 1), depth)
           last  == Sample(schemas, parts[Len(parts)], depth + 1)
       IN  IF last.kind = "object" THEN last.fields @@ front ELSE front
\* The example a request body comes with, or one of its schema.
ExampleBody(schemas, body) ==
  IF "example" \in DOMAIN body THEN body.example
  ELSE LET v == Sample(schemas, body, 0)
       IN  IF v = Nothing THEN [kind |-> "object", fields |-> [f \in {} |-> Nothing]] ELSE v

\* The request of one operation.
Sampler(spec, path, m) ==
  LET op     == path.ops[m]
      params == WithShared(op.params, path.params)
      url[i \in 0 .. Len(params)] ==
        IF i = 0 THEN path.url
        ELSE IF params[i].in = "path" THEN FillIn(url[i-1], params[i]) ELSE url[i-1]
      full   == url[Len(params)]
      named(w) == { params[i].name : i \in {j \in DOMAIN params : params[j].in = w /\ (w = "query" => params[j].required)} }
      base   == [method |-> m, base |-> ResolveBaseURL(spec), url |-> full,
                 query |-> named("query"), headers |-> named("header"),
                 body |-> IF op.body = NoBody \/ m \notin {"POST", "PUT", "PATCH"} THEN NoBody
                          ELSE ExampleBody(spec.schemas, op.body)]
  IN  Node("http", Append(path.id, m), Append(path.id, m), <<>>,
           IF \E i \in DOMAIN full : full[i][1] = "ref" THEN base @@ [refs |-> TRUE] ELSE base)

\* Methods in order, without those that are no test of the API.
MethodsOf(path) == SelectSeq(Documented, LAMBDA m : m \in DOMAIN path.ops /\ m \notin {"OPTIONS", "HEAD"})
GeneratePlanFromOpenAPI(spec) ==
  LET samplers[i \in 0 .. Len(spec.paths)] ==
        IF i = 0 THEN <<>>
        ELSE samplers[i-1] \o [j \in DOMAIN MethodsOf(spec.paths[i]) |->
                                 Sampler(spec, spec.paths[i], MethodsOf(spec.paths[i])[j])]
  IN  ScenarioPlan(<<"A", " ", "S">>, samplers[Len(spec.paths)])

------------------------------------------------------------------------------
(* JMeter.  An element is [tag, name, on, p, kids]; what stands under an    *)
(* element is not among its kids but in the hashTree that follows it.      *)

Containers == {"hashTree", "jmeterTestPlan", "TestPlan"}
Unsupported == {"JSR223Sampler", "RegexExtractor", "JSONExtractor", "XPath2Extractor"}
TypeOf(tag) ==
  CASE tag = "ThreadGroup" -> "scenario"
    [] tag = "HTTPSamplerProxy" -> "http"
    [] tag = "IfController" -> "if-controller"
    [] tag \in {"WhileController", "LoopController"} -> "loop-controller"
    [] tag = "TransactionController" -> "transaction-controller"
    [] tag = "OnceOnlyController" -> "once-only-controller"
    [] tag \in {"ConstantTimer", "UniformRandomTimer"} -> "timer"
    [] tag \in {"ResponseAssertion", "JSONPathAssertion"} -> "assertion"
    [] tag = "CSVDataSet" -> "data-source"
    [] OTHER -> "none"

\* The properties of the node an element becomes.  Assertions of a text are
\* told apart by their value only.
ThreadGroupLoad(p) ==
  [NoLoad EXCEPT !.executor = "ramping-vus", !.vus = p.vus, !.len = p.len,
     !.stages = <<[len |-> p.ramp, target |-> p.vus], [len |-> p.len, target |-> p.vus]>>]
SamplerProps(p) == [method |-> p.method]
ControllerProps(el) ==
  CASE el.tag = "IfController" -> [cond |-> el.p.cond]
    [] el.tag = "WhileController" -> [while |-> el.p.cond, count |-> 0]
    [] el.tag = "LoopController" -> [while |-> "", count |-> el.p.count]
    [] OTHER -> NoProps
AssertionProps(p) == [condition |-> "contains", value |-> p.value, negate |-> FALSE]
DataSourceProps(p) == [variable |-> p.variable]
TimerProps == NoProps
PropsOf(el) ==
  CASE TypeOf(el.tag) = "scenario" -> ThreadGroupLoad(el.p)
    [] TypeOf(el.tag) = "http" -> SamplerProps(el.p)
    [] TypeOf(el.tag) = "assertion" -> AssertionProps(el.p)
    [] TypeOf(el.tag) = "data-source" -> DataSourceProps(el.p)
    [] TypeOf(el.tag) = "timer" -> TimerProps
    [] OTHER -> ControllerProps(el)

RECURSIVE ConvertChildren(_)
\* A node of its own, or none: an element not known is looked into, and one
\* known to have no equivalent is kept as a disabled code block.
ConvertElement(el) ==
  LET node(type, kids, on) == << [Node(type, el.name, el.name, kids, PropsOf(el)) EXCEPT !.on = on] >>
      kids == ConvertChildren(el.kids)
  IN  IF TypeOf(el.tag) /= "none" THEN node(TypeOf(el.tag), kids, el.on)
      ELSE IF el.tag \in Unsupported THEN node("code-block", <<>>, FALSE)
      ELSE IF el.tag /= "HeaderManager" /\ kids /= <<>> THEN node("transaction-controller", kids, el.on)
      ELSE <<>>
\* The trees between the elements are flattened.
ConvertChildren(els) ==
  IF els = <<>> THEN <<>>
  ELSE (IF Head(els).tag \in Containers THEN ConvertChildren(Head(els).kids) ELSE ConvertElement(Head(els)))
       \o ConvertChildren(Tail(els))

ImportJMX(file) == PlanOf(ConvertChildren(file))
------------------------------------------------------------------------------
(* A crawl's requests, each [method, url].                                  *)

GeneratePlanFromRequests(reqs) == ScenarioPlan(<<"C", " ", "S">>, SamplersOf(reqs))
=============================================================================
