------------------------------ MODULE MCPlans ------------------------------
EXTENDS Plans

CONSTANTS Lengths, Counts   \* of the stages of the profiles tried

\* Nodes, named by the letters of their ids.
Req(id) == Node("http", id, id, <<>>, [method |-> "GET"])
Post(id, kids) == Node("http", id, id, kids, [method |-> "POST", refs |-> TRUE])
Check(id, condition, value, negate) ==
  Node("assertion", id, id, <<>>, [condition |-> condition, value |-> value, negate |-> negate])
Timer(id) == Node("timer", id, id, <<>>, NoProps)
Code(id) == Node("code-block", id, id, <<>>, [refs |-> TRUE])
Socket(id) == Node("websocket", id, id, <<>>, [expects |-> TRUE])
IfC(id, cond, kids) == Node("if-controller", id, id, kids, [cond |-> cond])
ElseC(id, kids) == Node("else-controller", id, id, kids, NoProps)
Loop(id, count, while, kids) == Node("loop-controller", id, id, kids, [count |-> count, while |-> while])
Group(id, kids) == Node("transaction-controller", id, id, kids, NoProps)
Once(id, kids) == Node("once-only-controller", id, id, kids, NoProps)
Random(id, weights, kids) == Node("random-controller", id, id, kids, [weights |-> weights])
Data(id) == Node("data-source", id, id, <<>>, [variable |-> <<>>])
Off(n) == [n EXCEPT !.on = FALSE]

\* What may stand side by side, with ids of its own.
Pieces(z) ==
  LET a == <<z, "1">> b == <<z, "2">> x == <<z, "-">> y == <<z, "3", "4">> IN
  { <<Post(a, <<Check(b, "equals", 404, FALSE), Check(x, "equals", 404, TRUE)>>)>>,
    <<Req(a), Req(b), Check(x, "less_than", 400, FALSE)>>,
    <<Post(a, <<Timer(b), Req(x), Check(y, "equals", 404, FALSE)>>)>>,
    <<IfC(a, "c", <<Req(b)>>), ElseC(x, <<Check(y, "matches", 0, TRUE)>>)>>,
    <<IfC(a, "d", <<IfC(b, "c", <<>>), ElseC(x, <<Req(y)>>)>>), Req(<<z, "5">>)>>,
    <<Group(a, <<IfC(b, "", <<Req(x)>>), ElseC(y, <<Req(<<z, "5">>)>>)>>), Check(<<z, "6">>, "equals", 404, TRUE)>>,
    <<Loop(a, 2, "", <<Req(b), IfC(x, "c", <<Timer(y)>>)>>)>>,
    <<Loop(a, 0, "d", <<Once(b, <<Req(x)>>), Code(y)>>)>>,
    <<Once(a, <<Post(<<z, "once">>, <<Check(x, "less_than", 400, FALSE)>>)>>)>>,
    <<Random(a, <<1, 2>>, <<Req(b), Group(x, <<Req(y)>>)>>)>>,
    <<Random(a, <<2>>, <<Off(Req(b)), Req(x)>>), Off(Req(y)), Timer(<<z, "5">>)>>,
    <<Random(a, <<>>, <<Req(b), Off(Timer(x)), IfC(y, "c", <<Req(<<z, "5">>)>>)>>)>>,
    <<Check(a, "greater_than", 400, FALSE), Off(Code(b)), Socket(x)>> }

User == [NoLoad EXCEPT !.executor = "constant-vus", !.vus = 2, !.len = 9]
Arrivals == [NoLoad EXCEPT !.executor = "constant-arrival-rate", !.rate = 5, !.len = 9]
Scenario(name, load, kids) == Node("scenario", name, name, kids, load)
Name == <<"a", " ", "b">>
Options(managed, kv, overrides) ==
  [managed |-> managed, kv |-> kv, overrides |-> overrides, instances |-> 1]
Standalone == Options(FALSE, FALSE, NoOverrides)
Managed == Options(TRUE, TRUE, NoOverrides)
Stock == Options(TRUE, FALSE, NoOverrides)
Job(kind, from, opts) == [kind |-> kind, from |-> from, opts |-> opts]

\* Every two pieces in one scenario, the first of them outside it; and pieces
\* in no scenario, in one that is disabled, and in two, one of them not driven.
Pairs == {PlanOf(p \o <<Scenario(Name, User, q)>>) : p \in Pieces("p"), q \in Pieces("q")}
Few == {PlanOf(p \o <<Data(<<"u">>), Off(Scenario(Name, User, <<Req(<<"v">>)>>))>>) : p \in Pieces("p")}
Two == {PlanOf(<<Scenario(Name, Arrivals, p), Scenario(Name, User, q)>>) :
          p \in Pieces("p"), q \in {<<Once(<<"2">>, <<Req(<<"2", "once">>)>>)>>}}
Drawn == {Job("drawn", r, Managed) : r \in Pairs \union Few \union Two}
         \union {Job("drawn", r, Standalone) : r \in Few \union Two}
         \union {Job("drawn", PlanOf(<<Scenario(Name, User, <<Req(<<"p">>)>>), Scenario(Name, User, <<Req(<<"q">>)>>),
                                       Scenario(<<"a", "-", "b">>, User, <<Timer(<<"r">>)>>)>>), Managed)}

\* Profiles of one scenario, with the Run dialog's overrides for a few.
Stages == [len : Lengths, target : Counts]
Ramp(start, stages) == [NoLoad EXCEPT !.executor = "ramping-vus", !.start = start, !.stages = stages]
Ramps == {Ramp(start, stages) : start \in Counts, stages \in UNION {[1 .. n -> Stages] : n \in 1 .. 2}}
OneRamp == {Ramp(5, <<[len |-> 3, target |-> 2]>>), User, Ramp(0, <<[len |-> 0, target |-> 2]>>), Arrivals}
Asked == [vus : {0, 3}, len : {0, 4}, rps : {0}, stages : {<<>>, <<[len |-> 2, target |-> 5]>>}]
Loads == {Job("load", PlanOf(<<Scenario(Name, l, <<Req(<<"p">>)>>)>>), Managed) : l \in Ramps}
         \union {Job("load", PlanOf(<<Scenario(Name, l, <<Req(<<"p">>)>>)>>), Options(TRUE, TRUE, ov)) :
                   l \in OneRamp, ov \in Asked}

\* OpenAPI documents.
Param(name, in, required, example) == [name |-> name, in |-> in, required |-> required, example |-> example]
Op(params, body) == [params |-> params, body |-> body]
Object(f) == [kind |-> "object", fields |-> f]
Schemas == [item |-> Object([n |-> [kind |-> "number"], more |-> [kind |-> "array", items |-> [kind |-> "ref", to |-> "item"]]]),
            both |-> [kind |-> "allOf", parts |-> <<[kind |-> "ref", to |-> "item"], Object([s |-> [kind |-> "string"]])>>],
            any  |-> [kind |-> "oneOf", parts |-> <<[kind |-> "ref", to |-> "both"], [kind |-> "string"]>>]]
Url == <<<<"lit", "items">>, <<"var", "id">>, <<"lit", "of">>, <<"var", "to">>>>
Item(params, own) ==
  [id |-> <<"i">>, url |-> Url, params |-> params,
   ops |-> [GET |-> Op(own, NoBody), HEAD |-> Op(<<>>, NoBody), POST |-> Op(own, [kind |-> "ref", to |-> "any"]),
            PATCH |-> Op(<<>>, [kind |-> "string", example |-> [kind |-> "number"]]),
            DELETE |-> Op(<<>>, [kind |-> "ref", to |-> "item"])]]
Plain == [id |-> <<"p">>, url |-> <<<<"lit", "p">>>>, params |-> <<>>,
          ops |-> [OPTIONS |-> Op(<<>>, NoBody), PUT |-> Op(<<>>, [kind |-> "ref", to |-> "both"])]]
ParamSets == { <<Param("id", "path", TRUE, FALSE), Param("h", "header", FALSE, FALSE)>>,
               <<Param("id", "path", TRUE, TRUE), Param("id", "query", TRUE, FALSE)>>,
               <<Param("to", "path", TRUE, FALSE), Param("q", "query", FALSE, TRUE)>>, <<>> }
Doc(servers, swagger, paths) ==
  [servers |-> servers, swagger |-> swagger, docHost |-> "doc", paths |-> paths, schemas |-> Schemas]
Servers == { <<>>, <<[host |-> "x", rel |-> FALSE]>>,
             <<[host |-> "x", rel |-> FALSE], [host |-> "doc", rel |-> FALSE]>>, <<[host |-> "", rel |-> TRUE]>> }
Documents == {Job("openapi", Doc(s, w, <<Item(p, o), Plain>>), Managed) :
                s \in Servers, w \in {"", "sw"}, p \in ParamSets, o \in ParamSets}

\* JMeter files: an element and, after it, the tree of what stands under it.
El(tag, name, p) == [tag |-> tag, name |-> name, on |-> TRUE, p |-> p, kids |-> <<>>]
Tree(els) == [tag |-> "hashTree", name |-> <<"h">>, on |-> TRUE, p |-> NoProps, kids |-> els]
Http(id) == El("HTTPSamplerProxy", id, [method |-> "GET"])
Threads(name) == El("ThreadGroup", name, [vus |-> 2, ramp |-> 1, len |-> 4])
File(groups) == <<Tree(<<El("TestPlan", <<"t">>, NoProps), Tree(groups)>>)>>
Flat == { <<Http(<<"1">>), Tree(<<>>), Http(<<"2">>), Tree(<<El("ResponseAssertion", <<"3">>, [value |-> 200])>>)>>,
          <<El("HeaderManager", <<"3">>, NoProps), Tree(<<>>), El("CSVDataSet", <<"4">>, [variable |-> <<"4">>]), Tree(<<>>),
            Off(Http(<<"1">>)), Tree(<<El("ConstantTimer", <<"5">>, NoProps), Tree(<<>>)>>),
            El("RegexExtractor", <<"6">>, NoProps), Tree(<<>>), Http(<<"2">>), Tree(<<>>)>> }
Nests == { <<El("OnceOnlyController", <<"3">>, NoProps), Tree(els), Http(<<"4">>), Tree(<<>>)>> : els \in Flat }
         \union { <<El("IfController", <<"3">>, [cond |-> "c"]), Tree(els)>> : els \in Flat }
Imports(trees) == {Job("jmx", File(<<Threads(Name), Tree(els)>>), Managed) : els \in trees}
JMeterFlat == Imports(Flat)
JMeterNested == Imports(Nests)

\* Requests a crawl captured.
Captured == {Job("requests", [i \in 1 .. 3 |-> [method |-> m[i], url |-> u[i]]], Managed) :
               m \in [1 .. 3 -> {"GET", "POST"}], u \in [1 .. 3 -> {"1", "2"}]}

MCJobs == Drawn \union Loads \union Documents \union JMeterFlat \union Captured

\* Plans the compiler takes but k6 does not: names that become the same one, or
\* one that is another with the number it gets.
Colliding ==
  LET scenarios(names) == [i \in DOMAIN names |-> Scenario(names[i], Arrivals, <<Req(<<"p">>)>>)]
  IN  {Job("drawn", PlanOf(scenarios(names)), Managed) :
         names \in {<<Name, <<"a", "_", "b">>>>, << <<"a", "-", "3">>, <<"a">>, <<"a">> >>}}
=============================================================================
