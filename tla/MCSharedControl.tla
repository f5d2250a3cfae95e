-------------------------- MODULE MCSharedControl --------------------------
(***************************************************************************)
(* Documents for the control: rule sets of one to three alternatives over  *)
(* two components, with and without routes, against a rendered request and *)
(* a template whose headers and bodies vary.                               *)
(***************************************************************************)
EXTENDS MCShared

Graph == <<<<Ref("component", "c1"), Ref("component", "c2")>>, <<Ref("component", "c2")>>>>
Roots == <<Ref("coverage-group", "g1"), Ref("component", "c1")>>

Headers == {<<>>} \union {<<[name |-> "H", value |-> v]>> : v \in {"atk", "enc", "bad"}}
             \union {<<[name |-> "h", value |-> "bad"], [name |-> "H", value |-> "atk"]>>}
Bodies == {AbsentBody, BodyOf("empty", ""), BodyOf("present", "json"), BodyOf("present", "atk"),
           [BodyOf("present", "atk") EXCEPT !.sound = FALSE]}
First == {[Plain EXCEPT !.fields.header = h, !.body = b] : h \in Headers, b \in Bodies}
Second == {Template, [Template EXCEPT !.key = "k9"], [Template EXCEPT !.body = BodyOf("present", "json")],
           [Plain EXCEPT !.modality = "event"], [Plain EXCEPT !.path = "/y"]}
MCSemantics == {Semantics(<<f, s>>, Graph[1], Graph[2], Roots, <<"m1">>) : f \in First, s \in Second}

RuleSets ==
    {<<Rule("r1", "c1", "header", "h", {"atk"}, <<"urlDecode">>), Rule("r2", "c2", "body", n, p, <<>>)>> :
       n \in {"", "/p", "/p/q"}, p \in {{"atk"}, {""}}}
    \union {<<Rule("r1", "c1", "path", "", {"/x"}, <<>>), Rule("r2", "c2", "body", "/other", {"atk"}, <<>>)>>}

PlainRoute == RouteOf(Plain)
TemplateRoute == RouteOf(Template)
RouteAlternative(id, route, c1, c2) ==
    [id |-> id, route |-> route, components |-> IF c1 = <<>> THEN <<"c2">> ELSE <<"c1", "c2">>,
     bindings |-> (IF c1 = <<>> THEN <<>> ELSE <<[id |-> "c1", inputs |-> Refs("test-input", c1)]>>)
                    \o <<[id |-> "c2", inputs |-> Refs("test-input", c2)]>>]
\* c1 has no input at the route of the template.
Stray == [id |-> "x", route |-> TemplateRoute, components |-> <<"c1", "c2">>,
          bindings |-> <<[id |-> "c1", inputs |-> <<>>],
                         [id |-> "c2", inputs |-> Refs("test-input", <<"t2">>)]>>]
\* The binding of c1 is written again after one that leaves its inputs out, or
\* after one that does not.
Rebound(first) ==
    [RouteAlternative("x", PlainRoute, <<"t1">>, <<"t1">>) EXCEPT
       !.bindings = <<[id |-> "c1", inputs |-> Refs("test-input", first)]>> \o @]
MCMains ==
    {Main("", coverage, <<>>, rules) : rules \in RuleSets,
       coverage \in {<<>>, <<<<"c1", "c2">>>>, <<<<"c2">>, <<"c1">>>>, <<<<"c1", "c2">>, <<"c2">>>>}}
    \union {Main("route-bound-v1", <<<<"c2">>>>, routes, rules) : rules \in RuleSets,
       routes \in {<<RouteAlternative("x", TemplateRoute, <<>>, <<"t2">>)>>,
                   <<RouteAlternative("x", PlainRoute, <<>>, <<"t1">>),
                     RouteAlternative("y", TemplateRoute, <<>>, <<"t2">>)>>,
                   <<RouteAlternative("x", PlainRoute, <<>>, <<"t2">>)>>}}
    \union {Main("route-bound-v1", <<<<"c1", "c2">>>>, routes, rules) : rules \in RuleSets,
       routes \in {<<RouteAlternative("x", PlainRoute, <<"t1">>, <<"t1">>)>>,
                   <<RouteAlternative("x", TemplateRoute, <<"t1">>, <<"t2">>)>>, <<Stray>>,
                   <<Rebound(<<>>)>>, <<Rebound(<<"t1">>)>>}}

ControlCases == DocumentsOver(MCSemantics, MCMains)
=============================================================================
