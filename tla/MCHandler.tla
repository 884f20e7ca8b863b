----------------------------- MODULE MCHandler -----------------------------
(* An instance of Handler for TLC: two requests for services of the same   *)
(* name in two namespaces, and rules that overlap in every kind of         *)
(* condition.                                                              *)
EXTENDS Handler

MCRequests == {1, 2}
MCMaxTries(r) == IF r = 1 THEN 1 ELSE 0
MCCalls == {<<1, 0>>, <<1, 1>>, <<2, 0>>}
MCServices == {"web"}
MCSvc(c) == "web"
MCNamespace(c) == IF c[1] = 1 THEN "prod" ELSE "test"

Names == {"", "x"}
Given(vs) == [n \in Names |-> IF n = "x" THEN vs ELSE {}]

Rule(method, path, headers, query, status) ==
  [method |-> method, path |-> path, headers |-> headers, queryParams |-> query,
   status |-> status]
Path(type, value) == <<[type |-> type, value |-> value]>>
Cond(name, type, value) == <<[name |-> name, type |-> type, value |-> value]>>

MCChars == {"*", "/", "a", "b"}
MCPaths == {<<"*">>, Slash, <<"/", "a">>, <<"/", "a", "a">>, <<"/", "a", "/">>,
            <<"/", "a", "/", "b">>}

MCRules ==
  {Rule("", <<>>, <<>>, <<>>, 204),
   Rule("GET", Path("", <<>>), <<>>, <<>>, 200),
   Rule("", Path("PathPrefix", <<"/", "a">>), <<>>, <<>>, 200),
   Rule("", Path("PathPrefix", <<"/", "a", "/">>), <<>>, <<>>, 0),
   Rule("", Path("Exact", <<"/", "a">>), Cond("x", "", "1"), <<>>, 204),
   Rule("", Path("RegularExpression", {<<"/", "a">>, <<"/", "a", "a">>}), <<>>, Cond("x", "RegularExpression", {"1"}), 200),
   Rule("", Path("RegularExpression", Invalid), <<>>, <<>>, 204),
   Rule("", <<>>, Cond("", "", "1"), <<>>, 204)}

MCRuleLists == {<<>>} \cup {<<a>> : a \in MCRules} \cup
               {<<a, b>> : a \in MCRules, b \in {Rule("", <<>>, <<>>, <<>>, 204),
                  Rule("", Path("PathPrefix", <<"/", "a">>), <<>>, <<>>, 200)}}

MCHTTPRequests ==
  {[method |-> m, path |-> p, headers |-> Given(g[1]), query |-> Given(g[2])] :
     m \in {"GET", "HEAD"}, p \in MCPaths,
     g \in {<<{}, {}>>, <<{"1"}, {}>>, <<{}, {"1", "2"}>>}}
=============================================================================
