------------------------------- MODULE Probe -------------------------------
(***************************************************************************)
(* The matching of a request against the probeResponse rules of an         *)
(* ElastiService (resolver/internal/crdcache/spec.go).                     *)
(*                                                                         *)
(* A request is a record: its method, its path, and for every header and   *)
(* query parameter it has the set of its values.  A path is the sequence   *)
(* of its characters, because the rule for prefixes looks at single ones.  *)
(* A regular expression is the set of the texts it matches, Invalid if it  *)
(* does not compile.  Case folding and trimming are left out.              *)
(***************************************************************************)
EXTENDS Naturals, Sequences

CONSTANTS
  Chars,    \* the characters of paths
  Invalid   \* a regular expression that does not compile

ASSUME CharsAssumption == "/" \in Chars

(* What MatchProbeResponseFromSpec returns when no rule matches. *)
NoMatch == 0

Slash == <<"/">>

(* strings.HasPrefix *)
HasPrefix(s, prefix) ==
  Len(prefix) <= Len(s) /\ \A i \in 1..Len(prefix) : s[i] = prefix[i]

(* The first of a set of places. *)
First(S) == CHOOSE i \in S : \A j \in S : i <= j

-----------------------------------------------------------------------------
(* A rule without method matches every method. *)
methodMatchesProbeResponse(ruleMethod, method) == ruleMethod \in {"", method}

(* Mutant: a prefix of the text, whatever follows it. *)
pathPrefixOfText(path, prefix) == HasPrefix(path, prefix)

(* Segment-aware: the prefix ends where a segment of the path ends.        *)
pathPrefix(path, prefix) ==
  IF prefix \in {<<>>, Slash} THEN HasPrefix(path, Slash)
  ELSE \/ path = prefix
       \/ /\ HasPrefix(path, prefix)
          /\ \/ prefix[Len(prefix)] = "/"
             \/ Len(path) > Len(prefix) /\ path[Len(prefix) + 1] = "/"

(* An empty type, and any type but the other two, is PathPrefix. *)
canonicalPathMatchType(type) ==
  IF type \in {"Exact", "RegularExpression"} THEN type ELSE "PathPrefix"

(* A rule without path matches the prefix "/", and so does an empty prefix. *)
normalizeProbePathMatch(rule) ==
  IF rule.path = <<>> THEN [type |-> "PathPrefix", value |-> Slash]
  ELSE LET p == rule.path[1] IN
       IF canonicalPathMatchType(p.type) = "PathPrefix" /\ p.value = <<>>
       THEN [p EXCEPT !.value = Slash] ELSE p

(* pathMatches; an expression that does not compile is an error.           *)
pathMatches(path, rule) ==
  LET pm == normalizeProbePathMatch(rule) IN
  CASE canonicalPathMatchType(pm.type) = "Exact" -> path = pm.value
    [] canonicalPathMatchType(pm.type) = "RegularExpression" ->
         pm.value # Invalid /\ path \in pm.value
    [] OTHER -> pathPrefix(path, pm.value)

(* The loops over the values: one of them is the rule's, or matches its    *)
(* expression.                                                             *)
ValueMatches(rule, values) ==
  IF rule.type = "RegularExpression"
  THEN values # {} /\ rule.value # Invalid /\ values \cap rule.value # {}
  ELSE rule.value \in values

headerValueMatches(rule, headers) == ValueMatches(rule, headers[rule.name])

queryParamValueMatches(rule, query) == ValueMatches(rule, query[rule.name])

(* Every rule matches; one without name does not. *)
headersMatch(rules, headers) ==
  \A i \in DOMAIN rules : rules[i].name # "" /\ headerValueMatches(rules[i], headers)

queryParamsMatch(rules, query) ==
  \A i \in DOMAIN rules : rules[i].name # "" /\ queryParamValueMatches(rules[i], query)

(* The body of the loop: an error and a mismatch both go on to the next    *)
(* rule.                                                                   *)
RuleMatches(rule, req) ==
  /\ methodMatchesProbeResponse(rule.method, req.method)
  /\ pathMatches(req.path, rule)
  /\ headersMatch(rule.headers, req.headers)
  /\ queryParamsMatch(rule.queryParams, req.query)

(* MatchProbeResponseFromSpec: the status of the first rule that matches,  *)
(* 200 if it has none.  The body is left out.                              *)
MatchProbeResponseFromSpec(rules, req) ==
  LET matching == {i \in DOMAIN rules : RuleMatches(rules[i], req)}
      st == rules[First(matching)].status
  IN IF matching = {} THEN NoMatch ELSE IF st = 0 THEN 200 ELSE st

-----------------------------------------------------------------------------
(* The reference: "Rules are tried in order; first match wins", "path,     *)
(* headers, queryParams, method ANDed" and, for the path, the semantics of *)
(* the Gateway API that ProbeResponseRule promises ("the same match fields *)
(* and semantics as Gateway API HTTPRouteMatch"): a prefix matches segment *)
(* by segment, and a slash at its end is ignored.                          *)

(* Where the segment that begins after place i ends: at the next slash, or *)
(* with the path.                                                          *)
NextCut(path, i) ==
  First({j \in i + 1..Len(path) : path[j] = "/"} \cup {Len(path) + 1})

(* The segments of a path, each under the place of the slash before it,    *)
(* and under 0 what comes before the first slash.                          *)
Segments(path) ==
  [i \in {0} \cup {j \in DOMAIN path : path[j] = "/"} |->
     SubSeq(path, i + 1, NextCut(path, i) - 1)]

(* The path begins with the segments of the stem. *)
BeginsWith(path, stem) ==
  \A i \in DOMAIN Segments(stem) :
    i \in DOMAIN Segments(path) /\ Segments(path)[i] = Segments(stem)[i]

(* The prefix without the slash at its end. *)
Stem(prefix) ==
  IF prefix[Len(prefix)] = "/" THEN SubSeq(prefix, 1, Len(prefix) - 1) ELSE prefix

(* "/" matches any path with a leading slash, any other prefix the paths   *)
(* that begin with its segments: "/foo" and "/foo/" match /foo and         *)
(* /foo/bar but not /foobar.                                               *)
Under(path, prefix) ==
  IF prefix = Slash THEN path # <<>> /\ path[1] = "/" ELSE BeginsWith(path, Stem(prefix))

Holds(conditions, given) ==
  \A n \in DOMAIN conditions :
    LET c == conditions[n] IN
    /\ c.name # ""
    /\ \E v \in given[c.name] : IF c.type = "RegularExpression" THEN c.value # Invalid /\ v \in c.value
                                ELSE v = c.value

(* A rule without path, or with an empty prefix, is one for "/". *)
PathApplies(rule, path) ==
  IF rule.path = <<>> THEN Under(path, Slash)
  ELSE LET p == rule.path[1] IN
       CASE p.type = "Exact" -> path = p.value
         [] p.type = "RegularExpression" -> p.value # Invalid /\ path \in p.value
         [] OTHER -> Under(path, IF p.value = <<>> THEN Slash ELSE p.value)

Applies(rule, req) ==
  /\ rule.method = "" \/ rule.method = req.method
  /\ PathApplies(rule, req.path)
  /\ Holds(rule.headers, req.headers) /\ Holds(rule.queryParams, req.query)

(* A rule whose prefix is the path and a slash: by the Gateway API it      *)
(* applies, pathPrefix says that it does not match.                        *)
LacksSlash(rule, path) ==
  /\ rule.path # <<>> /\ path # <<>>
  /\ rule.path[1].type \notin {"Exact", "RegularExpression"}
  /\ rule.path[1].value = Append(path, "/")

SlashDecides(rules, req) == \E i \in DOMAIN rules : LacksSlash(rules[i], req.path)

(* The status the rules call for by the Gateway API. *)
Expected(rules, req) ==
  LET winners == {i \in DOMAIN rules : Applies(rules[i], req)} IN
  IF winners = {} THEN NoMatch
  ELSE LET st == rules[First(winners)].status IN IF st = 0 THEN 200 ELSE st

(* The same, with the code's own answer where such a slash decides. *)
ExpectedButSlash(rules, req) ==
  IF SlashDecides(rules, req) THEN MatchProbeResponseFromSpec(rules, req)
  ELSE Expected(rules, req)
=============================================================================
