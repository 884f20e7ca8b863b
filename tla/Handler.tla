------------------------------ MODULE Handler ------------------------------
(***************************************************************************)
(* The request handler of the resolver (resolver/internal/handler):        *)
(* ServeHTTP and handleAnyRequest, composed with the operator client that  *)
(* it tells about requests (module OperatorClient, whose calls are started *)
(* here) and the matching of probes (module Probe).                        *)
(*                                                                         *)
(* Throttler.Try is taken by what it does to the handler: it calls the     *)
(* error callback after an attempt that finds no endpoint, calls resolve   *)
(* at most once, and returns (see Throttler).  Whether traffic is allowed  *)
(* is decided by HostManager.  What the client sees is the status of the   *)
(* first WriteHeader; what ServeHTTP records is that of the last.          *)
(***************************************************************************)
EXTENDS OperatorClient, Probe

CONSTANTS
  Requests,     \* the requests
  MaxTries(_),  \* bound on the attempts of a request that find no endpoint
  RuleLists,    \* the lists of probeResponse rules
  HTTPRequests  \* what a request may look like

(* The calls of a request: one when it is admitted, one after each attempt *)
(* that found no endpoint.                                                 *)
ASSUME HandlerAssumption ==
  /\ \A r \in Requests : MaxTries(r) \in Nat
  /\ Calls = UNION {{r} \X (0..MaxTries(r)) : r \in Requests}

(* What the types of the code say of rules and requests: a path is a text, *)
(* and so is the prefix of a rule.                                         *)
ASSUME ProbeAssumption ==
  /\ \A req \in HTTPRequests : req.path \in Seq(Chars)
  /\ \A rules \in RuleLists :
       /\ DOMAIN rules = 1..Len(rules)
       /\ \A i \in DOMAIN rules : rules[i].path # <<>> =>
            LET p == rules[i].path[1] IN
            /\ p = [type |-> p.type, value |-> p.value]
            /\ p.type \in {"Exact", "RegularExpression"} \/ p.value \in Seq(Chars)

VARIABLES
  at,        \* where each request is
  told,      \* how many calls of the operator client it has started
  expired,   \* the deadline of its context has passed
  wire,      \* the status its client gets, 0 before
  recorded,  \* the statusCode of its responseWriter
  answered,  \* the target has answered it
  expected   \* history: ExpectedButSlash of the rules it met

handlerVars == <<at, told, expired, wire, recorded, answered, expected>>
allVars == <<vars, handlerVars>>

Target == 299   \* stands for the statuses the target answers with

HandlerInit ==
  /\ Init
  /\ at = [r \in Requests |-> "new"]
  /\ told = [r \in Requests |-> 0]
  /\ expired = [r \in Requests |-> FALSE]
  /\ wire = [r \in Requests |-> 0]
  /\ recorded = [r \in Requests |-> 0]
  /\ answered = [r \in Requests |-> FALSE]
  /\ expected = [r \in Requests |-> NoMatch]

Move(r, l) == at' = [at EXCEPT ![r] = l]

(* Mutant: a later status replaces the first. *)
WriteHeaderReplaces(r, status) ==
  /\ recorded' = [recorded EXCEPT ![r] = status]
  /\ wire' = [wire EXCEPT ![r] = status]

(* Mutant: a status is recorded only after another. *)
WriteHeaderUnrecorded(r, status) ==
  /\ recorded' = [recorded EXCEPT ![r] = IF wire[r] = 0 THEN @ ELSE status]
  /\ wire' = [wire EXCEPT ![r] = IF @ = 0 THEN status ELSE @]

(* responseWriter.WriteHeader: every status is recorded, net/http sends    *)
(* the first and ignores the others.                                       *)
WriteHeader(r, status) ==
  /\ recorded' = [recorded EXCEPT ![r] = status]
  /\ wire' = [wire EXCEPT ![r] = IF @ = 0 THEN status ELSE @]

Finish(r, status) == WriteHeader(r, status) /\ Move(r, "done")

(* go SendIncomingRequestInfo(...) *)
Inform(r) == told' = [told EXCEPT ![r] = @ + 1]

-----------------------------------------------------------------------------
(* Mutant: the operator is told only after an attempt has failed. *)
AdmitSilent(r) ==
  /\ Finish(r, 408) \/ (Move(r, "try") /\ UNCHANGED <<wire, recorded>>)
  /\ UNCHANGED told

(* The traffic of the host is switched off: 408.  Otherwise the operator   *)
(* is told in a goroutine, and Try begins.                                 *)
Admit(r) ==
  \/ Finish(r, 408) /\ UNCHANGED told
  \/ Inform(r) /\ Move(r, "try") /\ UNCHANGED <<wire, recorded>>

(* Mutant: the operator is told before the probe is looked at. *)
respondProbeResponseInforms(r) ==
  \E rules \in RuleLists, req \in HTTPRequests :
    LET status == MatchProbeResponseFromSpec(rules, req) IN
    /\ expected' = [expected EXCEPT ![r] = ExpectedButSlash(rules, req)]
    /\ IF status = NoMatch THEN Admit(r) ELSE Finish(r, status) /\ Inform(r)

(* respondProbeResponseIfMatch, with the rules that the cache holds now:   *)
(* none when it has no entry or the entry does not parse.                  *)
respondProbeResponseIfMatch(r) ==
  \E rules \in RuleLists, req \in HTTPRequests :
    LET status == MatchProbeResponseFromSpec(rules, req) IN
    /\ expected' = [expected EXCEPT ![r] = ExpectedButSlash(rules, req)]
    /\ IF status = NoMatch THEN Admit(r) ELSE Finish(r, status) /\ UNCHANGED told

(* handleAnyRequest up to Try.  It writes nothing that another request     *)
(* reads, so it is one step.  A host that cannot be told is answered with  *)
(* 500.                                                                    *)
Receive(r) ==
  /\ at[r] = "new"
  /\ \/ Finish(r, 500) /\ UNCHANGED <<told, expected>>
     \/ respondProbeResponseIfMatch(r)
  /\ UNCHANGED <<vars, expired, answered>>

(* An attempt finds no endpoint: go tryErrCallback(). *)
NotReady(r) ==
  /\ at[r] = "try" /\ told[r] <= MaxTries(r)
  /\ Inform(r)
  /\ UNCHANGED <<vars, at, expired, wire, recorded, answered, expected>>

(* resolve calls ProxyRequest.  The reverse proxy passes the answer of the *)
(* target on, and when it breaks off panics, which ends as an error        *)
(* ("broken"); if the target does not answer, ErrorHandler writes 502 and  *)
(* there is no error; if its URL does not parse nothing is written.        *)
ProxyRequest(r) ==
  /\ at[r] = "try"
  /\ \/ /\ WriteHeader(r, Target) /\ answered' = [answered EXCEPT ![r] = TRUE]
        /\ Move(r, "proxied") \/ Move(r, "broken")
     \/ /\ WriteHeader(r, 502) /\ UNCHANGED answered
        /\ Move(r, "proxied")
     \/ Move(r, "broken") /\ UNCHANGED <<wire, recorded, answered>>
  /\ UNCHANGED <<vars, told, expired, expected>>

(* Try returns: nil after a request that was proxied in time, else an      *)
(* error.  A deadline that has passed, however the attempt ended, is       *)
(* answered with 408, every other error with 500.  The context is          *)
(* cancelled, its deadline dead.                                           *)
TryReturns(r) ==
  /\ \/ /\ at[r] = "proxied" /\ ~expired[r]
        /\ Move(r, "done") /\ UNCHANGED <<wire, recorded>>
     \/ at[r] \in {"try", "proxied", "broken"} /\ expired[r] /\ Finish(r, 408)
     \/ at[r] \in {"try", "broken"} /\ (at[r] = "broken" => ~expired[r]) /\ Finish(r, 500)
  /\ expired' = [expired EXCEPT ![r] = FALSE]
  /\ UNCHANGED <<vars, told, answered, expected>>

(* The context of a request in Try reaches its deadline. *)
Expire(r) ==
  /\ at[r] \in {"try", "proxied", "broken"} /\ ~expired[r]
  /\ expired' = [expired EXCEPT ![r] = TRUE]
  /\ UNCHANGED <<vars, at, told, wire, recorded, answered, expected>>

Try(r) == NotReady(r) \/ ProxyRequest(r) \/ TryReturns(r)

(* A call of the operator client that was started, and its timer. *)
ClientStep(c) ==
  /\ c[2] < told[c[1]]
  /\ Step(c)
  /\ UNCHANGED handlerVars

HandlerNext ==
  \/ \E r \in Requests : Receive(r) \/ Try(r) \/ Expire(r)
  \/ \E c \in Calls : ClientStep(c)

HandlerSpec == HandlerInit /\ [][HandlerNext]_allVars

(* Handlers, deadlines, calls and timers go on. *)
HandlerFairness ==
  /\ \A r \in Requests : WF_allVars(Try(r)) /\ WF_allVars(Expire(r))
  /\ \A c \in Calls : WF_allVars(ClientStep(c))

HandlerFairSpec == HandlerSpec /\ HandlerFairness

-----------------------------------------------------------------------------
(* The types of the handler and of the operator client. *)
HandlerTypeOK ==
  /\ TypeOK
  /\ at \in [Requests -> {"new", "try", "proxied", "broken", "done"}]
  /\ told \in [Requests -> Nat] /\ \A r \in Requests : told[r] <= MaxTries(r) + 1
  /\ wire \in [Requests -> Nat] /\ recorded \in [Requests -> Nat]
  /\ expired \in [Requests -> BOOLEAN] /\ answered \in [Requests -> BOOLEAN]
  /\ expected \in [Requests -> Nat]

(* The statuses that the handler writes on its own. *)
Own == {0, 408, 500, 502, Target}

(* The matching of probes, prefix by text and rule by rule, answers the    *)
(* requests that the rules call for, with the status they call for, and no *)
(* others: segment by segment as the Gateway API does, first match wins,   *)
(* all conditions ANDed.  Requests for which a rule has their path and a   *)
(* slash as its prefix are excepted: there the code does something else.   *)
ProbeExact ==
  \A r \in Requests :
    /\ expected[r] # NoMatch => at[r] = "done" /\ wire[r] = expected[r]
    /\ wire[r] \notin Own => wire[r] = expected[r]

(* "Each rule uses the same match fields and semantics as Gateway API      *)
(* HTTPRouteMatch", without the exception.                                 *)
ProbeConforms ==
  \A rules \in RuleLists, req \in HTTPRequests :
    MatchProbeResponseFromSpec(rules, req) = Expected(rules, req)

(* "Requests served by `probeResponse` do not trigger scale-up": neither   *)
(* the operator nor the target hears of a request that a probe rule        *)
(* answers.                                                                *)
ProbeIsSilent ==
  \A r \in Requests : wire[r] \notin Own =>
    /\ ~answered[r]
    /\ \A c \in Calls : c[1] = r => pc[c] = "new" /\ c[2] >= told[r]

(* Once the target has answered, its status is what the client gets, also  *)
(* when the deadline passes, or the proxy fails, before Try returns; what  *)
(* http.Error then writes ends up behind the body of the answer.           *)
TargetAnswerStands == \A r \in Requests : answered[r] => wire[r] = Target

(* The status that ServeHTTP records is the one the client got, unless Try *)
(* returned an error for a request that had been proxied.                  *)
RecordedUnlessLate ==
  \A r \in Requests : recorded[r] # wire[r] =>
    wire[r] \in {Target, 502} /\ recorded[r] \in {408, 500}

(* The operator hears of every request that is tried, from its own report  *)
(* or, if that was dropped, from the one it was dropped for.  There are    *)
(* two ways in which it does not: the POST fails, and then later reports   *)
(* are not dropped for it; or the report was dropped for a service of the  *)
(* same name in another namespace.                                         *)
OperatorTold == \A r \in Requests : at[r] = "try" ~> Settled(<<r, 0>>)
=============================================================================
