--------------------------- MODULE HandlerProofs ---------------------------
(***************************************************************************)
(* Proofs about the way of a request through the resolver: the operator    *)
(* client, the handler that starts its calls, the matching of probes, and  *)
(* the host manager that the handler asks first.  They hold for any        *)
(* requests, attempts, calls, services and probe rules.                    *)
(***************************************************************************)
EXTENDS Handler, WellFoundedInduction, TLAPS

-----------------------------------------------------------------------------
(* The operator client.                                                    *)

(* A call owns the entry of its service from the LoadOrStore that stored   *)
(* its mutex until its timer deletes it.                                   *)
Owns(c) == pc[c] \in {"lock", "send", "sent", "failed"} \/ timer[c] \in {"armed", "delete"}

(* The inductive invariant: the entry of a service names the call that     *)
(* owns it, so two owners of one service are one call; an owner past       *)
(* lock.Lock() whose timer has not fired holds its mutex; and a timer runs *)
(* only for a call that has returned.                                      *)
OwnerInv ==
  /\ TypeOK
  /\ ~panicked
  /\ \A c \in Calls :
       /\ Owns(c) => serviceRPCLocks[Svc(c)] = c
       /\ pc[c] \in {"send", "sent", "failed"} \/ timer[c] = "armed" => c \in locked
       /\ pc[c] \notin {"told", "untold"} => timer[c] = "off"

(* No call owns anything at the start. *)
LEMMA OwnerInvInit == Init => OwnerInv
BY CallAssumption, ZenonT(40) DEF Init, OwnerInv, Owns, TypeOK, PCs

(* Every step of a call or of its timer keeps the entries and their owners *)
(* together.                                                               *)
LEMMA OwnerInvNext == OwnerInv /\ [Next]_vars => OwnerInv'
<1> SUFFICES ASSUME OwnerInv, [Next]_vars PROVE OwnerInv'
  BY Zenon
<1> USE CallAssumption DEF OwnerInv, Owns, TypeOK, PCs, Goto, TimerGoto
<1>1. CASE UNCHANGED vars
  BY <1>1, Zenon DEF vars
<1>2. ASSUME NEW c \in Calls, GetMutex(c) PROVE OwnerInv'
  BY <1>2 DEF GetMutex
<1>3. ASSUME NEW c \in Calls, Lock(c) PROVE OwnerInv'
  BY <1>3 DEF Lock
<1>4. ASSUME NEW c \in Calls, Send(c) PROVE OwnerInv'
  BY <1>4, Zenon DEF Send
<1>5. ASSUME NEW c \in Calls, Return(c) PROVE OwnerInv'
  BY <1>5, Zenon DEF Return, End
<1>6. ASSUME NEW c \in Calls, ReleaseUnlock(c) PROVE OwnerInv'
  <2>1. serviceRPCLocks[Svc(c)] = c /\ c \in locked
    BY <1>6, Zenon DEF ReleaseUnlock
  <2>2. /\ locked' = locked \ {c} /\ panicked' = panicked
        /\ timer' = [timer EXCEPT ![c] = "delete"]
        /\ UNCHANGED <<serviceRPCLocks, pc, by>>
    BY <1>6, <2>1 DEF ReleaseUnlock
  <2> QED
    BY <1>6, <2>1, <2>2, Zenon DEF ReleaseUnlock
<1>7. ASSUME NEW c \in Calls, ReleaseDelete(c) PROVE OwnerInv'
  BY <1>7 DEF ReleaseDelete
<1> QED
  BY <1>1, <1>2, <1>3, <1>4, <1>5, <1>6, <1>7, Zenon DEF Next, Step

(* The invariant holds in every reachable state. *)
LEMMA OwnerInvHolds == Spec => []OwnerInv
BY OwnerInvInit, OwnerInvNext, PTL DEF Spec

(* Type correctness of SendIncomingRequestInfo and its timers. *)
THEOREM ClientTypeCorrect == Spec => []TypeOK
<1>1. OwnerInv => TypeOK
  BY Zenon DEF OwnerInv
<1> QED
  BY <1>1, OwnerInvHolds, PTL

(* The operator hears of a service from one call at a time, and not again  *)
(* before the timer of that call has fired.                                *)
THEOREM ClientOneSender == Spec => []OneSender
<1>1. OwnerInv => OneSender
  BY Zenon DEF OwnerInv, Owns, OneSender
<1> QED
  BY <1>1, OwnerInvHolds, PTL

(* releaseMutexForServiceRPC never unlocks a mutex that is not locked,     *)
(* which would be fatal to the resolver, and never one of another call.    *)
THEOREM ClientReleasesOwnMutex == Spec => []ReleasesOwnMutex
<1>1. OwnerInv => ReleasesOwnMutex
  BY Zenon DEF OwnerInv, Owns, ReleasesOwnMutex
<1> QED
  BY <1>1, OwnerInvHolds, PTL

-----------------------------------------------------------------------------
(* The handler.                                                            *)

(* The first call of a request has an index that is at least 0. *)
LEMMA CallIndex ==
  ASSUME NEW c \in Calls
  PROVE  c[1] \in Requests /\ c[2] \in Nat
BY HandlerAssumption

(* What a request has written and started, by where it is.  Before Try has *)
(* proxied it nothing is written.  A status that is not the handler's own  *)
(* was written by a probe rule, before any call was started.  A call that  *)
(* was not started has done nothing.                                       *)
Stage(r) ==
  /\ at[r] = "new" => told[r] = 0
  /\ at[r] \in {"new", "try"} => wire[r] = 0 /\ recorded[r] = 0 /\ ~answered[r]
  /\ at[r] \in {"proxied", "broken"} => wire[r] \in {0, 502, Target} /\ recorded[r] = wire[r]
  /\ at[r] = "proxied" => wire[r] # 0
  /\ wire[r] \notin Own => ~answered[r] /\ told[r] = 0

HandlerInv ==
  /\ at \in [Requests -> {"new", "try", "proxied", "broken", "done"}]
  /\ told \in [Requests -> Nat]
  /\ wire = [r \in Requests |-> wire[r]] /\ recorded = [r \in Requests |-> recorded[r]]
  /\ answered \in [Requests -> BOOLEAN]
  /\ TargetAnswerStands /\ RecordedUnlessLate
  /\ \A r \in Requests : Stage(r)
  /\ pc \in [Calls -> PCs]
  /\ \A c \in Calls : c[2] >= told[c[1]] => pc[c] = "new"

(* No request has come in. *)
LEMMA HandlerInvInit == HandlerInit => HandlerInv
BY DEF HandlerInit, Init, HandlerInv, Stage, TargetAnswerStands, RecordedUnlessLate, Own,
       Target, PCs

(* handleAnyRequest answers a request, or tells the operator and begins to *)
(* try it.                                                                 *)
LEMMA ReceiveOutcomes ==
  ASSUME NEW r, Receive(r)
  PROVE  \/ \E status : Finish(r, status) /\ UNCHANGED told
         \/ Inform(r) /\ Move(r, "try") /\ UNCHANGED <<wire, recorded>>
<1>1. CASE Finish(r, 500) /\ UNCHANGED <<told, expected>>
  BY <1>1, Zenon
<1>2. ASSUME NEW rules \in RuleLists, NEW req \in HTTPRequests,
             IF MatchProbeResponseFromSpec(rules, req) = NoMatch THEN Admit(r)
             ELSE Finish(r, MatchProbeResponseFromSpec(rules, req)) /\ UNCHANGED told
      PROVE  \/ \E status : Finish(r, status) /\ UNCHANGED told
             \/ Inform(r) /\ Move(r, "try") /\ UNCHANGED <<wire, recorded>>
  BY <1>2, Zenon DEF Admit
<1> QED
  BY <1>1, <1>2, Zenon DEF Receive, respondProbeResponseIfMatch

(* The first status that is written for a request is on the wire. *)
LEMMA FirstStatus ==
  ASSUME HandlerInv, NEW r \in Requests, NEW status, WriteHeader(r, status), wire[r] = 0
  PROVE  /\ wire' = [wire EXCEPT ![r] = status] /\ recorded' = [recorded EXCEPT ![r] = status]
         /\ wire'[r] = status /\ recorded'[r] = status
         /\ \A q \in Requests \ {r} : wire'[q] = wire[q] /\ recorded'[q] = recorded[q]
         /\ wire' = [q \in Requests |-> wire'[q]]
         /\ recorded' = [q \in Requests |-> recorded'[q]]
BY Zenon DEF HandlerInv, WriteHeader

(* A request moves on, and what it writes depends only on where it is.     *)
LEMMA RequestSteps ==
  ASSUME HandlerInv, NEW r \in Requests, Receive(r) \/ Try(r) \/ Expire(r)
  PROVE  HandlerInv'
<1> USE DEF Stage, TargetAnswerStands, RecordedUnlessLate, Own, Target, Move, Inform, vars
<1>1. CASE Receive(r)
  <2>0. /\ at[r] = "new" /\ told[r] = 0 /\ wire[r] = 0 /\ recorded[r] = 0 /\ ~answered[r]
        /\ UNCHANGED <<pc, answered>>
    BY <1>1 DEF Receive, HandlerInv
  <2>2. ASSUME NEW status, Finish(r, status), UNCHANGED told PROVE HandlerInv'
    <3>1. WriteHeader(r, status) /\ at' = [at EXCEPT ![r] = "done"]
      BY <2>2, Zenon DEF Finish
    <3> QED
      BY <2>0, <2>2, <3>1, FirstStatus DEF HandlerInv
  <2>3. CASE Inform(r) /\ Move(r, "try") /\ UNCHANGED <<wire, recorded>>
    BY <2>0, <2>3, CallIndex DEF HandlerInv
  <2> QED
    BY <1>1, <2>2, <2>3, ReceiveOutcomes, Zenon
<1>2. CASE NotReady(r)
  BY <1>2, CallIndex DEF NotReady, HandlerInv
<1>3. CASE ProxyRequest(r)
  <2>0. wire[r] = 0 /\ recorded[r] = 0 /\ ~answered[r] /\ UNCHANGED <<pc, told>>
    BY <1>3 DEF ProxyRequest, HandlerInv
  <2>1. CASE WriteHeader(r, Target) /\ answered' = [answered EXCEPT ![r] = TRUE]
    <3>1. PICK l \in {"proxied", "broken"} : at' = [at EXCEPT ![r] = l]
      BY <1>3, <2>1 DEF ProxyRequest
    <3> QED
      BY <2>0, <2>1, <3>1, FirstStatus DEF HandlerInv
  <2>2. CASE WriteHeader(r, 502) /\ UNCHANGED answered /\ Move(r, "proxied")
    BY <2>0, <2>2, FirstStatus DEF HandlerInv
  <2>3. CASE Move(r, "broken") /\ UNCHANGED <<wire, recorded, answered>>
    BY <2>0, <2>3 DEF HandlerInv
  <2> QED
    BY <1>3, <2>1, <2>2, <2>3, Zenon DEF ProxyRequest
<1>4. CASE TryReturns(r)
  BY <1>4 DEF TryReturns, HandlerInv, Finish, WriteHeader
<1>5. CASE Expire(r)
  BY <1>5 DEF Expire, HandlerInv
<1> QED
  BY <1>1, <1>2, <1>3, <1>4, <1>5, Zenon DEF Try

(* A call runs only after it was started, and changes nothing of a         *)
(* request.                                                                *)
LEMMA CallSteps ==
  ASSUME HandlerInv, NEW c \in Calls, ClientStep(c)
  PROVE  HandlerInv'
<1>1. /\ c[2] < told[c[1]] /\ UNCHANGED handlerVars
      /\ Step(c)
  BY Zenon DEF ClientStep
<1>2. pc' \in [Calls -> PCs] /\ \A d \in Calls \ {c} : pc'[d] = pc[d]
  BY <1>1, Zenon DEF HandlerInv, Step, GetMutex, Lock, Send, Return, End, ReleaseUnlock,
                     ReleaseDelete, Goto, PCs
<1> QED
  BY <1>1, <1>2, CallIndex DEF HandlerInv, handlerVars, Stage, TargetAnswerStands,
                               RecordedUnlessLate

(* The invariant holds in every reachable state. *)
LEMMA HandlerInvHolds == HandlerSpec => []HandlerInv
<1>1. HandlerInv /\ [HandlerNext]_allVars => HandlerInv'
  <2> SUFFICES ASSUME HandlerInv, [HandlerNext]_allVars PROVE HandlerInv'
    BY Zenon
  <2>1. CASE UNCHANGED allVars
    BY <2>1 DEF allVars, handlerVars, vars, HandlerInv, Stage, TargetAnswerStands,
                RecordedUnlessLate
  <2> QED
    BY <2>1, RequestSteps, CallSteps, Zenon DEF HandlerNext
<1> QED
  BY <1>1, HandlerInvInit, PTL DEF HandlerSpec

(* Once the target has answered, its status is what the client gets,       *)
(* whatever WriteHeader is called with after it.                           *)
THEOREM HandlerKeepsAnswer == HandlerSpec => []TargetAnswerStands
<1>1. HandlerInv => TargetAnswerStands
  BY Zenon DEF HandlerInv
<1> QED
  BY <1>1, HandlerInvHolds, PTL

(* The status that ServeHTTP records differs from the one the client got   *)
(* only when Try returned an error for a request that had been proxied.    *)
THEOREM HandlerRecords == HandlerSpec => []RecordedUnlessLate
<1>1. HandlerInv => RecordedUnlessLate
  BY Zenon DEF HandlerInv
<1> QED
  BY <1>1, HandlerInvHolds, PTL

(* A request that a probe rule answers reaches neither the target nor the  *)
(* operator, whatever the rules are and however the calls of other         *)
(* requests interleave.                                                    *)
THEOREM HandlerProbeIsSilent == HandlerSpec => []ProbeIsSilent
<1>1. HandlerInv => ProbeIsSilent
  BY CallIndex DEF HandlerInv, Stage, ProbeIsSilent
<1> QED
  BY <1>1, HandlerInvHolds, PTL

(* The steps of the handler are steps of the operator client or leave it   *)
(* alone, so that what is proved of the client holds inside the handler.   *)
LEMMA HandlerUsesClient == HandlerSpec => Spec
<1>1. HandlerInit => Init
  BY Zenon DEF HandlerInit
<1>2. [HandlerNext]_allVars => [Next]_vars
  <2> SUFFICES ASSUME [HandlerNext]_allVars PROVE Next \/ UNCHANGED vars
    BY Zenon
  <2>1. CASE UNCHANGED allVars
    BY <2>1, Zenon DEF allVars
  <2>2. ASSUME NEW r \in Requests, Receive(r) \/ Try(r) \/ Expire(r) PROVE UNCHANGED vars
    BY <2>2, Zenon DEF Receive, Try, NotReady, ProxyRequest, TryReturns, Expire
  <2>3. ASSUME NEW c \in Calls, ClientStep(c) PROVE Next
    BY <2>3, Zenon DEF ClientStep, Next
  <2> QED
    BY <2>1, <2>2, <2>3, Zenon DEF HandlerNext
<1> QED
  BY <1>1, <1>2, PTL DEF HandlerSpec, Spec

(* So also the calls that the handler starts never unlock a mutex that is  *)
(* not locked, nor one of another call.                                    *)
THEOREM HandlerReleasesOwnMutex == HandlerSpec => []ReleasesOwnMutex
BY HandlerUsesClient, ClientReleasesOwnMutex, PTL

-----------------------------------------------------------------------------
(* The matching of probes: MatchProbeResponseFromSpec finds the status     *)
(* that the rules call for.                                                *)

(* A set of places that is not empty has a first one. *)
LEMMA FirstPlace ==
  ASSUME NEW S, S \subseteq Nat, S # {}
  PROVE  First(S) \in S /\ \A j \in S : First(S) <= j
<1> DEFINE R == {ss \in Nat \X Nat : ss[1] < ss[2]}
<1>1. IsWellFoundedOn(R, Nat)
  BY NatLessThanWellFounded, Zenon DEF OpToRel
<1>2. PICK i \in S : \A j \in S : ~(<<j, i>> \in R)
  BY <1>1, WFMin, Zenon
<1>3. \A j \in S : i <= j
  <2> SUFFICES ASSUME NEW j \in S, ~(i <= j) PROVE FALSE
    BY Zenon
  <2>1. i \in Nat /\ j \in Nat /\ j < i
    OBVIOUS
  <2>2. <<j, i>> \in R
    BY <2>1, Zenon
  <2> QED
    BY <1>2, <2>2, Zenon
<1> QED
  BY <1>3, Zenon DEF First

(* A segment ends at the first slash after it, or with the path. *)
LEMMA CutPlace ==
  ASSUME NEW path \in Seq(Chars), NEW i \in 0..Len(path)
  PROVE  /\ NextCut(path, i) \in i + 1..Len(path) + 1
         /\ NextCut(path, i) <= Len(path) => path[NextCut(path, i)] = "/"
         /\ \A j \in i + 1..NextCut(path, i) - 1 : path[j] # "/"
<1> DEFINE S == {j \in i + 1..Len(path) : path[j] = "/"} \cup {Len(path) + 1}
<1>1. S \subseteq Nat /\ S # {}
  OBVIOUS
<1>2. NextCut(path, i) \in S /\ \A j \in S : NextCut(path, i) <= j
  BY <1>1, FirstPlace, Zenon DEF NextCut
<1> QED
  BY <1>2

(* Segments are found under 0 and under the slashes. *)
LEMMA SegmentAt ==
  ASSUME NEW path \in Seq(Chars)
  PROVE  /\ DOMAIN Segments(path) = {0} \cup {i \in 1..Len(path) : path[i] = "/"}
         /\ \A i \in DOMAIN Segments(path) :
              Segments(path)[i] = SubSeq(path, i + 1, NextCut(path, i) - 1)
<1>1. DOMAIN path = 1..Len(path)
  OBVIOUS
<1> QED
  BY <1>1, Zenon DEF Segments

(* The slash, or beginning, of the segment that place j belongs to. *)
LEMMA SegmentOf ==
  ASSUME NEW path \in Seq(Chars), NEW j \in 0..Len(path)
  PROVE  \E i \in DOMAIN Segments(path) : i <= j /\ \A m \in i + 1..j : path[m] # "/"
<1> DEFINE S == {d \in 0..j : d = j \/ path[j - d] = "/"}
<1>1. S \subseteq Nat /\ j \in S
  OBVIOUS
<1>2. First(S) \in S /\ \A d \in S : First(S) <= d
  BY <1>1, FirstPlace, Zenon
<1> DEFINE i == j - First(S)
<1>3. i \in 0..j /\ (i = 0 \/ path[i] = "/")
  BY <1>2
<1>4. ASSUME NEW m \in i + 1..j PROVE path[m] # "/"
  <2>1. j - m \in 0..j /\ j - m < First(S) /\ j - (j - m) = m
    BY <1>2
  <2> HIDE DEF i
  <2> QED
    BY <1>2, <2>1
<1>5. i \in DOMAIN Segments(path)
  BY <1>3 DEF Segments
<1> QED
  BY <1>3, <1>4, <1>5

(* Equal parts that begin at place a end at the same place, and the texts  *)
(* agree there.                                                            *)
LEMMA PartsAgree ==
  ASSUME NEW s \in Seq(Chars), NEW t \in Seq(Chars), NEW a \in Nat, NEW b \in Nat, NEW c \in Nat,
         0 < a, a <= b + 1, b <= Len(s), a <= c + 1, c <= Len(t),
         SubSeq(s, a, b) = SubSeq(t, a, c)
  PROVE  b = c /\ \A m \in a..b : s[m] = t[m]
<1> DEFINE S == SubSeq(s, a, b)
           T == SubSeq(t, a, c)
<1>1. /\ S = [k \in 1..b - a + 1 |-> s[a + k - 1]] /\ Len(S) = b - a + 1
      /\ T = [k \in 1..c - a + 1 |-> t[a + k - 1]] /\ Len(T) = c - a + 1
      /\ S = T
  OBVIOUS
<1> HIDE DEF S, T
<1>2. b = c
  BY <1>1
<1>3. ASSUME NEW m \in a..b PROVE s[m] = t[m]
  <2>1. m - a + 1 \in 1..b - a + 1 /\ a + (m - a + 1) - 1 = m
    OBVIOUS
  <2>2. S[m - a + 1] = s[m] /\ T[m - a + 1] = t[m]
    BY <1>1, <1>2, <2>1, Zenon
  <2> QED
    BY <1>1, <2>2, Zenon
<1> QED
  BY <1>2, <1>3, Zenon

(* Texts that agree have equal parts. *)
LEMMA PartsEqual ==
  ASSUME NEW s \in Seq(Chars), NEW t \in Seq(Chars), NEW a \in Nat,
         NEW b \in a + 1..Len(s) + 1, b <= Len(t) + 1, \A m \in a + 1..b - 1 : s[m] = t[m]
  PROVE  SubSeq(s, a + 1, b - 1) = SubSeq(t, a + 1, b - 1)
OBVIOUS

(* The text of the stem is followed by a slash, or by nothing. *)
Follows(path, stem) ==
  /\ HasPrefix(path, stem)
  /\ Len(path) > Len(stem) => path[Len(stem) + 1] = "/"

(* To compare these texts is to compare segments. *)
LEMMA FollowsSegments ==
  ASSUME NEW path \in Seq(Chars), NEW stem \in Seq(Chars)
  PROVE  Follows(path, stem) <=> BeginsWith(path, stem)
<1> DEFINE P == Segments(path)
           Q == Segments(stem)
<1>0. /\ DOMAIN P = {0} \cup {i \in 1..Len(path) : path[i] = "/"}
      /\ DOMAIN Q = {0} \cup {i \in 1..Len(stem) : stem[i] = "/"}
      /\ \A i \in DOMAIN P : P[i] = SubSeq(path, i + 1, NextCut(path, i) - 1)
      /\ \A i \in DOMAIN Q : Q[i] = SubSeq(stem, i + 1, NextCut(stem, i) - 1)
  BY SegmentAt, Zenon
<1>1. ASSUME Follows(path, stem) PROVE BeginsWith(path, stem)
  <2> SUFFICES ASSUME NEW i \in DOMAIN Q PROVE i \in DOMAIN P /\ P[i] = Q[i]
    BY Zenon DEF BeginsWith
  <2>1. i \in 0..Len(stem) /\ i \in DOMAIN P
    BY <1>1 DEF Segments, HasPrefix, Follows
  <2> DEFINE c == NextCut(stem, i)
             d == NextCut(path, i)
  <2>2. i \in 0..Len(path)
    BY <1>1, <2>1 DEF HasPrefix, Follows
  <2>3. c = d
    <3>1. /\ c \in i + 1..Len(stem) + 1 /\ d \in i + 1..Len(path) + 1
          /\ c <= Len(stem) => stem[c] = "/"
          /\ d <= Len(path) => path[d] = "/"
          /\ \A j \in i + 1..c - 1 : stem[j] # "/"
          /\ \A j \in i + 1..d - 1 : path[j] # "/"
      BY <2>1, <2>2, CutPlace, Zenon
    <3> HIDE DEF c, d
    <3>2. ~(d < c)
      BY <1>1, <2>1, <3>1 DEF HasPrefix, Follows
    <3>3. ~(c < d)
      BY <1>1, <2>1, <3>1 DEF HasPrefix, Follows
    <3> QED
      BY <2>1, <3>1, <3>2, <3>3
  <2>4. c \in i + 1..Len(stem) + 1 /\ Len(stem) <= Len(path)
    BY <1>1, <2>1, CutPlace, Zenon DEF HasPrefix, Follows
  <2> HIDE DEF c, d
  <2>5. SubSeq(path, i + 1, c - 1) = SubSeq(stem, i + 1, c - 1)
    <3>1. i \in Nat /\ c \in i + 1..Len(path) + 1 /\ c \in i + 1..Len(stem) + 1
      BY <2>1, <2>4
    <3>2. \A m \in i + 1..c - 1 : path[m] = stem[m]
      BY <1>1, <2>1, <2>4 DEF HasPrefix, Follows
    <3> QED
      BY <3>1, <3>2, PartsEqual
  <2> QED
    BY <2>1, <2>3, <2>5, SegmentAt, Zenon DEF c, d
<1>2. ASSUME BeginsWith(path, stem) PROVE Follows(path, stem)
  <2>1. ASSUME NEW i \in DOMAIN Q
        PROVE  /\ i \in 0..Len(stem) /\ i \in 0..Len(path)
               /\ i # 0 => path[i] = "/" /\ stem[i] = "/"
               /\ i \in DOMAIN P /\ P[i] = Q[i]
    <3>1. i \in DOMAIN P /\ P[i] = Q[i]
      BY <1>2, Zenon DEF BeginsWith
    <3>2. i = 0 \/ (i \in 1..Len(stem) /\ stem[i] = "/")
      BY <1>0, Zenon
    <3>3. i = 0 \/ (i \in 1..Len(path) /\ path[i] = "/")
      BY <1>0, <3>1, Zenon
    <3> QED
      BY <3>1, <3>2, <3>3
  <2>2. ASSUME NEW i \in DOMAIN Q
        PROVE  /\ NextCut(stem, i) = NextCut(path, i)
               /\ \A m \in i + 1..NextCut(stem, i) - 1 : path[m] = stem[m]
    <3> DEFINE c == NextCut(stem, i)
               d == NextCut(path, i)
    <3>1. c \in i + 1..Len(stem) + 1 /\ d \in i + 1..Len(path) + 1
      BY <2>1, CutPlace, Zenon
    <3>2. SubSeq(stem, i + 1, c - 1) = SubSeq(path, i + 1, d - 1)
      BY <1>0, <2>1, Zenon
    <3> HIDE DEF c, d
    <3>3. c = d /\ \A m \in i + 1..c - 1 : stem[m] = path[m]
      <4> DEFINE a == i + 1
                 x == c - 1
                 y == d - 1
      <4>1. /\ a \in Nat /\ x \in Nat /\ y \in Nat /\ 0 < a
            /\ a <= x + 1 /\ x <= Len(stem) /\ a <= y + 1 /\ y <= Len(path)
        BY <2>1, <3>1
      <4>2. SubSeq(stem, a, x) = SubSeq(path, a, y)
        BY <3>2, Zenon
      <4>3. x = y => c = d
        BY <2>1, <3>1
      <4> HIDE DEF a, x, y
      <4>4. x = y /\ \A m \in a..x : stem[m] = path[m]
        BY <4>1, <4>2, PartsAgree
      <4> QED
        BY <4>3, <4>4, Zenon DEF a, x, y
    <3> QED
      BY <3>1, <3>3, Zenon DEF c, d
  <2>3. ASSUME NEW j \in 1..Len(stem) PROVE j <= Len(path) /\ path[j] = stem[j]
    <3>1. PICK i \in DOMAIN Q : i <= j /\ \A m \in i + 1..j : stem[m] # "/"
      BY SegmentOf
    <3>2. CASE i = j
      BY <2>1, <3>2
    <3>3. CASE i # j
      <4>1. i \in 0..Len(stem) /\ i \in 0..Len(path) /\ i < Len(stem)
        BY <2>1, <3>1, <3>3
      <4>2. /\ NextCut(stem, i) \in i + 1..Len(stem) + 1
            /\ NextCut(stem, i) <= Len(stem) => stem[NextCut(stem, i)] = "/"
            /\ NextCut(path, i) \in i + 1..Len(path) + 1
        BY <4>1, CutPlace, Zenon
      <4>3. j < NextCut(stem, i)
        BY <3>1, <3>3, <4>1, <4>2
      <4> QED
        BY <2>2, <3>1, <3>3, <4>1, <4>2, <4>3
    <3> QED
      BY <3>2, <3>3, Zenon
  <2>4. HasPrefix(path, stem)
    BY <2>3 DEF HasPrefix
  <2>5. PICK i \in DOMAIN Q : i <= Len(stem) /\ \A m \in i + 1..Len(stem) : stem[m] # "/"
    BY SegmentOf
  <2>6. NextCut(path, i) = Len(stem) + 1
    <3>1. /\ NextCut(stem, i) \in i + 1..Len(stem) + 1
          /\ NextCut(stem, i) <= Len(stem) => stem[NextCut(stem, i)] = "/"
      BY <2>1, CutPlace, Zenon
    <3> QED
      BY <2>1, <2>2, <2>5, <3>1
  <2>7. /\ NextCut(path, i) \in i + 1..Len(path) + 1
        /\ NextCut(path, i) <= Len(path) => path[NextCut(path, i)] = "/"
    BY <2>1, CutPlace, Zenon
  <2> QED
    BY <2>4, <2>6, <2>7 DEF Follows
<1> QED
  BY <1>1, <1>2, Zenon

(* Texts of the same length that agree everywhere are the same. *)
LEMMA SameText ==
  ASSUME NEW s \in Seq(Chars), NEW t \in Seq(Chars), Len(s) = Len(t),
         \A i \in 1..Len(s) : s[i] = t[i]
  PROVE  s = t
<1>1. s \in [1..Len(s) -> Chars] /\ t \in [1..Len(s) -> Chars]
  OBVIOUS
<1> QED
  BY <1>1

(* pathPrefix compares texts.  Its outcome is that of the Gateway API's    *)
(* comparison of segments, except for the path that lacks only the slash   *)
(* at the end of the prefix: the one place where the two disagree.         *)
THEOREM PrefixButSlash ==
  ASSUME NEW path \in Seq(Chars), NEW prefix \in Seq(Chars), prefix # <<>>
  PROVE  pathPrefix(path, prefix) <=>
           Under(path, prefix) /\ (prefix # Append(path, "/") \/ path = <<>>)
<1>1. CASE prefix = Slash
  BY <1>1 DEF pathPrefix, Under, HasPrefix, Slash
<1>2. CASE prefix # Slash /\ prefix[Len(prefix)] # "/"
  <2>1. Stem(prefix) = prefix /\ prefix # Append(path, "/")
    BY <1>2 DEF Stem
  <2>2. pathPrefix(path, prefix) <=> Follows(path, prefix)
    BY <1>2 DEF pathPrefix, HasPrefix, Follows
  <2> QED
    BY <1>2, <2>1, <2>2, FollowsSegments, Zenon DEF Under
<1>3. CASE prefix # Slash /\ prefix[Len(prefix)] = "/"
  <2> DEFINE stem == Stem(prefix)
  <2>1. /\ stem \in Seq(Chars) /\ Len(stem) = Len(prefix) - 1 /\ Len(prefix) > 1
        /\ \A i \in 1..Len(stem) : stem[i] = prefix[i]
    <3>1. Len(prefix) \in Nat /\ Len(prefix) > 0 /\ Slash \in Seq(Chars) /\ Len(Slash) = 1
          /\ Slash[1] = "/"
      BY CharsAssumption DEF Slash
    <3>2. Len(prefix) # 1
      BY <1>3, <3>1, SameText
    <3>3. stem = SubSeq(prefix, 1, Len(prefix) - 1)
      BY <1>3, Zenon DEF Stem
    <3> QED
      BY <3>1, <3>2, <3>3
  <2>2. pathPrefix(path, prefix) <=> HasPrefix(path, prefix)
    BY <1>3 DEF pathPrefix, HasPrefix
  <2> HIDE DEF stem
  <2>3. prefix = Append(path, "/") <=> (HasPrefix(path, stem) /\ Len(path) = Len(stem))
    <3> DEFINE text == Append(path, "/")
    <3>1. /\ text \in Seq(Chars) /\ Len(text) = Len(path) + 1 /\ text[Len(path) + 1] = "/"
          /\ \A i \in 1..Len(path) : text[i] = path[i]
      BY CharsAssumption
    <3> HIDE DEF text
    <3>2. ASSUME prefix = text PROVE HasPrefix(path, stem) /\ Len(path) = Len(stem)
      BY <2>1, <3>1, <3>2 DEF HasPrefix
    <3>3. ASSUME HasPrefix(path, stem), Len(path) = Len(stem) PROVE prefix = text
      <4>1. Len(prefix) = Len(text) /\ \A i \in 1..Len(prefix) : prefix[i] = text[i]
        BY <1>3, <2>1, <3>1, <3>3 DEF HasPrefix
      <4> QED
        BY <3>1, <4>1, SameText, Zenon
    <3> QED
      BY <3>2, <3>3, Zenon DEF text
  <2>4. HasPrefix(path, prefix) <=>
          (HasPrefix(path, stem) /\ Len(path) > Len(stem) /\ path[Len(stem) + 1] = "/")
    <3>1. /\ Len(path) \in Nat /\ Len(stem) \in Nat /\ Len(prefix) = Len(stem) + 1
          /\ prefix[Len(stem) + 1] = "/"
      BY <1>3, <2>1
    <3>2. ASSUME HasPrefix(path, prefix)
          PROVE  HasPrefix(path, stem) /\ Len(path) > Len(stem) /\ path[Len(stem) + 1] = "/"
      BY <2>1, <3>1, <3>2 DEF HasPrefix
    <3>3. ASSUME HasPrefix(path, stem), Len(path) > Len(stem), path[Len(stem) + 1] = "/"
          PROVE  HasPrefix(path, prefix)
      <4>1. ASSUME NEW i \in 1..Len(prefix) PROVE path[i] = prefix[i]
        BY <2>1, <3>1, <3>3 DEF HasPrefix
      <4> QED
        BY <3>1, <3>3, <4>1 DEF HasPrefix
    <3> QED
      BY <3>2, <3>3, Zenon
  <2>5. Under(path, prefix) <=> Follows(path, stem)
    BY <1>3, <2>1, FollowsSegments, Zenon DEF Under, stem
  <2>6. prefix = Append(path, "/") => path # <<>>
    BY <2>1
  <2>7. HasPrefix(path, stem) => Len(stem) <= Len(path)
    BY Zenon DEF HasPrefix
  <2> QED
    BY <2>1, <2>2, <2>3, <2>4, <2>5, <2>6, <2>7 DEF Follows
<1> QED
  BY <1>1, <1>2, <1>3, Zenon

(* What the types say of a rule. *)
IsRule(rule) ==
  rule.path # <<>> =>
    LET p == rule.path[1] IN
    /\ p = [type |-> p.type, value |-> p.value]
    /\ p.type \in {"Exact", "RegularExpression"} \/ p.value \in Seq(Chars)

(* The loops over headers and query parameters find a value for every      *)
(* condition, or there is none.                                            *)
LEMMA ConditionsHold ==
  ASSUME NEW conditions, NEW given
  PROVE  /\ headersMatch(conditions, given) <=> Holds(conditions, given)
         /\ queryParamsMatch(conditions, given) <=> Holds(conditions, given)
<1>1. ASSUME NEW c, NEW values
      PROVE  ValueMatches(c, values) <=>
               \E v \in values : IF c.type = "RegularExpression"
                                 THEN c.value # Invalid /\ v \in c.value ELSE v = c.value
  BY Zenon DEF ValueMatches
<1> QED
  BY <1>1, Zenon DEF headersMatch, queryParamsMatch, headerValueMatches, queryParamValueMatches, Holds

(* pathMatches does what the rule says of the path, but for the slash. *)
LEMMA PathIsMatched ==
  ASSUME NEW rule, IsRule(rule), NEW path \in Seq(Chars), ~LacksSlash(rule, path)
  PROVE  pathMatches(path, rule) <=> PathApplies(rule, path)
<1> DEFINE p == rule.path[1]
<1>1. Slash \in Seq(Chars) /\ Slash # <<>> /\ (Slash # Append(path, "/") \/ path = <<>>)
  BY CharsAssumption DEF Slash
<1>2. CASE rule.path = <<>>
  <2>1. normalizeProbePathMatch(rule) = [type |-> "PathPrefix", value |-> Slash]
    BY <1>2, Zenon DEF normalizeProbePathMatch
  <2>2. pathMatches(path, rule) <=> pathPrefix(path, Slash)
    BY <2>1 DEF pathMatches, canonicalPathMatchType
  <2> QED
    BY <1>1, <1>2, <2>2, PrefixButSlash, Zenon DEF PathApplies
<1>3. CASE rule.path # <<>> /\ p.type \in {"Exact", "RegularExpression"}
  <2>1. normalizeProbePathMatch(rule) = p
    BY <1>3, Zenon DEF normalizeProbePathMatch, canonicalPathMatchType
  <2> QED
    BY <1>3, <2>1, Zenon DEF pathMatches, canonicalPathMatchType, PathApplies
<1>4. CASE rule.path # <<>> /\ p.type \notin {"Exact", "RegularExpression"}
  <2> DEFINE value == IF p.value = <<>> THEN Slash ELSE p.value
  <2>1. p = [type |-> p.type, value |-> p.value] /\ p.value \in Seq(Chars)
    BY <1>4, Zenon DEF IsRule
  <2>2. /\ normalizeProbePathMatch(rule).type = p.type
        /\ normalizeProbePathMatch(rule).value = value
    BY <1>4, <2>1, Zenon DEF normalizeProbePathMatch, canonicalPathMatchType
  <2>3. pathMatches(path, rule) <=> pathPrefix(path, value)
    BY <1>4, <2>2, Zenon DEF pathMatches, canonicalPathMatchType
  <2>4. value \in Seq(Chars) /\ value # <<>> /\ (value # Append(path, "/") \/ path = <<>>)
    BY <1>1, <1>4, <2>1, Zenon DEF LacksSlash
  <2>5. PathApplies(rule, path) <=> Under(path, value)
    BY <1>4, Zenon DEF PathApplies
  <2> HIDE DEF value
  <2> QED
    BY <2>3, <2>4, <2>5, PrefixButSlash, Zenon
<1> QED
  BY <1>2, <1>3, <1>4, Zenon

(* The loop of MatchProbeResponseFromSpec finds the first rule that        *)
(* applies.                                                                *)
LEMMA MatchIsExpected ==
  ASSUME NEW rules \in RuleLists, NEW req \in HTTPRequests
  PROVE  MatchProbeResponseFromSpec(rules, req) = ExpectedButSlash(rules, req)
<1> SUFFICES ASSUME ~SlashDecides(rules, req)
             PROVE  MatchProbeResponseFromSpec(rules, req) = Expected(rules, req)
  BY Zenon DEF ExpectedButSlash
<1>1. ASSUME NEW i \in DOMAIN rules
      PROVE  RuleMatches(rules[i], req) <=> Applies(rules[i], req)
  <2>1. IsRule(rules[i]) /\ req.path \in Seq(Chars) /\ ~LacksSlash(rules[i], req.path)
    BY ProbeAssumption, Zenon DEF IsRule, SlashDecides
  <2>2. methodMatchesProbeResponse(rules[i].method, req.method) <=>
          rules[i].method = "" \/ rules[i].method = req.method
    BY Zenon DEF methodMatchesProbeResponse
  <2> QED
    BY <2>1, <2>2, PathIsMatched, ConditionsHold, Zenon DEF RuleMatches, Applies
<1>2. {i \in DOMAIN rules : RuleMatches(rules[i], req)}
        = {i \in DOMAIN rules : Applies(rules[i], req)}
  BY <1>1, Zenon
<1> QED
  BY <1>2, Zenon DEF MatchProbeResponseFromSpec, Expected

(* ProbeExact is kept by every step: only Receive sets what is expected,   *)
(* and writes it, and a request that a rule has answered is done.          *)
LEMMA ProbeExactNext ==
  ASSUME HandlerInv, ProbeExact, expected = [r \in Requests |-> expected[r]], [HandlerNext]_allVars
  PROVE  ProbeExact' /\ expected' = [r \in Requests |-> expected'[r]]
<1> USE DEF Own, Target, NoMatch
<1>1. CASE UNCHANGED <<at, wire, expected>>
  BY <1>1 DEF ProbeExact
<1>2. ASSUME NEW r \in Requests, Receive(r)
      PROVE  ProbeExact' /\ expected' = [q \in Requests |-> expected'[q]]
  <2>1. at[r] = "new" /\ wire[r] = 0 /\ expected[r] = NoMatch
    BY <1>2 DEF Receive, HandlerInv, Stage, ProbeExact
  <2>2. ASSUME NEW status, Finish(r, status)
        PROVE  at' = [at EXCEPT ![r] = "done"] /\ wire' = [wire EXCEPT ![r] = status]
    BY <2>1, <2>2, FirstStatus, Zenon DEF Finish, Move
  <2>3. CASE Finish(r, 500) /\ UNCHANGED expected
    BY <2>1, <2>2, <2>3 DEF ProbeExact, HandlerInv
  <2>4. ASSUME NEW rules \in RuleLists, NEW req \in HTTPRequests,
               expected' = [expected EXCEPT ![r] = ExpectedButSlash(rules, req)],
               IF MatchProbeResponseFromSpec(rules, req) = NoMatch THEN Admit(r)
               ELSE Finish(r, MatchProbeResponseFromSpec(rules, req))
        PROVE  ProbeExact' /\ expected' = [q \in Requests |-> expected'[q]]
    <3> DEFINE status == MatchProbeResponseFromSpec(rules, req)
    <3>1. expected' = [expected EXCEPT ![r] = status]
      BY <2>4, MatchIsExpected, Zenon
    <3> HIDE DEF status
    <3>2. CASE status # NoMatch
      <4>1. at' = [at EXCEPT ![r] = "done"] /\ wire' = [wire EXCEPT ![r] = status]
        BY <2>2, <2>4, <3>2, Zenon DEF status
      <4> QED
        BY <3>1, <4>1 DEF ProbeExact, HandlerInv
    <3>3. CASE status = NoMatch
      <4>1. \/ at' = [at EXCEPT ![r] = "done"] /\ wire' = [wire EXCEPT ![r] = 408]
            \/ at' = [at EXCEPT ![r] = "try"] /\ wire' = wire
        BY <2>2, <2>4, <3>3, ZenonT(40) DEF Admit, Move, status
      <4> QED
        BY <2>1, <3>1, <3>3, <4>1 DEF ProbeExact, HandlerInv
    <3> QED
      BY <3>2, <3>3, Zenon
  <2> QED
    BY <1>2, <2>3, <2>4, Zenon DEF Receive, respondProbeResponseIfMatch
<1>3. ASSUME NEW r \in Requests, Try(r) \/ Expire(r)
      PROVE  ProbeExact' /\ expected' = [q \in Requests |-> expected'[q]]
  <2>1. /\ at[r] \in {"try", "proxied", "broken"} /\ UNCHANGED expected
        /\ \A q \in Requests \ {r} : at'[q] = at[q] /\ wire'[q] = wire[q]
        /\ wire'[r] \in {wire[r], Target, 408, 500, 502}
    BY <1>3 DEF Try, NotReady, ProxyRequest, TryReturns, Expire, Finish, WriteHeader, Move,
                HandlerInv
  <2> QED
    BY <2>1 DEF ProbeExact
<1> QED
  BY <1>1, <1>2, <1>3, Zenon DEF HandlerNext, ClientStep, allVars, handlerVars

(* Every request that the rules call for is answered with the status that  *)
(* they call for, and no other request gets a status from a rule: prefix   *)
(* by text, in the code, is prefix by segment, and the first rule wins.    *)
(* Excepted are the requests whose path a rule has with a slash behind it. *)
THEOREM HandlerProbeExact == HandlerSpec => []ProbeExact
<1> DEFINE Inv == ProbeExact /\ expected = [r \in Requests |-> expected[r]]
<1>1. HandlerInit => Inv
  BY DEF HandlerInit, ProbeExact, NoMatch, Own
<1>2. HandlerInv /\ Inv /\ [HandlerNext]_allVars => Inv'
  BY ProbeExactNext, Zenon
<1> QED
  BY <1>1, <1>2, HandlerInvHolds, PTL DEF HandlerSpec

-----------------------------------------------------------------------------
(* The host manager, for the requests of the handler.                      *)

CONSTANT NoHost
VARIABLES entry, allowed, scheduled, hostPc, hostOf, hostTimer, seen, ripe

Hosts == INSTANCE HostManager WITH pc <- hostPc, host <- hostOf, timer <- hostTimer

(* Before a timer has fired, all traffic is allowed.  Only then do cache   *)
(* misses replace the entry, and whoever is past GetHost has stored or     *)
(* seen one.                                                               *)
Fresh ==
  /\ ripe = {}
  /\ \A r \in Requests :
       /\ allowed[r] /\ hostTimer[r] \in {"off", "grace"}
       /\ hostPc[r] \notin {"new", "miss"} => entry # NoHost

(* Since then the entry stays: nobody misses it, and who is about to store *)
(* a Host has loaded it from there.  So if its traffic is off, the timer   *)
(* that switches it on is under way.                                       *)
Fixed ==
  /\ entry # NoHost
  /\ \A r \in Requests :
       /\ hostPc[r] # "miss"
       /\ hostPc[r] \in {"schedSet", "schedStore"} => hostOf[r] = entry
       /\ hostTimer[r] \in {"clear", "disableSet", "enableSet"} => seen[r] = entry
  /\ Hosts!OffHasTimer

(* A request starts its timer with its last step. *)
OneStart == \A r \in Requests : hostPc[r] # "done" => hostTimer[r] = "off"

HostInv == Hosts!TypeOK /\ OneStart /\ (Fresh \/ Fixed)

(* A host is one that a request has allocated. *)
LEMMA HostInvInit == Hosts!Init => HostInv
  BY DEF Hosts!Init, HostInv, Fresh, OneStart, Hosts!TypeOK, Hosts!PCs,
     Hosts!TimerPCs, Hosts!BusyTimer, Hosts!Armed

(* The steps keep the types: past GetHost there is an entry to load. *)
LEMMA HostTypes ==
  ASSUME NoHost \notin Requests, HostInv, NEW r \in Requests,
         Hosts!RequestStep(r) \/ Hosts!TimerStep(r), Hosts!Ripen
  PROVE  Hosts!TypeOK' /\ OneStart'
<1> USE DEF HostInv, OneStart, Hosts!TypeOK, Hosts!PCs, Hosts!TimerPCs, Hosts!BusyTimer
<1>0. hostPc[r] \notin {"new", "miss"} \/ r \in ripe \/ hostTimer[r] \in Hosts!BusyTimer => entry \in Requests
  BY Zenon DEF Fresh, Fixed
<1>1. (ripe \subseteq Hosts!Armed)'
  BY Zenon DEF Hosts!Ripen
<1>2. CASE Hosts!RequestStep(r)
  <2>1. CASE Hosts!GetHostLoad(r)
    BY <1>1, <2>1, Zenon DEF Hosts!GetHostLoad, Hosts!Goto, Hosts!hostVars, Hosts!timerVars
  <2>2. CASE Hosts!GetHostStore(r)
    BY <1>1, <2>2 DEF Hosts!GetHostStore, Hosts!Goto
  <2>3. CASE Hosts!CheckTraffic(r)
    BY <1>1, <2>3 DEF Hosts!CheckTraffic, Hosts!Goto, Hosts!hostVars, Hosts!timerVars
  <2>4. CASE Hosts!ProxyEnds(r)
    BY <1>1, <2>4 DEF Hosts!ProxyEnds, Hosts!Goto, Hosts!hostVars, Hosts!timerVars
  <2>5. CASE Hosts!ScheduleLoad(r)
    BY <1>0, <1>1, <2>5, Zenon DEF Hosts!ScheduleLoad, Hosts!Goto, Hosts!hostVars, Hosts!timerVars
  <2>6. CASE Hosts!ScheduleSet(r)
    BY <1>1, <2>6, Zenon DEF Hosts!ScheduleSet, Hosts!Goto, Hosts!timerVars
  <2>7. CASE Hosts!ScheduleStore(r)
    BY <1>1, <2>7, Zenon DEF Hosts!ScheduleStore, Hosts!Goto, Hosts!TimerGoto
  <2> QED
    BY <1>2, <2>1, <2>2, <2>3, <2>4, <2>5, <2>6, <2>7, Zenon DEF Hosts!RequestStep
<1>3. CASE Hosts!TimerStep(r)
  <2>1. CASE Hosts!GraceFires(r)
    BY <1>1, <2>1, Zenon DEF Hosts!GraceFires, Hosts!TimerGoto
  <2>2. CASE Hosts!ClearStore(r)
    BY <1>1, <2>2, Zenon DEF Hosts!ClearStore, Hosts!TimerGoto
  <2>3. CASE Hosts!DisableLoad(r)
    BY <1>1, <2>3, Zenon DEF Hosts!DisableLoad, Hosts!TimerGoto, Hosts!hostVars
  <2>4. CASE Hosts!DisableSet(r)
    BY <1>1, <2>4, Zenon DEF Hosts!DisableSet, Hosts!TimerGoto
  <2>5. CASE Hosts!EnableLoad(r)
    BY <1>1, <2>5 DEF Hosts!EnableLoad, Hosts!TimerGoto, Hosts!hostVars
  <2>6. CASE Hosts!EnableSet(r)
    BY <1>1, <2>6 DEF Hosts!EnableSet, Hosts!TimerGoto
  <2> QED
    BY <1>3, <2>1, <2>2, <2>3, <2>4, <2>5, <2>6, Zenon DEF Hosts!TimerStep
<1> QED
  BY <1>2, <1>3, Zenon

(* As long as no timer has fired none is ripe.  The first moment at which  *)
(* one is ripe is one at which nobody is about to store a Host.            *)
LEMMA FreshStep ==
  ASSUME NoHost \notin Requests, Hosts!TypeOK, Fresh, NEW r \in Requests,
         Hosts!RequestStep(r) \/ Hosts!TimerStep(r), Hosts!Ripen, Hosts!TypeOK', OneStart'
  PROVE  Fresh' \/ Fixed'
<1>1. Hosts!RequestStep(r)
  BY Zenon DEF Fresh, Hosts!TimerStep, Hosts!GraceFires, Hosts!ClearStore, Hosts!DisableLoad,
     Hosts!DisableSet, Hosts!EnableLoad, Hosts!EnableSet
<1>2. \A q \in Requests :
        /\ allowed'[q] /\ hostTimer'[q] \in {"off", "grace"}
        /\ hostPc'[q] \notin {"new", "miss"} => entry' # NoHost
  <2> USE DEF Fresh, Hosts!TypeOK
  <2>1. CASE Hosts!GetHostLoad(r)
    BY <2>1 DEF Hosts!GetHostLoad, Hosts!Goto, Hosts!hostVars, Hosts!timerVars
  <2>2. CASE Hosts!GetHostStore(r)
    BY <2>2, Zenon DEF Hosts!GetHostStore, Hosts!Goto
  <2>3. CASE Hosts!CheckTraffic(r)
    BY <2>3, Zenon DEF Hosts!CheckTraffic, Hosts!Goto, Hosts!hostVars, Hosts!timerVars
  <2>4. CASE Hosts!ProxyEnds(r)
    BY <2>4, Zenon DEF Hosts!ProxyEnds, Hosts!Goto, Hosts!hostVars, Hosts!timerVars
  <2>5. CASE Hosts!ScheduleLoad(r)
    BY <2>5, Zenon DEF Hosts!ScheduleLoad, Hosts!Goto, Hosts!hostVars, Hosts!timerVars
  <2>6. CASE Hosts!ScheduleSet(r)
    BY <2>6, Zenon DEF Hosts!ScheduleSet, Hosts!Goto, Hosts!timerVars
  <2>7. CASE Hosts!ScheduleStore(r)
    BY <2>7 DEF Hosts!ScheduleStore, Hosts!Goto, Hosts!TimerGoto
  <2> QED
    BY <1>1, <2>1, <2>2, <2>3, <2>4, <2>5, <2>6, <2>7, Zenon DEF Hosts!RequestStep
<1>3. CASE ripe' = {}
  BY <1>2, <1>3, Zenon DEF Fresh
<1>4. CASE ripe' # {}
  <2>1. ~(Hosts!Busy')
    BY <1>4, Zenon DEF Fresh, Hosts!Ripen
  <2>2. \A q \in Requests :
          /\ hostPc'[q] \notin {"miss", "schedSet", "schedStore"}
          /\ hostTimer'[q] \notin {"clear", "disable", "disableSet", "enableSet"}
    BY <2>1, Zenon DEF Hosts!Busy, Hosts!BusyPC, Hosts!BusyTimer
  <2>3. PICK t \in Requests : hostTimer'[t] \in {"grace", "pause"}
    BY <1>4, Zenon DEF Hosts!TypeOK, Hosts!Armed
  <2>4. entry' # NoHost
    BY <1>2, <2>3 DEF OneStart
  <2>5. Hosts!OffHasTimer'
    BY <1>2, Zenon DEF Hosts!OffHasTimer, Hosts!Off, Hosts!TypeOK
  <2> QED
    BY <2>2, <2>4, <2>5, Zenon DEF Fixed
<1> QED
  BY <1>3, <1>4, Zenon

(* From then on every store writes back the Host that is there, and who    *)
(* switches its traffic off starts the timer that switches it on.          *)
LEMMA FixedStep ==
  ASSUME Hosts!TypeOK, OneStart, Fixed, NEW r \in Requests,
         Hosts!RequestStep(r) \/ Hosts!TimerStep(r)
  PROVE  Fixed'
<1> USE DEF Fixed, OneStart, Hosts!TypeOK, Hosts!OffHasTimer, Hosts!Off
<1>1. CASE Hosts!RequestStep(r)
  <2>1. CASE Hosts!GetHostLoad(r)
    BY <2>1, Zenon DEF Hosts!GetHostLoad, Hosts!Goto, Hosts!hostVars, Hosts!timerVars
  <2>2. CASE Hosts!GetHostStore(r)
    BY <2>2, Zenon DEF Hosts!GetHostStore, Hosts!Goto
  <2>3. CASE Hosts!CheckTraffic(r)
    BY <2>3 DEF Hosts!CheckTraffic, Hosts!Goto, Hosts!hostVars, Hosts!timerVars
  <2>4. CASE Hosts!ProxyEnds(r)
    BY <2>4, Zenon DEF Hosts!ProxyEnds, Hosts!Goto, Hosts!hostVars, Hosts!timerVars
  <2>5. CASE Hosts!ScheduleLoad(r)
    BY <2>5, Zenon DEF Hosts!ScheduleLoad, Hosts!Goto, Hosts!hostVars, Hosts!timerVars
  <2>6. CASE Hosts!ScheduleSet(r)
    BY <2>6, Zenon DEF Hosts!ScheduleSet, Hosts!Goto, Hosts!timerVars
  <2>7. CASE Hosts!ScheduleStore(r)
    BY <2>7 DEF Hosts!ScheduleStore, Hosts!Goto, Hosts!TimerGoto
  <2> QED
    BY <1>1, <2>1, <2>2, <2>3, <2>4, <2>5, <2>6, <2>7, Zenon DEF Hosts!RequestStep
<1>2. CASE Hosts!GraceFires(r)
  BY <1>2, Zenon DEF Hosts!GraceFires, Hosts!TimerGoto
<1>3. CASE Hosts!ClearStore(r)
  BY <1>3 DEF Hosts!ClearStore, Hosts!TimerGoto
<1>4. CASE Hosts!DisableLoad(r)
  BY <1>4, Zenon DEF Hosts!DisableLoad, Hosts!TimerGoto, Hosts!hostVars
<1>5. CASE Hosts!DisableSet(r)
  BY <1>5 DEF Hosts!DisableSet, Hosts!TimerGoto
<1>6. CASE Hosts!EnableLoad(r)
  BY <1>6, Zenon DEF Hosts!EnableLoad, Hosts!TimerGoto, Hosts!hostVars
<1>7. CASE Hosts!EnableSet(r)
  BY <1>7 DEF Hosts!EnableSet, Hosts!TimerGoto
<1> QED
  BY <1>1, <1>2, <1>3, <1>4, <1>5, <1>6, <1>7, Zenon DEF Hosts!TimerStep

(* A host whose traffic is off has a timer under way that switches it on,  *)
(* for any number of requests and timers: no interleaving of cache misses, *)
(* ScheduleDisableTrafficForHost and the two kinds of timers leaves a host *)
(* refusing requests for good.                                             *)
THEOREM HostsOffHasTimer ==
  ASSUME NoHost \notin Requests
  PROVE  Hosts!Spec => []Hosts!OffHasTimer
<1>1. HostInv /\ [Hosts!Next]_(Hosts!vars) => HostInv'
  <2> SUFFICES ASSUME HostInv, [Hosts!Next]_(Hosts!vars) PROVE HostInv'
    BY Zenon
  <2>1. CASE UNCHANGED Hosts!vars
    BY <2>1, Zenon DEF Hosts!vars, HostInv, OneStart, Fresh, Fixed, Hosts!OffHasTimer, Hosts!Off,
       Hosts!TypeOK, Hosts!Armed
  <2>2. CASE Hosts!Next
    BY <2>2, HostTypes, FreshStep, FixedStep, Zenon DEF Hosts!Next, HostInv
  <2> QED
    BY <2>1, <2>2, Zenon
<1>2. HostInv => Hosts!OffHasTimer
  BY Zenon DEF HostInv, Fresh, Fixed, Hosts!OffHasTimer, Hosts!Off, Hosts!TypeOK
<1> QED
  BY <1>1, <1>2, HostInvInit, PTL DEF Hosts!Spec
=============================================================================
