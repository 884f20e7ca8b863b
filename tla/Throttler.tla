----------------------------- MODULE Throttler -----------------------------
(***************************************************************************)
(* The throttler of the resolver (resolver/internal/throttler/throttler.go)*)
(* and the part of handleAnyRequest that calls it: Try repeats an attempt  *)
(* inside the breaker until the target service is ready, the request was   *)
(* proxied or its deadline has passed.                                     *)
(*                                                                         *)
(* One breaker serves all services.  It is the breaker of module Breaker,  *)
(* taken as a pair of counters with atomic operations; that a slot may not *)
(* be given back when calls race (see Breaker) is kept as a choice.        *)
(***************************************************************************)
EXTENDS Integers

CONSTANTS
  Requests,       \* the requests
  Services,       \* the services they are for
  Service(_),     \* the service a request is for
  TotalSlots,     \* attempts the breaker admits
  Capacity        \* attempts that run at a time

ASSUME ThrottlerAssumption ==
  /\ TotalSlots \in Nat /\ Capacity \in 1..TotalSlots
  /\ \A r \in Requests : Service(r) \in Services

VARIABLES
  tryPc,          \* where each request is
  size,           \* the queue size each request has loaded, 0 after its use
  tryErr,         \* the error of the last attempt, "none" if it has none
  reenqueue,      \* there will be another attempt
  expired,        \* the context's deadline has passed
  proxied,        \* how often each request was passed to the target
  answer,         \* what Try returned: an error, "none" for nil
  admitted,       \* breaker: attempts in flight
  running,        \* breaker: attempts inside the semaphore
  queueSizeMap,   \* service -> queue size
  serviceReadyMap,\* services known to be ready
  readyTimers,    \* service -> pending timers that delete it from there
  active          \* services with an active endpoint (Kubernetes)

throttlerVars ==
  <<tryPc, size, tryErr, reenqueue, expired, proxied, answer, admitted, running,
    queueSizeMap, serviceReadyMap, readyTimers, active>>
breakerVars == <<admitted, running>>
readyVars == <<serviceReadyMap, readyTimers>>
tryVars == <<tryErr, reenqueue, proxied>>

TryGoto(r, l) == tryPc' = [tryPc EXCEPT ![r] = l]
Set(f, r, v) == [f EXCEPT ![r] = v]

(* releaseInFlightSlot: its compare-and-swap may fail and is not repeated. *)
GiveSlotBack == admitted' \in {admitted - 1, admitted}

ThrottlerInit ==
  /\ tryPc = [r \in Requests |-> "new"]
  /\ size = [r \in Requests |-> 0]
  /\ tryErr = [r \in Requests |-> "none"]
  /\ reenqueue = [r \in Requests |-> TRUE]
  /\ expired = [r \in Requests |-> FALSE]
  /\ proxied = [r \in Requests |-> 0]
  /\ answer = [r \in Requests |-> "pending"]
  /\ admitted = 0
  /\ running = 0
  /\ queueSizeMap = [s \in Services |-> 0]
  /\ serviceReadyMap = {}
  /\ readyTimers = [s \in Services |-> 0]
  /\ active \in SUBSET Services

-----------------------------------------------------------------------------
(* incrementQueueSize and decrementQueueSize load the size and store the   *)
(* sum: two steps.                                                         *)
LoadSize(r, from, to) ==
  /\ tryPc[r] = from
  /\ size' = Set(size, r, queueSizeMap[Service(r)])
  /\ TryGoto(r, to)
  /\ UNCHANGED <<tryVars, expired, answer, breakerVars, queueSizeMap, readyVars, active>>

StoreSize(r, from, to, d) ==
  /\ tryPc[r] = from
  /\ queueSizeMap' = Set(queueSizeMap, Service(r), size[r] + d)
  /\ size' = Set(size, r, 0)
  /\ TryGoto(r, to)
  /\ UNCHANGED <<tryVars, expired, answer, breakerVars, readyVars, active>>

Arrive(r) == LoadSize(r, "new", "increment")
Increment(r) == StoreSize(r, "increment", "try", 1)
Leave(r) == LoadSize(r, "leave", "decrement")
Decrement(r) == StoreSize(r, "decrement", "done", -1)

(* Mutant: the error of the last attempt is kept. *)
AttemptKeepsError(r) ==
  /\ tryPc[r] = "try"
  /\ IF admitted < TotalSlots
     THEN /\ admitted' = admitted + 1
          /\ TryGoto(r, "acquire")
          /\ UNCHANGED answer
     ELSE /\ answer' = Set(answer, r, "queueFull")
          /\ TryGoto(r, "leave")
          /\ UNCHANGED admitted
  /\ UNCHANGED <<size, tryVars, expired, running, queueSizeMap, readyVars, active>>

(* An attempt begins: the error is reset and the breaker admits the        *)
(* request, or Try returns the breaker's error.                            *)
Attempt(r) ==
  /\ tryPc[r] = "try"
  /\ tryErr' = Set(tryErr, r, "none")
  /\ IF admitted < TotalSlots
     THEN /\ admitted' = admitted + 1
          /\ TryGoto(r, "acquire")
          /\ UNCHANGED answer
     ELSE /\ answer' = Set(answer, r, "queueFull")
          /\ TryGoto(r, "leave")
          /\ UNCHANGED admitted
  /\ UNCHANGED <<size, reenqueue, proxied, expired, running, queueSizeMap,
                 readyVars, active>>

(* The semaphore is taken and the attempt runs. *)
Acquire(r) ==
  /\ tryPc[r] = "acquire"
  /\ running < Capacity
  /\ running' = running + 1
  /\ TryGoto(r, "check")
  /\ UNCHANGED <<size, tryVars, expired, answer, admitted, queueSizeMap,
                 readyVars, active>>

(* The deadline passes while the request waits for the semaphore. *)
AcquireTimeout(r) ==
  /\ tryPc[r] = "acquire"
  /\ expired[r]
  /\ GiveSlotBack
  /\ answer' = Set(answer, r, "deadline")
  /\ TryGoto(r, "leave")
  /\ UNCHANGED <<size, tryVars, expired, running, queueSizeMap, readyVars, active>>

(* checkIfServiceReady: a service in the map is ready. *)
Check(r) ==
  /\ tryPc[r] = "check"
  /\ TryGoto(r, IF Service(r) \in serviceReadyMap THEN "resolve" ELSE "list")
  /\ UNCHANGED <<size, tryVars, expired, answer, breakerVars, queueSizeMap,
                 readyVars, active>>

(* Otherwise the endpoint slices are listed, which may fail (~ok).  An     *)
(* active endpoint enters the service in the map for the re-enable         *)
(* duration; otherwise the attempt ends with an error, and the operator is *)
(* told about the request.                                                 *)
List(r) ==
  LET s == Service(r) IN
  /\ tryPc[r] = "list"
  /\ \E ok \in BOOLEAN :
       IF ok /\ s \in active
       THEN /\ TryGoto(r, "resolve")
            /\ serviceReadyMap' = serviceReadyMap \cup {s}
            /\ readyTimers' = Set(readyTimers, s, readyTimers[s] + 1)
            /\ UNCHANGED tryErr
       ELSE /\ TryGoto(r, "select")
            /\ tryErr' = Set(tryErr, r, "notReady")
            /\ UNCHANGED readyVars
  /\ UNCHANGED <<size, reenqueue, proxied, expired, answer, breakerVars,
                 queueSizeMap, active>>

(* Mutant: a request that could not be proxied is tried again. *)
ResolveAgain(r) ==
  /\ tryPc[r] = "resolve"
  /\ \E failed \in BOOLEAN :
       /\ tryErr' = Set(tryErr, r, IF failed THEN "resolve" ELSE tryErr[r])
       /\ reenqueue' = Set(reenqueue, r, failed)
  /\ proxied' = Set(proxied, r, proxied[r] + 1)
  /\ TryGoto(r, "select")
  /\ UNCHANGED <<size, expired, answer, breakerVars, queueSizeMap, readyVars, active>>

(* The resolve callback passes the request to the target.  ProxyRequest    *)
(* fails only when the target's URL does not parse or the proxy panics.    *)
Resolve(r) ==
  /\ tryPc[r] = "resolve"
  /\ \E failed \in BOOLEAN :
       tryErr' = Set(tryErr, r, IF failed THEN "resolve" ELSE tryErr[r])
  /\ reenqueue' = Set(reenqueue, r, FALSE)
  /\ proxied' = Set(proxied, r, proxied[r] + 1)
  /\ TryGoto(r, "select")
  /\ UNCHANGED <<size, expired, answer, breakerVars, queueSizeMap, readyVars, active>>

(* Mutant: the deadline is not looked at. *)
SelectNoDeadline(r) ==
  /\ tryPc[r] = "select"
  /\ TryGoto(r, IF reenqueue[r] THEN "sleep" ELSE "release")
  /\ UNCHANGED <<size, tryVars, expired, answer, breakerVars, queueSizeMap,
                 readyVars, active>>

(* select: a passed deadline ends Try, whatever the attempt did; otherwise *)
(* a request to be tried again sleeps, keeping its place in the breaker.   *)
Select(r) ==
  /\ tryPc[r] = "select"
  /\ IF expired[r]
     THEN /\ tryErr' = Set(tryErr, r, "deadline")
          /\ reenqueue' = Set(reenqueue, r, FALSE)
          /\ TryGoto(r, "release")
     ELSE /\ TryGoto(r, IF reenqueue[r] THEN "sleep" ELSE "release")
          /\ UNCHANGED <<tryErr, reenqueue>>
  /\ UNCHANGED <<size, proxied, expired, answer, breakerVars, queueSizeMap,
                 readyVars, active>>

Wake(r) ==
  /\ tryPc[r] = "sleep"
  /\ TryGoto(r, "release")
  /\ UNCHANGED <<size, tryVars, expired, answer, breakerVars, queueSizeMap,
                 readyVars, active>>

(* The attempt leaves the breaker; Try goes round again or returns.        *)
Release(r) ==
  /\ tryPc[r] = "release"
  /\ running' = running - 1
  /\ GiveSlotBack
  /\ IF reenqueue[r]
     THEN TryGoto(r, "try") /\ UNCHANGED answer
     ELSE TryGoto(r, "leave") /\ answer' = Set(answer, r, tryErr[r])
  /\ UNCHANGED <<size, tryVars, expired, queueSizeMap, readyVars, active>>

TryStep(r) ==
  \/ Arrive(r) \/ Increment(r) \/ Attempt(r) \/ Acquire(r) \/ AcquireTimeout(r)
  \/ Check(r) \/ List(r) \/ Resolve(r) \/ Select(r) \/ Wake(r) \/ Release(r)
  \/ Leave(r) \/ Decrement(r)

-----------------------------------------------------------------------------
(* The deadline of a request that is in Try passes. *)
Expire(r) ==
  /\ answer[r] = "pending" /\ tryPc[r] # "new" /\ ~expired[r]
  /\ expired' = Set(expired, r, TRUE)
  /\ UNCHANGED <<tryPc, size, tryVars, answer, breakerVars, queueSizeMap, readyVars, active>>

(* A timer of checkIfServiceReady deletes the service from the map. *)
ForgetReady(s) ==
  /\ readyTimers[s] > 0
  /\ readyTimers' = Set(readyTimers, s, readyTimers[s] - 1)
  /\ serviceReadyMap' = serviceReadyMap \ {s}
  /\ UNCHANGED <<tryPc, size, tryVars, expired, answer, breakerVars, queueSizeMap, active>>

(* The pods of a service come up or go away. *)
Toggle(s) ==
  /\ active' = IF s \in active THEN active \ {s} ELSE active \cup {s}
  /\ UNCHANGED <<tryPc, size, tryVars, expired, answer, breakerVars, queueSizeMap, readyVars>>

ThrottlerNext ==
  \/ \E r \in Requests : TryStep(r) \/ Expire(r)
  \/ \E s \in Services : ForgetReady(s) \/ Toggle(s)

ThrottlerSpec == ThrottlerInit /\ [][ThrottlerNext]_throttlerVars

(* Goroutines run, sleeps, proxied requests and deadlines end, timers      *)
(* fire.  Waiting for the semaphore is only fair in the weak sense.        *)
ThrottlerFairness ==
  /\ \A r \in Requests :
       WF_throttlerVars(TryStep(r) /\ tryPc[r] # "new") /\ WF_throttlerVars(Expire(r))
  /\ \A s \in Services : WF_throttlerVars(ForgetReady(s))

ThrottlerFairSpec == ThrottlerSpec /\ ThrottlerFairness

-----------------------------------------------------------------------------
Errors == {"none", "notReady", "resolve", "deadline"}

(* The types; the breaker is within its slots and its capacity. *)
ThrottlerTypeOK ==
  /\ tryPc \in [Requests -> {"new", "increment", "try", "acquire", "check", "list", "resolve",
                             "select", "sleep", "release", "leave", "decrement", "done"}]
  /\ size \in [Requests -> Int]
  /\ tryErr \in [Requests -> Errors]
  /\ reenqueue \in [Requests -> BOOLEAN]
  /\ expired \in [Requests -> BOOLEAN]
  /\ proxied \in [Requests -> Nat]
  /\ answer \in [Requests -> Errors \cup {"pending", "queueFull"}]
  /\ admitted \in 0..TotalSlots
  /\ running \in 0..Capacity
  /\ queueSizeMap \in [Services -> Int]
  /\ serviceReadyMap \subseteq Services
  /\ readyTimers \in [Services -> Nat]
  /\ active \subseteq Services

(* "We don't reenqueue if the POD is active, but request failed to         *)
(* resolve": the target sees a request at most once, however often it was  *)
(* tried.                                                                  *)
ProxiedOnce == \A r \in Requests : proxied[r] <= 1

(* Try reports what happened: it returns nil only for a request that was   *)
(* proxied; a deadline error only when the deadline has passed; and never  *)
(* the error of an earlier attempt, such as "notReady", because Try goes  *)
(* on until the service is ready or the deadline has passed.               *)
AnswerIsTrue ==
  \A r \in Requests :
    /\ answer[r] \in {"none", "resolve"} => proxied[r] = 1
    /\ answer[r] = "deadline" => expired[r]
    /\ answer[r] # "notReady"

(* A service is known to be ready no longer than a timer runs.             *)
ReadyExpires == \A s \in serviceReadyMap : readyTimers[s] > 0

(* Every request that enters Try is answered, although requests for a      *)
(* service that is not ready keep their place in the breaker while they    *)
(* sleep.                                                                  *)
EveryRequestAnswered ==
  \A r \in Requests : tryPc[r] = "increment" ~> tryPc[r] = "done"
=============================================================================
