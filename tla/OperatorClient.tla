--------------------------- MODULE OperatorClient ---------------------------
(***************************************************************************)
(* SendIncomingRequestInfo of the resolver's operator client               *)
(* (resolver/internal/operator/RPCClient.go): tells the operator that a    *)
(* service has traffic, at most once per service and retry duration.       *)
(*                                                                         *)
(* serviceRPCLocks maps a service to a mutex.  The call that stores the    *)
(* mutex sends; a call that finds one is dropped.  When the sender returns *)
(* it starts a timer that unlocks the mutex and deletes it from the map.   *)
(* A call stores at most one mutex, so mutexes are named after calls.      *)
(***************************************************************************)
EXTENDS Naturals

CONSTANTS
  Calls,           \* the calls of SendIncomingRequestInfo
  Namespace(_),    \* the namespace a call is about
  Svc(_),          \* the service a call is about
  Services,        \* the service names
  NoMutex          \* no entry in serviceRPCLocks

ASSUME CallAssumption ==
  NoMutex \notin Calls /\ \A c \in Calls : Svc(c) \in Services

VARIABLES
  serviceRPCLocks, \* service -> mutex or NoMutex
  locked,          \* the mutexes that are locked
  pc,              \* where each call is
  timer,           \* where the timer of each call is
  panicked,        \* a mutex was unlocked that was not locked
  by               \* history: the call whose mutex each call stored or found

vars == <<serviceRPCLocks, locked, pc, timer, panicked, by>>

(* Between "send" and its end a call has been answered with 200 ("sent",   *)
(* then "told") or not ("failed", then "untold").                          *)
PCs == {"new", "lock", "send", "sent", "failed", "told", "untold", "dropped"}

Init ==
  /\ serviceRPCLocks = [s \in Services |-> NoMutex]
  /\ locked = {}
  /\ pc = [c \in Calls |-> "new"]
  /\ timer = [c \in Calls |-> "off"]
  /\ panicked = FALSE
  /\ by = [c \in Calls |-> NoMutex]

Goto(c, l) == pc' = [pc EXCEPT ![c] = l]
TimerGoto(c, l) == timer' = [timer EXCEPT ![c] = l]

-----------------------------------------------------------------------------
(* Mutant: the mutex of the service is stored even when there is one. *)
GetMutexStore(c) ==
  /\ pc[c] = "new"
  /\ serviceRPCLocks' = [serviceRPCLocks EXCEPT ![Svc(c)] = c]
  /\ Goto(c, "lock")
  /\ by' = [by EXCEPT ![c] = c]
  /\ UNCHANGED <<locked, timer, panicked>>

(* getMutexForServiceRPC: LoadOrStore; a call that finds a mutex returns.  *)
GetMutex(c) ==
  /\ pc[c] = "new"
  /\ IF serviceRPCLocks[Svc(c)] = NoMutex
     THEN /\ serviceRPCLocks' = [serviceRPCLocks EXCEPT ![Svc(c)] = c]
          /\ Goto(c, "lock")
          /\ by' = [by EXCEPT ![c] = c]
     ELSE /\ Goto(c, "dropped")
          /\ by' = [by EXCEPT ![c] = serviceRPCLocks[Svc(c)]]
          /\ UNCHANGED serviceRPCLocks
  /\ UNCHANGED <<locked, timer, panicked>>

(* lock.Lock() *)
Lock(c) ==
  /\ pc[c] = "lock"
  /\ c \notin locked
  /\ locked' = locked \cup {c}
  /\ Goto(c, "send")
  /\ UNCHANGED <<serviceRPCLocks, timer, panicked, by>>

(* The POST to the operator: an answer with status 200, or an error on the *)
(* way, or another status from the operator.                               *)
Send(c) ==
  /\ pc[c] = "send"
  /\ Goto(c, "sent") \/ Goto(c, "failed")
  /\ UNCHANGED <<serviceRPCLocks, locked, timer, panicked, by>>

(* Where a call ends. *)
End(c) == IF pc[c] = "sent" THEN "told" ELSE "untold"

(* Mutant: only a call that was answered with 200 starts the timer. *)
ReturnOnError(c) ==
  /\ pc[c] \in {"sent", "failed"}
  /\ Goto(c, End(c))
  /\ TimerGoto(c, IF pc[c] = "sent" THEN "armed" ELSE "off")
  /\ UNCHANGED <<serviceRPCLocks, locked, panicked, by>>

(* The deferred time.AfterFunc(retryDuration, ...), on every return. *)
Return(c) ==
  /\ pc[c] \in {"sent", "failed"}
  /\ Goto(c, End(c))
  /\ TimerGoto(c, "armed")
  /\ UNCHANGED <<serviceRPCLocks, locked, panicked, by>>

(* releaseMutexForServiceRPC loads the mutex and unlocks it; unlocking a   *)
(* mutex that is not locked is fatal.                                      *)
ReleaseUnlock(c) ==
  /\ timer[c] = "armed"
  /\ LET m == serviceRPCLocks[Svc(c)] IN
     IF m = NoMutex
     THEN TimerGoto(c, "off") /\ UNCHANGED <<locked, panicked>>
     ELSE /\ locked' = locked \ {m}
          /\ panicked' = (panicked \/ m \notin locked)
          /\ TimerGoto(c, "delete")
  /\ UNCHANGED <<serviceRPCLocks, pc, by>>

(* ...and deletes it. *)
ReleaseDelete(c) ==
  /\ timer[c] = "delete"
  /\ serviceRPCLocks' = [serviceRPCLocks EXCEPT ![Svc(c)] = NoMutex]
  /\ TimerGoto(c, "off")
  /\ UNCHANGED <<locked, pc, panicked, by>>

Step(c) ==
  \/ GetMutex(c) \/ Lock(c) \/ Send(c) \/ Return(c)
  \/ ReleaseUnlock(c) \/ ReleaseDelete(c)

Next == \E c \in Calls : Step(c)

Spec == Init /\ [][Next]_vars

(* A call that has begun proceeds, the operator answers or the connection  *)
(* breaks, and timers fire.                                                *)
Fairness == \A c \in Calls : WF_vars(Step(c) /\ pc[c] # "new")

FairSpec == Spec /\ Fairness

-----------------------------------------------------------------------------
(* The types of the lock map, the mutexes and the timers. *)
TypeOK ==
  /\ serviceRPCLocks \in [Services -> Calls \cup {NoMutex}]
  /\ locked \subseteq Calls
  /\ pc \in [Calls -> PCs]
  /\ timer \in [Calls -> {"off", "armed", "delete"}]
  /\ panicked \in BOOLEAN
  /\ by \in [Calls -> Calls \cup {NoMutex}]

(* The operator is told about a service by one call at a time, and not     *)
(* again until the retry duration after that call returned has passed.     *)
OneSender ==
  \A c, d \in Calls :
    /\ pc[c] \in {"lock", "send", "sent", "failed"}
    /\ pc[d] \in {"lock", "send", "sent", "failed"} \/ timer[d] = "armed"
    /\ Svc(c) = Svc(d)
    => c = d

(* A timer unlocks the mutex its own call locked: it never unlocks one     *)
(* that is not locked, and never one that another call holds.              *)
ReleasesOwnMutex ==
  /\ ~panicked
  /\ \A c \in Calls :
       /\ timer[c] = "armed" => serviceRPCLocks[Svc(c)] = c /\ c \in locked
       /\ timer[c] = "delete" => serviceRPCLocks[Svc(c)] = c

(* "OperatorRetryDuration is the duration for which we don't inform the    *)
(* operator about the traffic on the same host": a call is dropped only    *)
(* for another call about the same service of the same namespace.          *)
DroppedForSameHost ==
  [][\A c \in Calls :
       pc[c] = "new" /\ pc'[c] = "dropped"
         => Namespace(serviceRPCLocks[Svc(c)]) = Namespace(c)]_vars

(* What becomes of a call.  It, or the call for which it was dropped       *)
(* because its retry duration had not passed, is answered with 200; or     *)
(* that one has failed and its mutex is gone, so that the next call sends; *)
(* or that one is about a service of the same name in another namespace.   *)
Settled(c) ==
  LET d == by[c] IN
  /\ d # NoMutex
  /\ \/ pc[d] \in {"sent", "told"}
     \/ pc[d] = "untold" /\ serviceRPCLocks[Svc(d)] # d
     \/ Namespace(d) # Namespace(c)

(* The operator can be told again: a mutex does not stay in the map.       *)
MutexDeleted ==
  \A s \in Services :
    serviceRPCLocks[s] # NoMutex ~> serviceRPCLocks[s] = NoMutex
=============================================================================
