------------------------------- MODULE CRDCache -------------------------------
(***************************************************************************)
(* How the specification of an ElastiService reaches the resolver: the     *)
(* reconcilers of the operator copy it into the CRD directory, the server  *)
(* of the operator lists the directory, and the poller of the resolver     *)
(* replaces its copy by what the server answers.                           *)
(*                                                                         *)
(* Two goroutines of the operator reconcile: the worker of the controller  *)
(* ("worker") and, after a start, Initialize ("init").  Both read the      *)
(* ElastiService from the manager's cache, which may be behind.  A version *)
(* stands for a spec; every change of a spec takes the next number.  No    *)
(* two ElastiServices ever name the same service.                          *)
(***************************************************************************)
EXTENDS Integers, FiniteSets

CONSTANTS
    Objects,      \* the ElastiServices
    Names,        \* the services each of them may name
    MaxVersion,   \* bound on the changes users make
    MaxFaults,    \* bound on calls that fail
    MaxRestarts   \* bound on restarts of operator and resolver

ASSUME CRDCacheAssumption ==
    /\ \A o \in Objects : Names[o] # {}
    /\ \A o, p \in Objects : o # p => Names[o] \cap Names[p] = {}
    /\ MaxVersion \in Nat /\ MaxFaults \in Nat /\ MaxRestarts \in Nat

Services == UNION {Names[o] : o \in Objects}
Threads == {"worker", "init"}
Nobody == "nobody"
Versions == 0 .. MaxVersion      \* 0: no entry

VARIABLES
    crd,          \* the ElastiServices at the API server
    seen,         \* the manager's cache of them
    queued,       \* the controller's work queue
    existing,     \* what Initialize still has to reconcile
    lock,         \* ReconcileLocks
    pc, obj, got, \* of the goroutines that reconcile
    directory,    \* CRDDirectory.Services: the version stored for a service
    fetch,        \* where the poller's fetch is
    left,         \* services the current loop of the fetch has not visited
    body,         \* the answer of the operator
    newCache,     \* the copy fetch is filling
    cache,        \* Cache.cache
    kept,         \* services in the directory ever since the last swap
    moved,        \* services an ElastiService named and no longer names
    version, faults, restarts

operator == <<queued, existing, lock, pc, obj, got>>
resolver == <<fetch, left, body, newCache, cache>>
vars == <<crd, seen, operator, directory, resolver, kept, moved, version, faults, restarts>>

Empty == [k \in Services |-> 0]

\* An ElastiService: its state, whether it has the finalizer, its service
\* and the version of its spec.
CRDs == [state : {"gone", "live", "deleting"}, finalizer : BOOLEAN,
         service : Services, version : Versions]

Absent(o) == [state |-> "gone", finalizer |-> FALSE,
              service |-> CHOOSE k \in Names[o] : TRUE, version |-> 0]

Init ==
    /\ crd = [o \in Objects |-> Absent(o)]
    /\ seen = crd
    /\ queued = {} /\ existing = {}
    /\ lock = [o \in Objects |-> Nobody]
    /\ pc = [w \in Threads |-> "idle"]
    /\ obj \in [Threads -> Objects]
    /\ \A w \in Threads : obj[w] = CHOOSE o \in Objects : TRUE
    /\ got = [w \in Threads |-> crd[obj[w]]]
    /\ directory = Empty
    /\ fetch = "idle" /\ left = {} /\ body = Empty /\ newCache = Empty /\ cache = Empty
    /\ kept = {} /\ moved = {}
    /\ version = 0 /\ faults = MaxFaults /\ restarts = MaxRestarts

-----------------------------------------------------------------------------
(* Users, and the manager's cache.                                         *)

\* A user creates an ElastiService, or changes its spec: the rules of the
\* probe responses, or the service it names.
Edit(o) ==
    /\ version < MaxVersion
    /\ crd[o].state # "deleting"
    /\ version' = version + 1
    /\ \E k \in Names[o] :
        /\ crd' = [crd EXCEPT ![o].state = "live", ![o].service = k, ![o].version = version + 1]
        /\ moved' = IF crd[o].state = "live" /\ k # crd[o].service
                    THEN moved \cup {crd[o].service} ELSE moved
    /\ UNCHANGED <<seen, operator, directory, resolver, kept, faults, restarts>>

\* A user deletes it; without the finalizer it is gone at once.
Delete(o) ==
    /\ crd[o].state = "live"
    /\ crd' = [crd EXCEPT ![o].state = IF crd[o].finalizer THEN "deleting" ELSE "gone"]
    /\ UNCHANGED <<seen, operator, directory, resolver, kept, moved, version, faults, restarts>>

\* The manager's cache catches up, and the controller queues a Reconcile.
Sync(o) ==
    /\ seen[o] # crd[o]
    /\ seen' = [seen EXCEPT ![o] = crd[o]]
    /\ queued' = queued \cup {o}
    /\ UNCHANGED <<crd, existing, lock, pc, obj, got, directory, resolver, kept, moved,
                   version, faults, restarts>>

-----------------------------------------------------------------------------
(* Reconcile, by the worker and by Initialize.                             *)

\* The worker takes a request from the queue; reconcileExistingCRDs takes the
\* next ElastiService of its list.
Take(w) ==
    /\ pc[w] = "idle"
    /\ \E o \in IF w = "worker" THEN queued ELSE existing :
        /\ obj' = [obj EXCEPT ![w] = o]
        /\ queued' = IF w = "worker" THEN queued \ {o} ELSE queued
        /\ existing' = IF w = "init" THEN existing \ {o} ELSE existing
    /\ pc' = [pc EXCEPT ![w] = "lock"]
    /\ UNCHANGED <<crd, seen, lock, got, directory, resolver, kept, moved, version, faults, restarts>>

\* Mutant: Reconcile without its mutex.
LockGetUnlocked(w) ==
    /\ pc[w] = "lock"
    /\ got' = [got EXCEPT ![w] = seen[obj[w]]]
    /\ pc' = [pc EXCEPT ![w] = CASE got'[w].state = "live" -> "addFinalizer"
                                 [] got'[w].state = "deleting" -> "finalize"
                                 [] got'[w].state = "gone" -> "return"]
    /\ UNCHANGED <<crd, seen, queued, existing, lock, obj, directory, resolver, kept, moved,
                   version, faults, restarts>>

\* Reconcile locks the mutex of the ElastiService and reads it.
LockGet(w) ==
    /\ pc[w] = "lock"
    /\ lock[obj[w]] = Nobody
    /\ lock' = [lock EXCEPT ![obj[w]] = w]
    /\ got' = [got EXCEPT ![w] = seen[obj[w]]]
    /\ pc' = [pc EXCEPT ![w] = CASE got'[w].state = "live" -> "addFinalizer"
                                 [] got'[w].state = "deleting" -> "finalize"
                                 [] got'[w].state = "gone" -> "return"]
    /\ UNCHANGED <<crd, seen, queued, existing, obj, directory, resolver, kept, moved,
                   version, faults, restarts>>

\* Mutant: the error of a Reconcile is dropped.
ReturnDropsError(w, failed) ==
    /\ pc' = [pc EXCEPT ![w] = "idle"]
    /\ lock' = [lock EXCEPT ![obj[w]] = Nobody]
    /\ got' = [got EXCEPT ![w] = Absent(obj[w])]
    /\ UNCHANGED queued

\* Reconcile returns: the mutex is unlocked.  The controller queues the
\* request again when it failed; Initialize goes on to the next.
Return(w, failed) ==
    /\ pc' = [pc EXCEPT ![w] = "idle"]
    /\ lock' = [lock EXCEPT ![obj[w]] = Nobody]
    /\ got' = [got EXCEPT ![w] = Absent(obj[w])]
    /\ queued' = IF failed /\ w = "worker" THEN queued \cup {obj[w]} ELSE queued

NotFound(w) ==
    /\ pc[w] = "return"
    /\ Return(w, FALSE)
    /\ UNCHANGED <<crd, seen, existing, obj, directory, resolver, kept, moved,
                   version, faults, restarts>>

\* An Update is refused when the ElastiService is no longer what was read.
Current(w) == crd[obj[w]] = got[w]

\* addCRDFinalizer.
AddFinalizer(w) ==
    /\ pc[w] = "addFinalizer"
    /\ \/ /\ got[w].finalizer
          /\ pc' = [pc EXCEPT ![w] = "watch"]
          /\ UNCHANGED <<crd, got, lock, queued>>
       \/ /\ ~got[w].finalizer /\ Current(w)
          /\ crd' = [crd EXCEPT ![obj[w]].finalizer = TRUE]
          /\ got' = [got EXCEPT ![w].finalizer = TRUE]
          /\ pc' = [pc EXCEPT ![w] = "watch"]
          /\ UNCHANGED <<lock, queued>>
       \/ /\ ~got[w].finalizer /\ ~Current(w)
          /\ Return(w, TRUE)
          /\ UNCHANGED crd
    /\ UNCHANGED <<seen, existing, obj, directory, resolver, kept, moved, version, faults, restarts>>

\* watchScaleTargetRef fails, and Reconcile returns before AddCRD.
WatchFails(w) ==
    /\ pc[w] = "watch" /\ faults > 0
    /\ faults' = faults - 1
    /\ Return(w, TRUE)
    /\ UNCHANGED <<crd, seen, existing, obj, directory, resolver, kept, moved, version, restarts>>

\* AddCRD, the last step of Reconcile.
AddCRD(w) ==
    /\ pc[w] = "watch"
    /\ directory' = [directory EXCEPT ![got[w].service] = got[w].version]
    /\ Return(w, FALSE)
    /\ UNCHANGED <<crd, seen, existing, obj, resolver, kept, moved, version, faults, restarts>>

\* finalizeCRD: RemoveCRD comes last, and comes whether or not the steps
\* before it failed.
Finalize(w) ==
    /\ pc[w] = "finalize"
    /\ directory' = [directory EXCEPT ![got[w].service] = 0]
    /\ kept' = kept \ {got[w].service}
    /\ \/ /\ pc' = [pc EXCEPT ![w] = "removeFinalizer"]
          /\ UNCHANGED <<lock, queued, got, faults>>
       \/ /\ faults > 0 /\ faults' = faults - 1
          /\ Return(w, TRUE)
    /\ UNCHANGED <<crd, seen, existing, obj, resolver, moved, version, restarts>>

\* The finalizer is removed, and the ElastiService is gone.
RemoveFinalizer(w) ==
    /\ pc[w] = "removeFinalizer"
    /\ crd' = IF Current(w)
              THEN [crd EXCEPT ![obj[w]].state = "gone", ![obj[w]].finalizer = FALSE]
              ELSE crd
    /\ Return(w, ~Current(w))
    /\ UNCHANGED <<seen, existing, obj, directory, resolver, kept, moved, version, faults, restarts>>

\* fetch returns, and what it built is dropped.
EndFetch == fetch' = "idle" /\ left' = {} /\ body' = Empty /\ newCache' = Empty

\* The operator starts anew: the directory is empty and its server answers
\* from it at once, before Initialize has filled it.
RestartOperator ==
    /\ restarts > 0 /\ restarts' = restarts - 1
    /\ directory' = Empty /\ kept' = {}
    /\ seen' = crd
    /\ queued' = {o \in Objects : crd[o].state # "gone"}
    /\ existing' = {o \in Objects : crd[o].state = "live"}
    /\ lock' = [o \in Objects |-> Nobody]
    /\ pc' = [w \in Threads |-> "idle"]
    /\ got' = [w \in Threads |-> Absent(obj[w])]
    /\ IF fetch = "asked" THEN EndFetch ELSE UNCHANGED <<fetch, left, body, newCache>>
    /\ UNCHANGED <<crd, obj, cache, moved, version, faults>>

-----------------------------------------------------------------------------
(* The poller of the resolver, and the server of the operator.             *)

\* Start: the first fetch, and one per tick.
Tick ==
    /\ fetch = "idle"
    /\ fetch' = "asked" /\ left' = Services
    /\ UNCHANGED <<crd, seen, operator, directory, body, newCache, cache, kept, moved, version, faults, restarts>>

\* crdCacheHandler: ListAllCRDs visits the services one by one, in any order,
\* while Reconcile goes on.
List(k) ==
    /\ fetch = "asked" /\ k \in left
    /\ body' = [body EXCEPT ![k] = directory[k]]
    /\ left' = left \ {k}
    /\ UNCHANGED <<crd, seen, operator, directory, fetch, newCache, cache, kept, moved,
                   version, faults, restarts>>

\* Mutant: the old copy is dropped before the new one is complete.
ReceiveClears ==
    /\ fetch = "asked" /\ left = {}
    /\ fetch' = "filling"
    /\ cache' = Empty
    /\ left' = {k \in Services : body[k] # 0}
    /\ UNCHANGED <<crd, seen, operator, directory, body, newCache, kept, moved, version, faults, restarts>>

\* The answer arrives, and fetch starts on a new map.
Receive ==
    /\ fetch = "asked" /\ left = {}
    /\ fetch' = "filling"
    /\ left' = {k \in Services : body[k] # 0}
    /\ UNCHANGED <<crd, seen, operator, directory, body, newCache, cache, kept, moved, version, faults, restarts>>

\* The call fails: no connection, a status other than 200, or an answer that
\* cannot be decoded.  The copy stays as it is until the next tick.
FetchFails ==
    /\ fetch = "asked" /\ faults > 0
    /\ faults' = faults - 1
    /\ EndFetch
    /\ UNCHANGED <<crd, seen, operator, directory, cache, kept, moved,
                   version, restarts>>

Fill(k) ==
    /\ fetch = "filling" /\ k \in left
    /\ newCache' = [newCache EXCEPT ![k] = body[k]]
    /\ left' = left \ {k}
    /\ UNCHANGED <<crd, seen, operator, directory, fetch, body, cache, kept, moved,
                   version, faults, restarts>>

\* Mutant: the new entries are added to the old ones.
SwapMerges ==
    /\ fetch = "filling" /\ left = {}
    /\ cache' = [k \in Services |-> IF newCache[k] # 0 THEN newCache[k] ELSE cache[k]]
    /\ EndFetch
    /\ kept' = {k \in Services : directory[k] # 0}
    /\ UNCHANGED <<crd, seen, operator, directory, moved, version, faults, restarts>>

\* The new map takes the place of the old one.  GetElastiService and
\* ListCachedServices read one map or the other.
Swap ==
    /\ fetch = "filling" /\ left = {}
    /\ cache' = newCache
    /\ EndFetch
    /\ kept' = {k \in Services : directory[k] # 0}
    /\ UNCHANGED <<crd, seen, operator, directory, moved, version, faults, restarts>>

\* The resolver starts anew with an empty cache.
RestartResolver ==
    /\ restarts > 0 /\ restarts' = restarts - 1
    /\ cache' = Empty /\ EndFetch /\ kept' = {}
    /\ UNCHANGED <<crd, seen, operator, directory, moved, version, faults>>

-----------------------------------------------------------------------------
Reconcile(w) ==
    \/ Take(w) \/ LockGet(w) \/ NotFound(w)
    \/ AddFinalizer(w) \/ WatchFails(w) \/ AddCRD(w)
    \/ Finalize(w) \/ RemoveFinalizer(w)

Fetch ==
    \/ Tick \/ Receive \/ FetchFails \/ Swap
    \/ \E k \in Services : List(k) \/ Fill(k)

Next ==
    \/ \E o \in Objects : Edit(o) \/ Delete(o) \/ Sync(o)
    \/ \E w \in Threads : Reconcile(w)
    \/ Fetch
    \/ RestartOperator \/ RestartResolver

Spec == Init /\ [][Next]_vars

\* The watch of the manager delivers, the goroutines run, the mutex of a
\* Reconcile is handed to a waiter in time, and every call of the poller
\* returns.
FairSpec ==
    /\ Spec
    /\ \A o \in Objects : WF_vars(Sync(o))
    /\ \A w \in Threads : WF_vars(Reconcile(w)) /\ SF_vars(LockGet(w))
    /\ WF_vars(Fetch)

-----------------------------------------------------------------------------
\* The variables hold values of their types, and a goroutine inside Reconcile
\* holds the mutex of its ElastiService (Reconcile locks before it reads).
TypeOK ==
    /\ crd \in [Objects -> CRDs] /\ seen \in [Objects -> CRDs]
    /\ queued \subseteq Objects /\ existing \subseteq Objects
    /\ lock \in [Objects -> Threads \cup {Nobody}]
    /\ pc \in [Threads -> {"idle", "lock", "return", "addFinalizer", "watch",
                           "finalize", "removeFinalizer"}]
    /\ obj \in [Threads -> Objects] /\ got \in [Threads -> CRDs]
    /\ {directory, body, newCache, cache} \subseteq [Services -> Versions]
    /\ fetch \in {"idle", "asked", "filling"} /\ left \subseteq Services
    /\ kept \subseteq Services /\ moved \subseteq Services
    /\ version \in Versions /\ faults \in 0 .. MaxFaults /\ restarts \in 0 .. MaxRestarts
    /\ \A w \in Threads : pc[w] \notin {"idle", "lock"} => lock[obj[w]] = w

\* The copy of the resolver never goes back to an older spec of a service,
\* whichever of the two reconcilers stores it, through caches that are
\* behind, answers that mix two moments and restarts of either side.
NeverOlder ==
    [][\A k \in Services : cache[k] # 0 /\ cache'[k] # 0 => cache'[k] >= cache[k]]_vars

\* Short of a restart, an entry leaves the directory only while the
\* ElastiService it came from is being deleted, or after it has moved to
\* another service: a late finalizeCRD does not take the entry of an
\* ElastiService that was created again.
LiveKeepsEntry ==
    [][\A o \in Objects :
        /\ crd[o].state = "live" /\ directory[crd[o].service] = crd[o].version
        /\ directory'[crd[o].service] = 0
        => restarts' < restarts]_vars

\* A service that stays in the operator's directory never disappears from the
\* resolver's copy, while it is replaced or otherwise ("atomically replaces
\* the local copy", cache.go:71).
ListedStaysCached ==
    [][\A k \in kept : cache[k] # 0 /\ cache'[k] = 0 => restarts' < restarts]_vars

\* Once users stop, the resolver has the last spec of every ElastiService.
CacheConverges ==
    \A o \in Objects : <>[](crd[o].state = "live" => cache[crd[o].service] = crd[o].version)

\* Once users stop, what is deleted is forgotten by the resolver.  Services
\* an ElastiService has moved away from are left out: nothing removes their
\* entry before the operator starts anew.
DeletedIsForgotten ==
    \A o \in Objects :
        <>[](crd[o].state = "gone" => \A k \in Names[o] \ moved : cache[k] = 0)
=============================================================================
