---------------------------- MODULE CRDCacheProofs ----------------------------
(***************************************************************************)
(* Proofs about the way of a spec from the API server to the resolver, for *)
(* any ElastiServices, services and bounds: the copy of the resolver never *)
(* goes back, a live entry is not taken away, and a service that stays in  *)
(* the directory stays in the copy.                                        *)
(***************************************************************************)
EXTENDS CRDCache, TLAPS

Inside(w) == pc[w] \notin {"idle", "lock"}

(* An ElastiService, wherever it is copied, names one of its services.     *)
Placed ==
  /\ \A o \in Objects : crd[o].service \in Names[o] /\ seen[o].service \in Names[o]
  /\ \A w \in Threads : Inside(w) => got[w].service \in Names[obj[w]]

(* The manager's cache is behind the API server, and what a Reconcile has  *)
(* read is behind the cache.  Within one version an ElastiService does not *)
(* come back to life.                                                      *)
Behind ==
  /\ \A o \in Objects :
       /\ seen[o].version <= crd[o].version /\ crd[o].version <= version
       /\ crd[o].state # "gone" => crd[o].version > 0
       /\ seen[o].state # "gone" => seen[o].version > 0
       /\ seen[o].version = crd[o].version /\ seen[o].state # "live" => crd[o].state # "live"
  /\ \A w \in Threads : Inside(w) =>
       /\ got[w].version <= seen[obj[w]].version
       /\ pc[w] \in {"addFinalizer", "watch"} => got[w].version > 0
       /\ pc[w] = "finalize" => got[w].state # "live"
       /\ got[w].version = crd[obj[w]].version /\ got[w].state # "live"
            => crd[obj[w]].state # "live"

(* What the directory, the answer on its way and the two copies of the     *)
(* resolver hold for a service.                                            *)
Stored(k) == {directory[k], body[k], newCache[k], cache[k]}

(* None of it is newer than what the manager's cache has, nor newer than   *)
(* what the holder of the mutex has read and may store.                    *)
NoNewer ==
  \A o \in Objects : \A k \in Names[o] : \A v \in Stored(k) :
    /\ v <= seen[o].version
    /\ \A w \in Threads : Inside(w) /\ obj[w] = o => v <= got[w].version

(* From the directory to the copy of the resolver, versions fall.          *)
Falling ==
  /\ \A k \in Services : directory[k] # 0 =>
       body[k] <= directory[k] /\ newCache[k] <= directory[k] /\ cache[k] <= directory[k]
  /\ \A k \in Services : newCache[k] \in {0, body[k]}
  /\ \A k \in Services : body[k] # 0 => cache[k] <= body[k]
  /\ fetch # "filling" => newCache = Empty

(* A service that was in the directory ever since the last swap is in the  *)
(* answer and in the new copy, as soon as their loops have passed it.      *)
Kept ==
  \A k \in kept :
    /\ directory[k] # 0
    /\ fetch = "asked" /\ k \notin left => body[k] # 0
    /\ fetch = "filling" => body[k] # 0 /\ (k \notin left => newCache[k] # 0)

(* The inductive invariant. *)
CacheInv ==
  /\ TypeOK /\ Placed /\ Behind
  /\ NoNewer /\ Falling /\ Kept

(* Every ElastiService may name some service, and no two the same.         *)
LEMMA AbsentPlaced ==
  ASSUME NEW o \in Objects
  PROVE  Absent(o) \in CRDs /\ Absent(o).service \in Names[o]
<1>1. (CHOOSE k \in Names[o] : TRUE) \in Names[o]
  BY CRDCacheAssumption, Zenon
<1>2. 0 \in Versions
  BY CRDCacheAssumption DEF Versions
<1> QED
  BY <1>1, <1>2, Zenon DEF Absent, CRDs, Services

(* A record with some fields changed is an ElastiService still. *)
LEMMA ChangedCRD ==
  ASSUME NEW c \in CRDs, NEW l \in {"gone", "live", "deleting"}, NEW f \in BOOLEAN,
         NEW k \in Services, NEW v \in Versions
  PROVE  /\ [c EXCEPT !.state = l] \in CRDs
         /\ [c EXCEPT !.finalizer = f] \in CRDs
         /\ [c EXCEPT !.state = l, !.finalizer = f] \in CRDs
         /\ [c EXCEPT !.state = l, !.service = k, !.version = v] \in CRDs
BY ZenonT(40) DEF CRDs

(* In the initial state nothing is stored anywhere. *)
LEMMA CacheInit == Init => CacheInv
<1> SUFFICES ASSUME Init PROVE CacheInv
  BY Zenon
<1> USE DEF Init
<1>0. /\ \A o \in Objects : Absent(o) \in CRDs /\ Absent(o).service \in Names[o]
      /\ \A o \in Objects : crd[o] = Absent(o) /\ seen[o] = Absent(o)
      /\ \A w \in Threads : got[w] = Absent(obj[w]) /\ obj[w] \in Objects
      /\ Empty \in [Services -> Versions]
  BY AbsentPlaced, CRDCacheAssumption DEF Empty, Versions
<1>1. TypeOK
  BY <1>0, CRDCacheAssumption DEF TypeOK, Threads, Versions
<1>2. Placed
  BY <1>0, Zenon DEF Placed, Inside
<1>3. Behind
  BY <1>0 DEF Behind, Inside, Absent
<1>4. NoNewer
  BY <1>0 DEF NoNewer, Stored, Inside, Absent, Services, Empty
<1>5. Falling /\ Kept
  BY Zenon DEF Falling, Kept, Empty
<1> QED
  BY <1>1, <1>2, <1>3, <1>4, <1>5, Zenon DEF CacheInv

(* Every step keeps the types, and Reconcile holds its mutex. *)
LEMMA TypesNext == TypeOK /\ [Next]_vars => TypeOK'
<1> SUFFICES ASSUME TypeOK, [Next]_vars PROVE TypeOK'
  BY Zenon
<1> USE CRDCacheAssumption DEF operator, resolver
<1>a. Empty \in [Services -> Versions] /\ 0 \in Versions
  BY DEF Empty, Versions
<1>b. /\ \A o \in Objects : crd[o] \in CRDs /\ seen[o] \in CRDs
      /\ \A w \in Threads : got[w] \in CRDs /\ obj[w] \in Objects
  BY Zenon DEF TypeOK
<1>c. \A w \in Threads : Absent(obj[w]) \in CRDs
  BY <1>b, AbsentPlaced, Zenon
<1> DEFINE Labels ==
      {"idle", "lock", "return", "addFinalizer", "watch", "finalize", "removeFinalizer"}
<1> DEFINE Mutexes == Threads \cup {Nobody}
<1>1. CASE UNCHANGED vars
  BY <1>1, Zenon DEF vars, TypeOK
<1>2. ASSUME NEW o \in Objects, Edit(o) PROVE TypeOK'
  <2>0. version + 1 \in Versions
    BY <1>2 DEF Edit, Versions, TypeOK
  <2>1. PICK k \in Names[o] :
           crd' = [crd EXCEPT ![o].state = "live", ![o].service = k, ![o].version = version + 1]
    BY <1>2, ZenonT(40) DEF Edit
  <2>2. crd' \in [Objects -> CRDs]
    <3>0. k \in Services
      BY SMTT(40) DEF Services
    <3>1. [crd[o] EXCEPT !.state = "live", !.service = k, !.version = version + 1] \in CRDs
      BY <1>b, <2>0, <3>0, ChangedCRD, ZenonT(40)
    <3> QED
      BY <2>1, <3>1 DEF TypeOK
  <2>3. moved' \subseteq Services
    BY <1>2 DEF Edit, CRDs, TypeOK
  <2> QED
    BY <1>2, <2>0, <2>2, <2>3, Zenon DEF Edit, TypeOK
<1>3. ASSUME NEW o \in Objects, Delete(o) PROVE TypeOK'
  <2>1. PICK l \in {"deleting", "gone"} : crd' = [crd EXCEPT ![o].state = l]
    BY <1>3, ZenonT(40) DEF Delete
  <2>2. [crd[o] EXCEPT !.state = l] \in CRDs
    BY <1>b, Zenon DEF CRDs
  <2>3. crd' \in [Objects -> CRDs]
    BY <2>1, <2>2, Zenon DEF TypeOK
  <2> QED
    BY <1>3, <2>3, Zenon DEF Delete, TypeOK
<1>4. ASSUME NEW o \in Objects, Sync(o) PROVE TypeOK'
  BY <1>4, Zenon DEF Sync, TypeOK
<1>5. ASSUME NEW w \in Threads, Take(w) PROVE TypeOK'
  BY <1>5 DEF Take, TypeOK, Threads, Nobody
<1>6. ASSUME NEW w \in Threads, LockGet(w) PROVE TypeOK'
  <2>1. got' \in [Threads -> CRDs] /\ got'[w] \in CRDs
    BY <1>b, <1>6 DEF LockGet, TypeOK
  <2>2. PICK l \in {"addFinalizer", "finalize", "return"} : pc' = [pc EXCEPT ![w] = l]
    BY <1>6, <2>1, ZenonT(40) DEF LockGet, CRDs
  <2>3. \A v \in Threads : Inside(v)' => lock'[obj'[v]] = v
    BY <1>6, <2>2 DEF LockGet, Inside, TypeOK, Threads, Nobody
  <2>4. pc' \in [Threads -> Labels]
    BY <2>2, Zenon DEF TypeOK
  <2>5. lock' \in [Objects -> Mutexes]
    BY <1>6, Zenon DEF TypeOK, LockGet
  <2> QED
    BY <1>6, <2>1, <2>3, <2>4, <2>5, ZenonT(40) DEF LockGet, Inside, TypeOK
<1>7. ASSUME NEW w \in Threads, NotFound(w) PROVE TypeOK'
  BY <1>7, <1>b, <1>c, Zenon DEF NotFound, Return, TypeOK, Threads, Nobody
<1>8. ASSUME NEW w \in Threads, AddFinalizer(w) PROVE TypeOK'
  <2>1. CASE got[w].finalizer
    BY <1>8, <2>1 DEF AddFinalizer, TypeOK, Threads, Nobody
  <2>2. CASE ~got[w].finalizer /\ Current(w)
    <3>a. crd[obj[w]] \in CRDs /\ got[w] \in CRDs
      BY <1>b, Zenon
    <3>0. /\ [crd[obj[w]] EXCEPT !.finalizer = TRUE] \in CRDs
          /\ [got[w] EXCEPT !.finalizer = TRUE] \in CRDs
      BY <3>a, ZenonT(40) DEF CRDs
    <3>1. /\ crd' = [crd EXCEPT ![obj[w]].finalizer = TRUE]
          /\ got' = [got EXCEPT ![w].finalizer = TRUE]
      BY <1>8, <2>2, Zenon DEF AddFinalizer
    <3>2. crd' \in [Objects -> CRDs]
      BY <3>0, <3>1, Zenon DEF TypeOK
    <3>3. got' \in [Threads -> CRDs]
      BY <3>0, <3>1, Zenon DEF TypeOK
    <3> QED
      BY <1>8, <2>2, <3>2, <3>3 DEF AddFinalizer, TypeOK, Threads, Nobody
  <2>3. CASE ~got[w].finalizer /\ ~Current(w)
    BY <1>8, <1>b, <1>c, <2>3 DEF AddFinalizer, Return, TypeOK, Threads, Nobody
  <2> QED
    BY <2>1, <2>2, <2>3, Zenon
<1>9. ASSUME NEW w \in Threads, WatchFails(w) PROVE TypeOK'
  BY <1>9, <1>b, <1>c DEF WatchFails, Return, TypeOK, Threads, Nobody
<1>10. ASSUME NEW w \in Threads, AddCRD(w) PROVE TypeOK'
  <2>1. directory' \in [Services -> Versions]
    BY <1>10, <1>b, Zenon DEF AddCRD, TypeOK, CRDs
  <2> QED
    BY <1>10, <1>b, <1>c, <2>1 DEF AddCRD, Return, TypeOK, Threads, Nobody
<1>11. ASSUME NEW w \in Threads, Finalize(w) PROVE TypeOK'
  <2>1. directory' \in [Services -> Versions] /\ kept' \subseteq Services
    BY <1>11, <1>a, ZenonT(40) DEF Finalize, TypeOK
  <2>2. CASE pc' = [pc EXCEPT ![w] = "removeFinalizer"]  /\ UNCHANGED <<lock, queued, got, faults>>
    <3>1. /\ pc' \in [Threads -> Labels]
          /\ \A v \in Threads : pc'[v] \notin {"idle", "lock"} => lock'[obj'[v]] = v
      BY <1>11, <2>2, Zenon DEF Finalize, TypeOK
    <3> QED
      BY <1>11, <2>1, <2>2, <3>1 DEF Finalize, TypeOK
  <2>3. CASE faults > 0 /\ faults' = faults - 1 /\ Return(w, TRUE)
    BY <1>11, <1>b, <1>c, <2>1, <2>3 DEF Finalize, Return, TypeOK, Threads, Nobody
  <2> QED
    BY <1>11, <2>2, <2>3, ZenonT(40) DEF Finalize
<1>12. ASSUME NEW w \in Threads, RemoveFinalizer(w) PROVE TypeOK'
  <2>1. crd' \in [Objects -> CRDs]
    <3>0. crd[obj[w]] \in CRDs
      BY <1>b, Zenon
    <3>1. [crd[obj[w]] EXCEPT !.state = "gone", !.finalizer = FALSE] \in CRDs
      BY <3>0, ZenonT(40) DEF CRDs
    <3> QED
      BY <1>12, <1>b, <3>1, ZenonT(40) DEF RemoveFinalizer, TypeOK
  <2> QED
    BY <1>12, <1>b, <1>c, <2>1, Zenon DEF RemoveFinalizer, Return, TypeOK, Threads, Nobody
<1>13. CASE RestartOperator
  BY <1>a, <1>c, <1>13 DEF RestartOperator, EndFetch, TypeOK
<1>14. CASE RestartResolver
  BY <1>a, <1>14 DEF RestartResolver, EndFetch, TypeOK
<1>15. CASE Tick \/ Receive
  BY <1>15 DEF Tick, Receive, TypeOK
<1>16. CASE FetchFails \/ Swap
  BY <1>a, <1>16 DEF FetchFails, Swap, EndFetch, TypeOK
<1>17. ASSUME NEW k \in Services, List(k) \/ Fill(k) PROVE TypeOK'
  BY <1>17 DEF List, Fill, TypeOK
<1> QED
  BY <1>1, <1>2, <1>3, <1>4, <1>5, <1>6, <1>7, <1>8, <1>9, <1>10, <1>11, <1>12,
     <1>13, <1>14, <1>15, <1>16, <1>17, Zenon DEF Next, Reconcile, Fetch

-----------------------------------------------------------------------------
(* What a step may do to an ElastiService and to the manager's cache: the  *)
(* spec changes with a new version only, and within a version nothing      *)
(* comes back to life.                                                     *)
CRDStep(o) ==
  /\ \/ /\ crd'[o].version = crd[o].version /\ crd'[o].service = crd[o].service
        /\ \/ crd'[o].state = crd[o].state
           \/ crd'[o].state = "gone"
           \/ crd'[o].state = "deleting" /\ crd[o].state = "live"
     \/ /\ crd'[o].version = version + 1 /\ version' = version + 1
        /\ crd'[o].state = "live" /\ crd'[o].service \in Names[o]
  /\ seen'[o] = seen[o] \/ seen'[o] = crd'[o]
  /\ version <= version'

(* What a step may do to a goroutine inside Reconcile: it has just read    *)
(* the manager's cache, or it has kept what it read.                       *)
ReaderStep(w) ==
  Inside(w)' =>
    /\ obj'[w] = obj[w]
    /\ \/ /\ Inside(w)
          /\ got'[w].version = got[w].version /\ got'[w].state = got[w].state
          /\ got'[w].service = got[w].service
          /\ pc'[w] = "watch" => pc[w] \in {"watch", "addFinalizer"}
          /\ pc'[w] = "addFinalizer" => pc[w] = "addFinalizer"
          /\ pc'[w] = "finalize" => pc[w] = "finalize"
       \/ /\ got'[w] = seen[obj[w]] /\ UNCHANGED <<crd, seen>>
          /\ pc'[w] # "watch"
          /\ pc'[w] = "addFinalizer" => got'[w].state = "live"
          /\ pc'[w] = "finalize" => got'[w].state = "deleting"

(* Nothing is stored but what was stored, and what a Reconcile that is     *)
(* about to return has read.                                               *)
StoreStep(k) ==
  \A v \in Stored(k)' :
    \/ v \in Stored(k) \cup {0}
    \/ \E w \in Threads : /\ pc[w] = "watch" /\ ~Inside(w)' /\ k \in Names[obj[w]]
                          /\ v = got[w].version /\ UNCHANGED <<seen, obj>>
                          /\ \A x \in Threads \ {w} : pc'[x] = pc[x] /\ got'[x] = got[x]

(* Every step has this shape for every ElastiService. *)
LEMMA CRDSteps ==
  ASSUME TypeOK, [Next]_vars, NEW o \in Objects
  PROVE  CRDStep(o)
<1> USE DEF operator, resolver, CRDStep
<1>a. /\ \A p \in Objects : crd[p] \in CRDs
      /\ \A w \in Threads : obj[w] \in Objects
      /\ version \in Nat /\ crd \in [Objects -> CRDs] /\ seen \in [Objects -> CRDs]
  BY DEF TypeOK, Versions
<1>1. CASE UNCHANGED <<crd, seen, version>>
  BY <1>1, <1>a
<1>2. ASSUME NEW p \in Objects, Edit(p) PROVE CRDStep(o)
  <2>1. PICK k \in Names[p] :
           crd' = [crd EXCEPT ![p].state = "live", ![p].service = k, ![p].version = version + 1]
    BY <1>2, ZenonT(40) DEF Edit
  <2>2. CASE o = p
    <3>1. /\ crd'[o].version = version + 1 /\ crd'[o].state = "live" /\ crd'[o].service = k
      BY <1>a, <2>1, <2>2, Zenon DEF CRDs
    <3> QED
      BY <1>a, <1>2, <2>2, <3>1 DEF Edit
  <2>3. CASE o # p
    BY <1>a, <1>2, <2>1, <2>3 DEF Edit
  <2> QED
    BY <2>2, <2>3, SMTT(40)
<1>3. ASSUME NEW p \in Objects, Delete(p) PROVE CRDStep(o)
  <2>1. PICK l \in {"deleting", "gone"} : crd' = [crd EXCEPT ![p].state = l]
    BY <1>3, ZenonT(40) DEF Delete
  <2>2. CASE o = p
    <3>1. /\ crd'[o].version = crd[o].version /\ crd'[o].state = l
          /\ crd'[o].service = crd[o].service /\ crd[o].state = "live"
      BY <1>a, <1>3, <2>1, <2>2 DEF CRDs, Delete
    <3> QED
      BY <1>a, <1>3, <3>1 DEF Delete
  <2>3. CASE o # p
    BY <1>a, <1>3, <2>1, <2>3 DEF Delete
  <2> QED
    BY <2>2, <2>3, Zenon
<1>4. ASSUME NEW p \in Objects, Sync(p) PROVE CRDStep(o)
  BY <1>a, <1>4 DEF Sync
<1>5. ASSUME NEW w \in Threads, AddFinalizer(w) PROVE CRDStep(o)
  <2>1. CASE crd' = [crd EXCEPT ![obj[w]].finalizer = TRUE]
    <3>1. /\ crd'[o].version = crd[o].version /\ crd'[o].state = crd[o].state
          /\ crd'[o].service = crd[o].service
      BY <1>a, <2>1, Zenon DEF CRDs
    <3> QED
      BY <1>a, <1>5, <3>1 DEF AddFinalizer
  <2>2. CASE UNCHANGED crd
    BY <1>a, <1>5, <2>2 DEF AddFinalizer
  <2> QED
    BY <1>5, <2>1, <2>2, ZenonT(40) DEF AddFinalizer
<1>6. ASSUME NEW w \in Threads, RemoveFinalizer(w) PROVE CRDStep(o)
  <2>1. CASE Current(w)
    <3>0. crd' = [crd EXCEPT ![obj[w]].state = "gone", ![obj[w]].finalizer = FALSE]
      BY <1>6, <2>1, Zenon DEF RemoveFinalizer
    <3>1. /\ crd'[o].version = crd[o].version /\ crd'[o].service = crd[o].service
          /\ crd'[o].state \in {crd[o].state, "gone"}
      BY <1>a, <3>0 DEF CRDs
    <3> QED
      BY <1>a, <1>6, <3>1 DEF RemoveFinalizer
  <2>2. CASE ~Current(w)
    BY <1>a, <1>6, <2>2 DEF RemoveFinalizer
  <2> QED
    BY <2>1, <2>2, Zenon
<1>7. CASE RestartOperator
  BY <1>a, <1>7 DEF RestartOperator
<1>8. CASE \/ UNCHANGED vars
           \/ \E w \in Threads : \/ Take(w) \/ LockGet(w) \/ NotFound(w)
                                 \/ WatchFails(w) \/ AddCRD(w) \/ Finalize(w)
           \/ Fetch \/ RestartResolver
  <2>1. UNCHANGED <<crd, seen, version>>
    BY <1>8, ZenonT(40) DEF vars, Take, LockGet, NotFound, WatchFails, AddCRD, Finalize,
       Fetch, Tick,
                Receive, FetchFails, Swap, List, Fill, RestartResolver
  <2> QED
    BY <2>1, <1>1, Zenon
<1> QED
  BY <1>2, <1>3, <1>4, <1>5, <1>6, <1>7, <1>8, Zenon DEF Next, Reconcile

(* Every step has this shape for every goroutine that reconciles. *)
LEMMA ReaderSteps ==
  ASSUME TypeOK, [Next]_vars, NEW w \in Threads
  PROVE  ReaderStep(w)
<1> USE DEF operator, resolver, ReaderStep, Inside
<1>a. /\ pc \in [Threads -> {"idle", "lock", "return", "addFinalizer", "watch",
                             "finalize", "removeFinalizer"}]
      /\ obj \in [Threads -> Objects] /\ got \in [Threads -> CRDs] /\ got[w] \in CRDs
      /\ seen \in [Objects -> CRDs] /\ seen[obj[w]] \in CRDs
  BY Zenon DEF TypeOK
<1>1. CASE UNCHANGED <<pc, obj, got>>
  BY <1>1, Zenon
<1>2. ASSUME NEW x \in Threads, Take(x) PROVE ReaderStep(w)
  BY <1>a, <1>2, Zenon DEF Take
<1>3. ASSUME NEW x \in Threads, LockGet(x) PROVE ReaderStep(w)
  <2>1. CASE x = w
    <3>1. got'[w] = seen[obj[w]] /\ UNCHANGED <<crd, seen, obj>>
      BY <1>a, <1>3, <2>1, Zenon DEF LockGet
    <3>2. pc'[w] = CASE got'[w].state = "live" -> "addFinalizer"
                     [] got'[w].state = "deleting" -> "finalize"
                     [] got'[w].state = "gone" -> "return"
      BY <1>a, <1>3, <2>1, ZenonT(40) DEF LockGet
    <3>3. got'[w].state \in {"gone", "live", "deleting"}
      BY <1>a, <3>1, Zenon DEF CRDs
    <3> QED
      BY <3>1, <3>2, <3>3, Zenon
  <2>2. CASE x # w
    <3>1. pc'[w] = pc[w] /\ got'[w] = got[w] /\ obj'[w] = obj[w]
      BY <1>a, <1>3, <2>2, Zenon DEF LockGet
    <3> QED
      BY <3>1, Zenon
  <2> QED
    BY <2>1, <2>2, Zenon
<1>4. ASSUME NEW x \in Threads, Return(x, TRUE) \/ Return(x, FALSE), UNCHANGED obj
      PROVE  ReaderStep(w)
  BY <1>a, <1>4, Zenon DEF Return
<1>5. ASSUME NEW x \in Threads, AddFinalizer(x) PROVE ReaderStep(w)
  <2>1. CASE pc' = [pc EXCEPT ![x] = "watch"] /\ got' = got
    BY <1>a, <1>5, <2>1, Zenon DEF AddFinalizer
  <2>2. CASE pc' = [pc EXCEPT ![x] = "watch"] /\ got' = [got EXCEPT ![x].finalizer = TRUE]
    <3>1. /\ got'[w].version = got[w].version /\ got'[w].state = got[w].state
          /\ got'[w].service = got[w].service
      BY <1>a, <2>2, Zenon DEF CRDs
    <3> QED
      BY <1>a, <1>5, <2>2, <3>1, Zenon DEF AddFinalizer
  <2>3. CASE Return(x, TRUE)
    BY <1>4, <1>5, <2>3, ZenonT(40) DEF AddFinalizer
  <2> QED
    BY <1>5, <2>1, <2>2, <2>3, ZenonT(40) DEF AddFinalizer
<1>6. ASSUME NEW x \in Threads, Finalize(x) PROVE ReaderStep(w)
  <2>1. CASE pc' = [pc EXCEPT ![x] = "removeFinalizer"] /\ UNCHANGED got
    BY <1>a, <1>6, <2>1, Zenon DEF Finalize
  <2>2. CASE Return(x, TRUE)
    BY <1>4, <1>6, <2>2, ZenonT(40) DEF Finalize
  <2> QED
    BY <1>6, <2>1, <2>2, ZenonT(40) DEF Finalize
<1>7. ASSUME NEW x \in Threads, NotFound(x) \/ WatchFails(x) \/ AddCRD(x) \/ RemoveFinalizer(x)
      PROVE  ReaderStep(w)
  <2>1. (\E b \in BOOLEAN : Return(x, b)) /\ UNCHANGED obj
    BY <1>7, ZenonT(40) DEF NotFound, WatchFails, AddCRD, RemoveFinalizer
  <2> QED
    BY <1>4, <2>1, ZenonT(40)
<1>8. CASE RestartOperator
  BY <1>a, <1>8, Zenon DEF RestartOperator
<1>9. CASE \/ UNCHANGED vars
           \/ \E o \in Objects : Edit(o) \/ Delete(o) \/ Sync(o)
           \/ Fetch \/ RestartResolver
  <2>1. UNCHANGED <<pc, obj, got>>
    BY <1>9, ZenonT(40) DEF vars, Edit, Delete, Sync, Fetch, Tick, Receive, FetchFails, Swap,
       List, Fill,
                RestartResolver
  <2> QED
    BY <2>1, <1>1, SMTT(40)
<1> QED
  BY <1>2, <1>3, <1>5, <1>6, <1>7, <1>8, <1>9, ZenonT(40) DEF Next, Reconcile

(* Every step has this shape for every service. *)
LEMMA StoreSteps ==
  ASSUME TypeOK, Placed, [Next]_vars, NEW k \in Services
  PROVE  StoreStep(k)
<1> USE DEF operator, resolver, StoreStep, Stored
<1>a. /\ directory \in [Services -> Versions] /\ body \in [Services -> Versions]
      /\ newCache \in [Services -> Versions] /\ cache \in [Services -> Versions]
  BY Zenon DEF TypeOK
<1>1. CASE UNCHANGED <<directory, body, newCache, cache>>
  BY <1>1, SMTT(40)
<1>2. ASSUME NEW w \in Threads, AddCRD(w) PROVE StoreStep(k)
  <2>a. pc[w] = "watch" /\ got[w].service \in Names[obj[w]]
    BY <1>2, Zenon DEF AddCRD, Placed, Inside
  <2>b. pc \in [Threads -> {"idle", "lock", "return", "addFinalizer", "watch",
                           "finalize", "removeFinalizer"}] /\ got \in [Threads -> CRDs]
    BY Zenon DEF TypeOK
  <2>1. CASE k = got[w].service
    <3>1. directory'[k] = got[w].version /\ UNCHANGED <<body, newCache, cache, seen, obj>>
      BY <1>a, <1>2, <2>1, Zenon DEF AddCRD
    <3>2. ~Inside(w)' /\ \A x \in Threads \ {w} : pc'[x] = pc[x] /\ got'[x] = got[x]
      BY <1>2, <2>b, Zenon DEF AddCRD, Return, Inside
    <3> QED
      BY <2>1, <2>a, <3>1, <3>2
  <2>2. CASE k # got[w].service
    BY <1>a, <1>2, <2>2, Zenon DEF AddCRD
  <2> QED
    BY <2>1, <2>2, Zenon
<1>3. ASSUME NEW w \in Threads, Finalize(w) PROVE StoreStep(k)
  BY <1>a, <1>3, Zenon DEF Finalize
<1>4. CASE RestartOperator
  BY <1>a, <1>4 DEF RestartOperator, EndFetch, Empty
<1>5. CASE RestartResolver
  BY <1>a, <1>5, Zenon DEF RestartResolver, EndFetch, Empty
<1>6. ASSUME NEW s \in Services, List(s) \/ Fill(s) PROVE StoreStep(k)
  BY <1>a, <1>6, Zenon DEF List, Fill
<1>7. CASE FetchFails \/ Swap
  BY <1>a, <1>7, Zenon DEF FetchFails, Swap, EndFetch, Empty
<1>8. CASE \/ UNCHANGED vars
           \/ \E o \in Objects : Edit(o) \/ Delete(o) \/ Sync(o)
           \/ \E w \in Threads : \/ Take(w) \/ LockGet(w) \/ NotFound(w) \/ AddFinalizer(w)
                                 \/ WatchFails(w) \/ RemoveFinalizer(w)
           \/ Tick \/ Receive
  <2>1. UNCHANGED <<directory, body, newCache, cache>>
    BY <1>8, ZenonT(40) DEF vars, Edit, Delete, Sync, Take, LockGet, NotFound, AddFinalizer,
       WatchFails,
                RemoveFinalizer, Tick, Receive
  <2> QED
    BY <2>1, <1>1, SMTT(40)
<1> QED
  BY <1>2, <1>3, <1>4, <1>5, <1>6, <1>7, <1>8, ZenonT(40) DEF Next, Reconcile, Fetch

-----------------------------------------------------------------------------
(* Every step keeps each part of the invariant. *)
LEMMA PlacedNext == TypeOK /\ Placed /\ [Next]_vars => Placed'
<1> SUFFICES ASSUME TypeOK, Placed, [Next]_vars PROVE Placed'
  BY Zenon
<1>1. \A w \in Threads : obj[w] \in Objects
  BY Zenon DEF TypeOK
<1>2. ASSUME NEW o \in Objects PROVE crd'[o].service \in Names[o] /\ seen'[o].service \in Names[o]
  BY CRDSteps, Zenon DEF CRDStep, Placed
<1>3. ASSUME NEW w \in Threads, Inside(w)' PROVE got'[w].service \in Names[obj'[w]]
  BY <1>1, <1>3, ReaderSteps, Zenon DEF ReaderStep, Placed
<1> QED
  BY <1>2, <1>3, Zenon DEF Placed

(* The caches stay behind: a version is read before it is passed on. *)
LEMMA BehindNext == TypeOK /\ Behind /\ [Next]_vars => Behind'
<1> SUFFICES ASSUME TypeOK, Behind, [Next]_vars PROVE Behind'
  BY Zenon
<1>a. /\ \A o \in Objects : /\ crd[o].version \in Nat /\ seen[o].version \in Nat
                            /\ crd[o].state \in {"gone", "live", "deleting"}
                            /\ seen[o].state \in {"gone", "live", "deleting"}
      /\ \A w \in Threads : obj[w] \in Objects /\ got[w].version \in Nat
      /\ version \in Nat
  BY SMTT(40) DEF TypeOK, CRDs, Versions
<1>1. ASSUME NEW o \in Objects
      PROVE  /\ seen'[o].version <= crd'[o].version /\ crd'[o].version <= version'
             /\ crd'[o].state # "gone" => crd'[o].version > 0
             /\ seen'[o].state # "gone" => seen'[o].version > 0
             /\ seen'[o].version = crd'[o].version /\ seen'[o].state # "live" => crd'[o].state # "live"
  <2>1. CRDStep(o)
    BY CRDSteps, SMTT(40)
  <2>2. version' \in Nat
    BY TypesNext DEF TypeOK, Versions
  <2> QED
    BY <1>a, <2>1, <2>2 DEF CRDStep, Behind
<1>2. ASSUME NEW w \in Threads, Inside(w)'
      PROVE  /\ got'[w].version <= seen'[obj'[w]].version
             /\ pc'[w] \in {"addFinalizer", "watch"} => got'[w].version > 0
             /\ pc'[w] = "finalize" => got'[w].state # "live"
             /\ got'[w].version = crd'[obj'[w]].version /\ got'[w].state # "live"
                  => crd'[obj'[w]].state # "live"
  <2>0. CRDStep(obj[w]) /\ obj'[w] = obj[w] /\ obj[w] \in Objects
    BY <1>a, <1>2, CRDSteps, ReaderSteps, Zenon DEF ReaderStep
  <2>1. CASE /\ Inside(w)
             /\ got'[w].version = got[w].version /\ got'[w].state = got[w].state
             /\ pc'[w] = "watch" => pc[w] \in {"watch", "addFinalizer"}
             /\ pc'[w] = "addFinalizer" => pc[w] = "addFinalizer"
             /\ pc'[w] = "finalize" => pc[w] = "finalize"
    BY <1>a, <2>0, <2>1 DEF CRDStep, Behind
  <2>2. CASE /\ got'[w] = seen[obj[w]] /\ UNCHANGED <<crd, seen>>
             /\ pc'[w] # "watch"
             /\ pc'[w] = "addFinalizer" => got'[w].state = "live"
             /\ pc'[w] = "finalize" => got'[w].state = "deleting"
    BY <1>a, <2>0, <2>2 DEF Behind
  <2> QED
    BY <1>2, <2>1, <2>2, ReaderSteps, SMTT(40) DEF ReaderStep
<1> QED
  BY <1>1, <1>2, Zenon DEF Behind

(* What is stored was read under the mutex, so a later reader has read at  *)
(* least that.                                                             *)
LEMMA NoNewerNext == TypeOK /\ Placed /\ Behind /\ NoNewer /\ [Next]_vars => NoNewer'
<1> SUFFICES ASSUME TypeOK, Placed, Behind, NoNewer, [Next]_vars,
                    NEW o \in Objects, NEW k \in Names[o], NEW v \in Stored(k)'
             PROVE  /\ v <= seen'[o].version
                    /\ \A w \in Threads : Inside(w)' /\ obj'[w] = o => v <= got'[w].version
  BY Zenon DEF NoNewer
<1>a. /\ \A p \in Objects : crd[p].version \in Nat /\ seen[p].version \in Nat
      /\ \A w \in Threads : obj[w] \in Objects /\ got[w].version \in Nat
      /\ version \in Nat
  BY DEF TypeOK, CRDs, Versions
<1>b. k \in Services
  BY Zenon DEF Services
<1>c. seen[o].version <= seen'[o].version /\ seen'[o].version \in Nat
  <2>1. CRDStep(o)
    BY CRDSteps, Zenon
  <2>2. seen[o].version <= crd[o].version /\ crd[o].version <= version
    BY Zenon DEF Behind
  <2> QED
    BY <1>a, <2>1, <2>2 DEF CRDStep
<1>1. CASE v \in Stored(k) \cup {0}
  <2>1. /\ v <= seen[o].version /\ v \in Nat
        /\ \A w \in Threads : Inside(w) /\ obj[w] = o => v <= got[w].version
    <3>1. \A x \in Stored(k) : x \in Nat
      BY <1>b DEF Stored, TypeOK, Versions
    <3> QED
      BY <1>1, <1>a, <3>1 DEF NoNewer
  <2>2. ASSUME NEW w \in Threads, Inside(w)', obj'[w] = o PROVE v <= got'[w].version
    BY <1>a, <2>1, <2>2, ReaderSteps, Zenon DEF ReaderStep
  <2> QED
    BY <1>a, <1>c, <2>1, <2>2
<1>2. ASSUME NEW w \in Threads,
             pc[w] = "watch" /\ ~Inside(w)' /\ k \in Names[obj[w]],
             v = got[w].version /\ UNCHANGED <<seen, obj>>,
             \A x \in Threads \ {w} : pc'[x] = pc[x] /\ got'[x] = got[x]
      PROVE  /\ v <= seen'[o].version
             /\ \A x \in Threads : Inside(x)' /\ obj'[x] = o => v <= got'[x].version
  <2>1. obj[w] = o
    BY <1>2, <1>a, CRDCacheAssumption, Zenon
  <2>2. v <= seen'[o].version
    BY <1>2, <2>1, SMTT(40) DEF Behind, Inside
  <2>3. lock[o] = w
    BY <1>2, <2>1, Zenon DEF TypeOK
  <2>4. ASSUME NEW x \in Threads, Inside(x)', obj'[x] = o PROVE FALSE
    <3>1. x # w /\ Inside(x) /\ obj[x] = o
      BY <1>2, <2>4, Zenon DEF Inside
    <3> QED
      BY <2>3, <3>1, Zenon DEF TypeOK, Inside
  <2> QED
    BY <2>2, <2>4, Zenon
<1> QED
  BY <1>1, <1>2, <1>b, StoreSteps, Zenon DEF StoreStep

(* The directory is overwritten by newer versions only, and the copies are *)
(* taken from it.                                                          *)
LEMMA FallingNext == TypeOK /\ Placed /\ NoNewer /\ Falling /\ [Next]_vars => Falling'
<1> SUFFICES ASSUME TypeOK, Placed, NoNewer, Falling, [Next]_vars PROVE Falling'
  BY Zenon
<1> USE DEF operator, resolver
<1>a. /\ directory \in [Services -> Nat] /\ body \in [Services -> Nat]
      /\ newCache \in [Services -> Nat] /\ cache \in [Services -> Nat]
  BY DEF TypeOK, Versions
<1>b. \A k \in Services : Empty[k] = 0
  BY Zenon DEF Empty
<1>1. CASE UNCHANGED <<directory, resolver>>
  BY <1>1, Zenon DEF Falling
<1>2. ASSUME NEW w \in Threads, AddCRD(w) PROVE Falling'
  <2>1. /\ UNCHANGED <<fetch, body, newCache, cache>>
        /\ directory' = [directory EXCEPT ![got[w].service] = got[w].version]
    BY <1>2, Zenon DEF AddCRD
  <2>2. Inside(w) /\ obj[w] \in Objects /\ got[w].service \in Names[obj[w]]
    BY <1>2, Zenon DEF AddCRD, Placed, Inside, TypeOK
  <2>3. \A v \in Stored(got[w].service) : v <= got[w].version
    BY <2>2, Zenon DEF NoNewer
  <2> QED
    BY <1>a, <2>1, <2>3, SMTT(40) DEF Falling, Stored
<1>3. ASSUME NEW w \in Threads, Finalize(w) PROVE Falling'
  <2>1. /\ UNCHANGED <<fetch, body, newCache, cache>>
        /\ directory' = [directory EXCEPT ![got[w].service] = 0]
    BY <1>3, ZenonT(40) DEF Finalize
  <2> QED
    BY <1>a, <2>1, SMTT(40) DEF Falling
<1>4. CASE RestartOperator
  BY <1>a, <1>b, <1>4, Zenon DEF RestartOperator, EndFetch, Falling
<1>5. CASE RestartResolver
  BY <1>a, <1>b, <1>5 DEF RestartResolver, EndFetch, Falling
<1>6. ASSUME NEW s \in Services, List(s) PROVE Falling'
  BY <1>a, <1>b, <1>6 DEF List, Falling
<1>7. ASSUME NEW s \in Services, Fill(s) PROVE Falling'
  BY <1>a, <1>b, <1>7, Zenon DEF Fill, Falling
<1>8. CASE FetchFails
  BY <1>a, <1>b, <1>8, Zenon DEF FetchFails, EndFetch, Falling
<1>9. CASE Swap
  BY <1>a, <1>b, <1>9 DEF Swap, EndFetch, Falling
<1>10. CASE Tick \/ Receive
  BY <1>10, Zenon DEF Tick, Receive, Falling
<1>11. CASE \/ UNCHANGED vars
            \/ \E o \in Objects : Edit(o) \/ Delete(o) \/ Sync(o)
            \/ \E w \in Threads : \/ Take(w) \/ LockGet(w) \/ NotFound(w) \/ AddFinalizer(w)
                                  \/ WatchFails(w) \/ RemoveFinalizer(w)
  <2>1. UNCHANGED <<directory, resolver>>
    BY <1>11, ZenonT(40) DEF vars, Edit, Delete, Sync, Take, LockGet, NotFound, AddFinalizer,
       WatchFails,
                 RemoveFinalizer
  <2> QED
    BY <2>1, <1>1, SMTT(40)
<1> QED
  BY <1>2, <1>3, <1>4, <1>5, <1>6, <1>7, <1>8, <1>9, <1>10, <1>11, Zenon DEF Next, Reconcile, Fetch

(* What stays in the directory is seen by the loops of a fetch. *)
LEMMA KeptNext == TypeOK /\ Behind /\ Kept /\ [Next]_vars => Kept'
<1> SUFFICES ASSUME TypeOK, Behind, Kept, [Next]_vars PROVE Kept'
  BY Zenon
<1> USE DEF operator, resolver
<1>a. /\ directory \in [Services -> Nat] /\ body \in [Services -> Nat]
      /\ newCache \in [Services -> Nat] /\ kept \subseteq Services
  BY DEF TypeOK, Versions
<1>1. CASE UNCHANGED <<directory, resolver, kept>>
  BY <1>1, Zenon DEF Kept
<1>2. ASSUME NEW w \in Threads, AddCRD(w) PROVE Kept'
  <2>1. /\ UNCHANGED <<fetch, left, body, newCache, kept>>
        /\ directory' = [directory EXCEPT ![got[w].service] = got[w].version]
    BY <1>2, SMTT(40) DEF AddCRD
  <2>2. got[w].version > 0 /\ got[w].version \in Nat
    BY <1>2, SMTT(40) DEF AddCRD, Behind, Inside, TypeOK, CRDs, Versions
  <2> QED
    BY <1>a, <2>1, <2>2 DEF Kept
<1>3. ASSUME NEW w \in Threads, Finalize(w) PROVE Kept'
  <2>1. /\ UNCHANGED <<fetch, left, body, newCache>> /\ kept' = kept \ {got[w].service}
        /\ directory' = [directory EXCEPT ![got[w].service] = 0]
    BY <1>3, Zenon DEF Finalize
  <2> QED
    BY <1>a, <2>1, Zenon DEF Kept
<1>4. CASE RestartOperator
  BY <1>4, Zenon DEF RestartOperator, Kept
<1>5. CASE RestartResolver
  BY <1>5, Zenon DEF RestartResolver, Kept
<1>6. ASSUME NEW s \in Services, List(s) PROVE Kept'
  BY <1>a, <1>6, Zenon DEF List, Kept
<1>7. ASSUME NEW s \in Services, Fill(s) PROVE Kept'
  BY <1>a, <1>7, Zenon DEF Fill, Kept
<1>8. CASE FetchFails
  BY <1>8, Zenon DEF FetchFails, EndFetch, Kept
<1>9. CASE Swap
  BY <1>9, Zenon DEF Swap, EndFetch, Kept
<1>10. CASE Tick
  BY <1>a, <1>10, Zenon DEF Tick, Kept
<1>11. CASE Receive
  BY <1>a, <1>11, Zenon DEF Receive, Kept
<1>12. CASE \/ UNCHANGED vars
            \/ \E o \in Objects : Edit(o) \/ Delete(o) \/ Sync(o)
            \/ \E w \in Threads : \/ Take(w) \/ LockGet(w) \/ NotFound(w) \/ AddFinalizer(w)
                                  \/ WatchFails(w) \/ RemoveFinalizer(w)
  <2>1. UNCHANGED <<directory, resolver, kept>>
    BY <1>12, ZenonT(40) DEF vars, Edit, Delete, Sync, Take, LockGet, NotFound, AddFinalizer,
       WatchFails,
                 RemoveFinalizer
  <2> QED
    BY <2>1, <1>1, SMTT(40)
<1> QED
  BY <1>2, <1>3, <1>4, <1>5, <1>6, <1>7, <1>8, <1>9, <1>10, <1>11, <1>12, Zenon DEF Next, Reconcile,
     Fetch

(* The invariant holds in every reachable state. *)
LEMMA CacheInvHolds == Spec => []CacheInv
<1>1. CacheInv /\ [Next]_vars => CacheInv'
  BY TypesNext, PlacedNext, BehindNext, NoNewerNext, FallingNext, KeptNext, Zenon DEF CacheInv
<1> QED
  BY <1>1, CacheInit, PTL DEF Spec

-----------------------------------------------------------------------------
(* The types hold, and a goroutine inside Reconcile holds the mutex of its *)
(* ElastiService.                                                          *)
THEOREM CRDCacheTypes == Spec => []TypeOK
<1>1. CacheInv => TypeOK
  BY Zenon DEF CacheInv
<1> QED
  BY <1>1, CacheInvHolds, PTL

(* The resolver never goes back to an older spec of a service. *)
THEOREM CacheNeverOlder == Spec => NeverOlder
<1>1. CacheInv /\ [Next]_vars =>
        \A k \in Services : cache[k] # 0 /\ cache'[k] # 0 => cache'[k] >= cache[k]
  <2> SUFFICES ASSUME CacheInv, [Next]_vars, NEW k \in Services, cache'[k] # 0, cache[k] # 0
               PROVE  cache'[k] >= cache[k]
    BY Zenon
  <2>a. cache[k] \in Nat /\ newCache[k] \in Nat /\ body[k] \in Nat
    BY DEF CacheInv, TypeOK, Versions
  <2>1. CASE Swap
    BY <2>a, <2>1, Zenon DEF Swap, CacheInv, Falling
  <2>2. CASE RestartResolver
    BY <2>2, Zenon DEF RestartResolver, Empty
  <2>3. CASE ~Swap /\ ~RestartResolver
    <3>1. UNCHANGED cache
      BY <2>3, ZenonT(40) DEF vars, Next, Edit, Delete, Sync, Reconcile, Take, LockGet,
         NotFound, AddFinalizer,
                  WatchFails, AddCRD, Finalize, RemoveFinalizer, RestartOperator, Fetch, Tick,
                  Receive, FetchFails, List, Fill, resolver
    <3> QED
      BY <2>a, <3>1, SMTT(40)
  <2> QED
    BY <2>1, <2>2, <2>3, Zenon
<1> QED
  BY <1>1, CacheInvHolds, PTL DEF Spec, NeverOlder

(* A service that stays in the directory stays in the resolver's copy. *)
THEOREM CacheKeepsListed == Spec => ListedStaysCached
<1>1. CacheInv /\ [Next]_vars =>
        \A k \in kept : cache[k] # 0 /\ cache'[k] = 0 => restarts' < restarts
  <2> SUFFICES ASSUME CacheInv, [Next]_vars, NEW k \in kept, cache'[k] = 0, cache[k] # 0
               PROVE  restarts' < restarts
    BY Zenon
  <2>1. CASE Swap
    BY <2>1, Zenon DEF Swap, CacheInv, Kept
  <2>2. CASE RestartResolver
    BY <2>2, CRDCacheAssumption DEF RestartResolver, CacheInv, TypeOK
  <2>3. CASE ~Swap /\ ~RestartResolver
    <3>1. UNCHANGED cache
      BY <2>3, ZenonT(40) DEF vars, Next, Edit, Delete, Sync, Reconcile, Take, LockGet,
         NotFound, AddFinalizer,
                  WatchFails, AddCRD, Finalize, RemoveFinalizer, RestartOperator, Fetch, Tick,
                  Receive, FetchFails, List, Fill, resolver
    <3> QED
      BY <3>1, SMTT(40)
  <2> QED
    BY <2>1, <2>2, <2>3, Zenon
<1> QED
  BY <1>1, CacheInvHolds, PTL DEF Spec, ListedStaysCached

(* Short of a restart, the entry of a live ElastiService stays in the      *)
(* directory.                                                              *)
THEOREM DirectoryKeepsLive == Spec => LiveKeepsEntry
<1>1. CacheInv /\ [Next]_vars =>
      \A o \in Objects :
        /\ crd[o].state = "live" /\ directory[crd[o].service] = crd[o].version
        /\ directory'[crd[o].service] = 0
        => restarts' < restarts
  <2> SUFFICES ASSUME CacheInv, [Next]_vars, NEW o \in Objects, crd[o].state = "live",
                      directory[crd[o].service] = crd[o].version, directory'[crd[o].service] = 0
               PROVE  restarts' < restarts
    BY SMTT(40)
  <2>a. /\ crd[o].service \in Names[o] /\ crd[o].version > 0
        /\ crd[o].version \in Nat /\ seen[o].version \in Nat
        /\ directory[crd[o].service] # 0 /\ crd[o].service \in Services
    BY SMTT(40) DEF CacheInv, Placed, Behind, TypeOK, CRDs, Versions
  <2>b. directory \in [Services -> Versions]
    BY ZenonT(40) DEF CacheInv, TypeOK
  <2>1. CASE RestartOperator
    <3>1. restarts > 0 /\ restarts' = restarts - 1
      BY <2>1, Zenon DEF RestartOperator
    <3>2. restarts \in Nat
      BY CRDCacheAssumption, SMTT(40) DEF CacheInv, TypeOK
    <3> QED
      BY <3>1, <3>2
  <2>2. ASSUME NEW w \in Threads, Finalize(w) PROVE FALSE
    <3>1. /\ Inside(w) /\ obj[w] \in Objects /\ got[w].service \in Names[obj[w]]
          /\ got[w].version \in Nat /\ pc[w] = "finalize"
      BY <2>2, SMTT(40) DEF Finalize, Inside, CacheInv, Placed, TypeOK, CRDs, Versions
    <3>2. got[w].service = crd[o].service
      BY <2>2, <2>a, <2>b, ZenonT(40) DEF Finalize
    <3>3. obj[w] = o
      BY <2>a, <3>1, <3>2, CRDCacheAssumption, ZenonT(40)
    <3>4. got[w].version = crd[o].version
      <4>1. crd[o].version <= got[w].version
        BY <2>a, <3>1, <3>3, SMTT(40) DEF CacheInv, NoNewer, Stored
      <4>2. got[w].version <= seen[o].version /\ seen[o].version <= crd[o].version
        BY <3>1, <3>3, Zenon DEF CacheInv, Behind
      <4> QED
        BY <2>a, <3>1, <4>1, <4>2
    <3> QED
      BY <3>1, <3>3, <3>4, SMTT(40) DEF CacheInv, Behind
  <2>3. ASSUME NEW w \in Threads, AddCRD(w) PROVE FALSE
    <3>1. got[w].version > 0 /\ got[w].version \in Nat
      BY <2>3, SMTT(40) DEF AddCRD, CacheInv, Behind, Inside, TypeOK, CRDs, Versions
    <3> QED
      BY <2>3, <2>a, <2>b, <3>1, SMTT(40) DEF AddCRD
  <2>4. CASE ~RestartOperator /\ \A w \in Threads : ~Finalize(w) /\ ~AddCRD(w)
    <3>1. UNCHANGED directory
      BY <2>4, ZenonT(40) DEF vars, Next, Edit, Delete, Sync, Reconcile, Take, LockGet,
         NotFound, AddFinalizer,
                  WatchFails, RemoveFinalizer, Fetch, Tick, Receive, FetchFails, Swap, List, Fill,
                  RestartResolver
    <3> QED
      BY <2>a, <3>1, Zenon
  <2> QED
    BY <2>1, <2>2, <2>3, <2>4, Zenon
<1> QED
  BY <1>1, CacheInvHolds, PTL DEF Spec, LiveKeepsEntry
=============================================================================
