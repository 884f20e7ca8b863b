-------------------------- MODULE ModeSwitchProofs --------------------------
(***************************************************************************)
(* Proofs about the controller, for any addresses of the resolver and any  *)
(* number of changes, failures and restarts.                               *)
(***************************************************************************)
EXTENDS ModeSwitch, TLAPS

(* The API server keeps the object as long as it has the finalizer. *)
HasFinalizer == es.state \in {"finalized", "deleting"}

(* Why an ElastiService that is gone is forgotten.  The operator works for *)
(* it only under the finalizer, which Reconcile alone takes away and only  *)
(* after it has stopped the informers and cleared the directory.  The      *)
(* cache, which may be behind, never shows the object live with its        *)
(* finalizer once the finalizer has been removed, because Reconcile        *)
(* removes it with an Update of a copy the cache showed being deleted.     *)
FinalizerInv ==
  /\ Live => cache.es.state \in {"created", "finalized"}
  /\ cache.es.state = "finalized" => HasFinalizer
  /\ directory # "absent" \/ watching => HasFinalizer
  /\ pc["C"] \in {"watch", "directory"} => HasFinalizer
  /\ pc["C"] = "addFinalizer" => crd.state = "created"
  /\ pc["C"] \in {"join", "removeFinalizer"} =>
       crd.state = "deleting" /\ cache.es.state \in {"deleting", "gone"}
  /\ pc["I"] = "done" => ~watching
  /\ \A f \in Finalizer : pc[f] # "idle" => pc["C"] = "join"
  /\ pc["I"] \in {"idle", "stop", "done"}
  /\ pc["C"] = "join" => pc["I"] # "idle"
  /\ pc["C"] = "removeFinalizer" => directory = "absent" /\ ~watching

(* Why a service pointed at the resolver has its private service as long   *)
(* as no API call fails.  Every trace of proxy mode, in the status, in its *)
(* copies and in the handlers, was left after the private service was      *)
(* found or created, and only the finalizer deletes it.                    *)
ProxyTraces ==
  \/ slice # NoIPs
  \/ "proxy" \in {es.mode, cache.es.mode, crd.mode, directory}
  \/ pc["R"] # "idle"
  \/ pc["T"] \in {"ips", "sliceGet", "sliceUpdate", "sliceCreate"}
  \/ pc["T"] = "status" /\ tmode = "proxy"
  \/ cache.pvt

PrivateInv ==
  faults = MaxFaults =>
    /\ Live /\ ProxyTraces => pvt
    /\ pc["T"] \in {"delGet", "delete"} => tmode = "serve"

-----------------------------------------------------------------------------
(* The actions of Next, one by one. *)
Actions ==
  \/ handleScaleTargetRefChanges \/ SwitchMode \/ PrivateServiceGet \/ PrivateServiceCreate
  \/ updateCRDStatus
  \/ \E h \in Handlers : getIPsForResolver(h) \/ SliceGet(h) \/ SliceWrite(h) \/ Resync(h)
  \/ \E t \in {"T", "S", "P"} : DeleteGet(t)
  \/ \E t \in {"T", "S"} : DeleteSlice(t)
  \/ handleResolverChanges
  \/ Reconcile \/ addCRDFinalizer \/ watchScaleTargetRef \/ AddCRD
  \/ finalizeCRD \/ removeFinalizer \/ StopForCRD \/ deletePrivateService
  \/ \E k \in DOMAIN cache : CacheSync(k)
  \/ GarbageCollect \/ TargetChanges \/ ResolverPodsChange \/ Delete \/ Restart

(* Next takes no step that is not one of them. *)
LEMMA NextIsActions == Next => Actions
<1> SUFFICES ASSUME Next PROVE Actions
  BY Zenon
<1>1. CASE Target
  BY <1>1, "T" \in Handlers, Zenon DEF Target, Actions, Handlers
<1>2. CASE Resolver
  BY <1>2, "R" \in Handlers, Zenon DEF Resolver, Actions, Handlers
<1>3. CASE Reconciler
  BY <1>3, Zenon DEF Reconciler, Actions
<1>4. CASE StopForCRD \/ DeleteSliceBranch \/ PrivateBranch \/ Environment
  BY <1>4, Zenon DEF DeleteSliceBranch, PrivateBranch, Environment, Actions
<1>5. CASE GarbageCollect
              \/ (\E h \in Handlers : Resync(h))
              \/ (\E k \in DOMAIN cache : CacheSync(k))
  BY <1>5, Zenon DEF Actions
<1> QED
  BY <1>1, <1>2, <1>3, <1>4, <1>5, Zenon DEF Next

(* The type invariant holds initially. *)
LEMMA TypeInit == Init => TypeOK
<1> SUFFICES ASSUME Init PROVE TypeOK
  BY Zenon
<1>1. es \in ElastiServices /\ crd \in ElastiServices
  BY Zenon DEF Init, ElastiServices, Modes, NoMode, NoCRD
<1>2. pvt \in BOOLEAN /\ ready \in BOOLEAN /\ watching \in BOOLEAN
  BY Zenon DEF Init
<1>3. cache \in [es : ElastiServices, slice : BOOLEAN, pvt : BOOLEAN, ready : BOOLEAN,
                ips : IPs \cup {NoIPs}]
  BY <1>1, <1>2, Zenon DEF Init
<1>4. changes \in 0 .. MaxChanges /\ faults \in 0 .. MaxFaults /\ restarts \in 0 .. MaxRestarts
  BY ModeSwitchAssumption DEF Init
<1>5. /\ pc \in [Threads -> Labels] /\ found \in [Handlers -> IPs \cup {NoIPs}]
      /\ \A h \in Handlers : pc[h] = "idle"
  BY Zenon DEF Init, Threads, Handlers, Labels
<1>6. /\ slice \in IPs \cup {NoIPs} /\ ips \in IPs \cup {NoIPs}
      /\ directory \in Modes \cup {"absent"} /\ event \subseteq {"T", "R", "C"} /\ tmode \in Modes
  BY SMTT(40) DEF Init, Modes, NoMode
<1> QED
  BY <1>1, <1>2, <1>3, <1>4, <1>5, <1>6, Zenon DEF TypeOK

(* A cache that catches up shows each thing as it did or as it is now, and *)
(* changes nothing else.                                                   *)
LEMMA CacheSyncFields ==
  ASSUME TypeOK, NEW k \in DOMAIN cache, CacheSync(k)
  PROVE  /\ cache'.es \in {cache.es, es} /\ cache'.pvt \in {cache.pvt, pvt}
         /\ UNCHANGED <<cluster, watching, directory, pc, tmode, found, crd, budget>>
<1>1. k \in {"es", "slice", "pvt", "ready", "ips"}
  BY Zenon DEF TypeOK
<1>2. CASE k = "es"
  BY <1>2, Zenon DEF CacheSync, TypeOK
<1>3. CASE k = "pvt"
  <2>1. cache' = [cache EXCEPT !.pvt = pvt]
    BY <1>3, Zenon DEF CacheSync
  <2>2. cache'.es = cache.es /\ cache'.pvt = pvt
    BY <2>1, Zenon DEF TypeOK
  <2>3. UNCHANGED <<cluster, watching, directory, pc, tmode, found, crd, budget>>
    BY Zenon DEF CacheSync
  <2> QED
    BY <2>2, <2>3, Zenon
<1>4. CASE k \in {"slice", "ready", "ips"}
  BY <1>4, Zenon DEF CacheSync, TypeOK
<1> QED
  BY <1>1, <1>2, <1>3, <1>4, Zenon

(* Every step preserves the types, and the EndpointSlice is written only   *)
(* with addresses getIPsForResolver has returned.                          *)
LEMMA TypeNext == TypeOK /\ [Next]_vars => TypeOK'
<1> SUFFICES ASSUME TypeOK, [Next]_vars PROVE TypeOK'
  BY Zenon
<1> USE ModeSwitchAssumption
    DEF TypeOK, ElastiServices, NoCRD, Modes, Threads, Handlers, Finalizer, Labels, NoMode,
        cluster, memory, budget, Goto, At, Call, Requeue, Return
<1>0. CASE UNCHANGED vars
  BY <1>0 DEF vars
<1>1. CASE handleScaleTargetRefChanges
  BY <1>1 DEF handleScaleTargetRefChanges
<1>2. CASE SwitchMode
  BY <1>2 DEF SwitchMode
<1>3. CASE PrivateServiceGet
  BY <1>3 DEF PrivateServiceGet
<1>4. CASE PrivateServiceCreate
  BY <1>4 DEF PrivateServiceCreate
<1>5. CASE updateCRDStatus
  BY <1>5 DEF updateCRDStatus
<1>6. CASE handleResolverChanges
  BY <1>6 DEF handleResolverChanges
<1>7. CASE Reconcile
  BY <1>7 DEF Reconcile
<1>8. CASE addCRDFinalizer
  <2>1. es' \in ElastiServices /\ crd' \in ElastiServices
    BY <1>8 DEF addCRDFinalizer
  <2> QED
    BY <1>8, <2>1 DEF addCRDFinalizer
<1>9. CASE watchScaleTargetRef
  <2>1. watching' \in BOOLEAN
    BY <1>9, Zenon DEF watchScaleTargetRef
  <2>2. crd' \in {crd, NoCRD}
    BY <1>9, Zenon DEF watchScaleTargetRef
  <2>3. pc' \in [Threads -> Labels] /\ \A h \in Handlers : pc'[h] = pc[h]
    BY <1>9 DEF watchScaleTargetRef
  <2>4. event' = event \/ event' = event \cup {"C"}
    BY <1>9, Zenon DEF watchScaleTargetRef
  <2>5. faults' \in 0 .. MaxFaults
    BY <1>9 DEF watchScaleTargetRef
  <2>6. UNCHANGED <<cluster, cache, directory, tmode, found, changes, restarts>>
    BY <1>9, Zenon DEF watchScaleTargetRef
  <2>7. event' \subseteq {"T", "R", "C"}
    BY <2>4, ZenonT(40)
  <2>8. crd' \in ElastiServices
    <3>1. NoCRD \in ElastiServices
      BY Zenon
    <3> QED
      BY <2>2, <3>1, Zenon
  <2> QED
    BY <2>1, <2>3, <2>5, <2>6, <2>7, <2>8
<1>10. CASE AddCRD
  BY <1>10 DEF AddCRD
<1>11. CASE finalizeCRD
  <2>1. crd' \in ElastiServices
    BY <1>11, Zenon DEF finalizeCRD
  <2>2. pc' \in [Threads -> Labels] /\ \A h \in Handlers : pc'[h] = pc[h]
    BY <1>11, Zenon DEF finalizeCRD
  <2>3. event' \subseteq {"T", "R", "C"} /\ directory' = "absent"
    BY <1>11, ZenonT(40) DEF finalizeCRD
  <2>4. UNCHANGED <<cluster, cache, watching, tmode, found, budget>>
    BY <1>11, Zenon DEF finalizeCRD
  <2> QED
    BY <2>1, <2>2, <2>3, <2>4
<1>12. CASE removeFinalizer
  <2>1. es' \in ElastiServices /\ crd' \in ElastiServices
    BY <1>12 DEF removeFinalizer
  <2> QED
    BY <1>12, <2>1 DEF removeFinalizer
<1>13. CASE StopForCRD
  <2>1. watching' \in BOOLEAN
    BY <1>13, Zenon DEF StopForCRD
  <2> QED
    BY <1>13, <2>1 DEF StopForCRD
<1>14. CASE deletePrivateService
  BY <1>14 DEF deletePrivateService, AfterDelete
<1>15. CASE GarbageCollect
  <2>1. pvt' \in BOOLEAN
    BY <1>15, Zenon DEF GarbageCollect
  <2> QED
    BY <1>15, <2>1 DEF GarbageCollect
<1>16. CASE TargetChanges
  BY <1>16 DEF TargetChanges
<1>17. CASE ResolverPodsChange
  BY <1>17 DEF ResolverPodsChange
<1>18. CASE Delete
  BY <1>18 DEF Delete
<1>19. CASE Restart
  <2>1. watching' \in BOOLEAN /\ cache' \in [es : ElastiServices, slice : BOOLEAN, pvt : BOOLEAN,
                                            ready : BOOLEAN, ips : IPs \cup {NoIPs}]
    BY <1>19, Zenon DEF Restart
  <2> QED
    BY <1>19, <2>1 DEF Restart
<1>20. ASSUME NEW h \in Handlers, getIPsForResolver(h) PROVE TypeOK'
  BY <1>20 DEF getIPsForResolver, AfterWrite
<1>21. ASSUME NEW h \in Handlers, SliceGet(h) PROVE TypeOK'
  BY <1>21 DEF SliceGet
<1>22. ASSUME NEW h \in Handlers, SliceWrite(h) PROVE TypeOK'
  BY <1>22 DEF SliceWrite, AfterWrite
<1>23. ASSUME NEW h \in Handlers, Resync(h) PROVE TypeOK'
  BY <1>23 DEF Resync
<1>24. ASSUME NEW t \in {"T", "S", "P"}, DeleteGet(t) PROVE TypeOK'
  BY <1>24 DEF DeleteGet, AfterDelete
<1>25. ASSUME NEW t \in {"T", "S"}, DeleteSlice(t) PROVE TypeOK'
  BY <1>25 DEF DeleteSlice, AfterDelete
<1>26. ASSUME NEW k \in DOMAIN cache, CacheSync(k) PROVE TypeOK'
  <2>1. cache' \in [es : ElastiServices, slice : BOOLEAN, pvt : BOOLEAN,
                   ready : BOOLEAN, ips : IPs \cup {NoIPs}]
    <3>1. k \in {"es", "slice", "pvt", "ready", "ips"}
      BY Zenon
    <3>2. CASE k = "es"
      BY <1>26, <3>2, Zenon DEF CacheSync
    <3>3. CASE k = "slice"
      BY <1>26, <3>3, ZenonT(40) DEF CacheSync
    <3>4. CASE k = "pvt"
      BY <1>26, <3>4, Zenon DEF CacheSync
    <3>5. CASE k = "ready"
      BY <1>26, <3>5, Zenon DEF CacheSync
    <3>6. CASE k = "ips"
      BY <1>26, <3>6, Zenon DEF CacheSync
    <3> QED
      BY <3>1, <3>2, <3>3, <3>4, <3>5, <3>6, Zenon
  <2> QED
    BY <1>26, <2>1 DEF CacheSync
<1> QED
  BY NextIsActions, <1>0, <1>1, <1>2, <1>3, <1>4, <1>5, <1>6, <1>7, <1>8, <1>9, <1>10, <1>11,
     <1>12, <1>13, <1>14, <1>15, <1>16, <1>17, <1>18, <1>19, <1>20, <1>21, <1>22, <1>23,
     <1>24, <1>25, <1>26, ZenonT(40) DEF Actions

(* The type invariant holds in every reachable state. *)
THEOREM ControllerTypeCorrect == Spec => []TypeOK
BY TypeInit, TypeNext, PTL DEF Spec

-----------------------------------------------------------------------------
(* Nothing is finalized, watched or in the directory at the start. *)
LEMMA FinalizerInit == Init => FinalizerInv
BY DEF Init, FinalizerInv, HasFinalizer, Live, Threads, Handlers, Finalizer, NoCRD

(* No step, of the reconciler, of a handler, of the cache or a restart,    *)
(* separates the operator's memory from the finalizer.                     *)
LEMMA FinalizerNext == TypeOK /\ FinalizerInv /\ [Next]_vars => FinalizerInv'
<1> SUFFICES ASSUME TypeOK, FinalizerInv, [Next]_vars PROVE FinalizerInv'
  BY Zenon
<1> USE DEF TypeOK, FinalizerInv, HasFinalizer, Live, ElastiServices, NoCRD, Threads, Handlers,
        Finalizer, cluster, memory, budget, Goto, At, Requeue, Return
<1>0. CASE UNCHANGED vars
  BY <1>0 DEF vars
<1>1. CASE handleScaleTargetRefChanges
  BY <1>1 DEF handleScaleTargetRefChanges
<1>2. CASE SwitchMode
  BY <1>2 DEF SwitchMode
<1>3. CASE PrivateServiceGet
  BY <1>3 DEF PrivateServiceGet
<1>4. CASE PrivateServiceCreate
  BY <1>4 DEF PrivateServiceCreate
<1>5. CASE updateCRDStatus
  BY <1>5 DEF updateCRDStatus
<1>6. CASE handleResolverChanges
  BY <1>6 DEF handleResolverChanges
<1>7. CASE Reconcile
  BY <1>7 DEF Reconcile
<1>8. CASE addCRDFinalizer
  BY <1>8 DEF addCRDFinalizer
<1>9. CASE watchScaleTargetRef
  BY <1>9 DEF watchScaleTargetRef
<1>10. CASE AddCRD
  BY <1>10 DEF AddCRD
<1>11. CASE finalizeCRD
  BY <1>11 DEF finalizeCRD
<1>12. CASE removeFinalizer
  BY <1>12 DEF removeFinalizer
<1>13. CASE StopForCRD
  BY <1>13, Zenon DEF StopForCRD
<1>14. CASE deletePrivateService
  BY <1>14 DEF deletePrivateService, AfterDelete
<1>15. CASE GarbageCollect
  BY <1>15, Zenon DEF GarbageCollect
<1>16. CASE TargetChanges
  BY <1>16, Zenon DEF TargetChanges
<1>17. CASE ResolverPodsChange
  BY <1>17, Zenon DEF ResolverPodsChange
<1>18. CASE Delete
  BY <1>18, Zenon DEF Delete
<1>19. CASE Restart
  BY <1>19, Zenon DEF Restart
<1>20. ASSUME NEW h \in Handlers, getIPsForResolver(h) PROVE FinalizerInv'
  BY <1>20 DEF getIPsForResolver, AfterWrite
<1>21. ASSUME NEW h \in Handlers, SliceGet(h) PROVE FinalizerInv'
  BY <1>21 DEF SliceGet
<1>22. ASSUME NEW h \in Handlers, SliceWrite(h) PROVE FinalizerInv'
  BY <1>22 DEF SliceWrite, AfterWrite
<1>23. ASSUME NEW h \in Handlers, Resync(h) PROVE FinalizerInv'
  BY <1>23 DEF Resync
<1>24. ASSUME NEW t \in {"T", "S", "P"}, DeleteGet(t) PROVE FinalizerInv'
  BY <1>24 DEF DeleteGet, AfterDelete
<1>25. ASSUME NEW t \in {"T", "S"}, DeleteSlice(t) PROVE FinalizerInv'
  BY <1>25 DEF DeleteSlice, AfterDelete
<1>26. ASSUME NEW k \in DOMAIN cache, CacheSync(k) PROVE FinalizerInv'
  <2>1. /\ cache'.es \in {cache.es, es}
        /\ UNCHANGED <<es, watching, directory, pc, crd>>
    BY <1>26, CacheSyncFields, Zenon DEF cluster
  <2> QED
    BY <2>1
<1> HIDE DEF TypeOK, FinalizerInv, HasFinalizer, Live, ElastiServices, NoCRD, Threads, Handlers,
        Finalizer, cluster, memory, budget, Goto, At, Requeue, Return
<1> QED
  BY NextIsActions, <1>0, <1>1, <1>2, <1>3, <1>4, <1>5, <1>6, <1>7, <1>8, <1>9, <1>10, <1>11,
     <1>12, <1>13, <1>14, <1>15, <1>16, <1>17, <1>18, <1>19, <1>20, <1>21, <1>22, <1>23,
     <1>24, <1>25, <1>26, ZenonT(40) DEF Actions

(* The invariant of the finalizer holds in every reachable state. *)
LEMMA FinalizerHolds == Spec => [](TypeOK /\ FinalizerInv)
BY TypeInit, TypeNext, FinalizerInit, FinalizerNext, PTL DEF Spec

(* An ElastiService that is gone from the cluster is neither in the        *)
(* directory nor watched, wherever the caches are and whenever the         *)
(* operator is restarted.                                                  *)
THEOREM ControllerForgets == Spec => []GoneIsForgotten
<1>1. TypeOK /\ FinalizerInv => GoneIsForgotten
  BY Zenon DEF TypeOK, FinalizerInv, HasFinalizer, GoneIsForgotten
<1> QED
  BY <1>1, FinalizerHolds, PTL

-----------------------------------------------------------------------------
(* There is no trace of proxy mode at the start. *)
LEMMA PrivateInit == Init => PrivateInv
BY DEF Init, PrivateInv, ProxyTraces, Threads, Handlers, NoCRD, NoMode

(* A failed API call is not undone.                                        *)
LEMMA FaultsFall == TypeOK /\ [Next]_vars => faults' <= faults
<1> SUFFICES ASSUME TypeOK, [Next]_vars PROVE faults' <= faults
  BY Zenon
<1> faults \in Nat
  BY ModeSwitchAssumption DEF TypeOK
<1> USE DEF budget, Call
<1>0. CASE UNCHANGED vars
  BY <1>0 DEF vars
<1>1. CASE handleScaleTargetRefChanges
  BY <1>1 DEF handleScaleTargetRefChanges
<1>2. CASE SwitchMode
  BY <1>2 DEF SwitchMode
<1>3. CASE PrivateServiceGet
  BY <1>3 DEF PrivateServiceGet
<1>4. CASE PrivateServiceCreate
  BY <1>4 DEF PrivateServiceCreate
<1>5. CASE updateCRDStatus
  BY <1>5 DEF updateCRDStatus
<1>6. CASE handleResolverChanges
  BY <1>6 DEF handleResolverChanges
<1>7. CASE Reconcile
  BY <1>7 DEF Reconcile
<1>8. CASE addCRDFinalizer
  BY <1>8 DEF addCRDFinalizer
<1>9. CASE watchScaleTargetRef
  BY <1>9 DEF watchScaleTargetRef
<1>10. CASE AddCRD
  BY <1>10 DEF AddCRD
<1>11. CASE finalizeCRD
  BY <1>11 DEF finalizeCRD
<1>12. CASE removeFinalizer
  BY <1>12 DEF removeFinalizer
<1>13. CASE StopForCRD
  BY <1>13 DEF StopForCRD
<1>14. CASE deletePrivateService
  BY <1>14 DEF deletePrivateService, AfterDelete
<1>15. CASE GarbageCollect
  BY <1>15 DEF GarbageCollect
<1>16. CASE TargetChanges
  BY <1>16 DEF TargetChanges
<1>17. CASE ResolverPodsChange
  BY <1>17 DEF ResolverPodsChange
<1>18. CASE Delete
  BY <1>18 DEF Delete
<1>19. CASE Restart
  BY <1>19 DEF Restart
<1>20. ASSUME NEW h \in Handlers, getIPsForResolver(h) PROVE faults' <= faults
  BY <1>20 DEF getIPsForResolver, AfterWrite
<1>21. ASSUME NEW h \in Handlers, SliceGet(h) PROVE faults' <= faults
  BY <1>21 DEF SliceGet
<1>22. ASSUME NEW h \in Handlers, SliceWrite(h) PROVE faults' <= faults
  BY <1>22 DEF SliceWrite, AfterWrite
<1>23. ASSUME NEW h \in Handlers, Resync(h) PROVE faults' <= faults
  BY <1>23 DEF Resync
<1>24. ASSUME NEW t \in {"T", "S", "P"}, DeleteGet(t) PROVE faults' <= faults
  BY <1>24 DEF DeleteGet, AfterDelete
<1>25. ASSUME NEW t \in {"T", "S"}, DeleteSlice(t) PROVE faults' <= faults
  BY <1>25 DEF DeleteSlice, AfterDelete
<1>26. ASSUME NEW k \in DOMAIN cache, CacheSync(k) PROVE faults' <= faults
  BY <1>26, SMTT(40) DEF CacheSync
<1> QED
  BY NextIsActions, <1>0, <1>1, <1>2, <1>3, <1>4, <1>5, <1>6, <1>7, <1>8, <1>9, <1>10, <1>11,
     <1>12, <1>13, <1>14, <1>15, <1>16, <1>17, <1>18, <1>19, <1>20, <1>21, <1>22, <1>23,
     <1>24, <1>25, <1>26, Zenon DEF Actions

(* No step leaves a trace of proxy mode without the private service.       *)
LEMMA PrivateNext == TypeOK /\ FinalizerInv /\ PrivateInv /\ [Next]_vars => PrivateInv'
<1> SUFFICES ASSUME TypeOK, FinalizerInv, PrivateInv, [Next]_vars, faults' = MaxFaults
             PROVE  PrivateInv'
  BY Zenon DEF PrivateInv
<1> faults = MaxFaults
  BY FaultsFall, ModeSwitchAssumption DEF TypeOK
<1> USE DEF TypeOK, FinalizerInv, HasFinalizer, Live, PrivateInv, ProxyTraces, ElastiServices,
        Modes, NoMode, NoCRD, Threads, Handlers, Finalizer, cluster, memory, budget, Goto, At,
        Call, Requeue, Return
<1>0. CASE UNCHANGED vars
  BY <1>0 DEF vars
<1>1. CASE handleScaleTargetRefChanges
  BY <1>1 DEF handleScaleTargetRefChanges
<1>2. CASE SwitchMode
  BY <1>2 DEF SwitchMode
<1>3. CASE PrivateServiceGet
  BY <1>3 DEF PrivateServiceGet
<1>4. CASE PrivateServiceCreate
  <2>1. pvt'
    <3>1. PICK ok \in BOOLEAN : Call(ok) /\ pvt' = (pvt \/ (ok /\ ~pvt))
      BY <1>4, Zenon DEF PrivateServiceCreate
    <3>2. ok
      BY <3>1
    <3> QED
      BY <3>1, <3>2, Zenon
  <2>2. pc'["T"] \in {"ips", "status"}
    BY <1>4 DEF PrivateServiceCreate
  <2> QED
    BY <2>1, <2>2, Zenon
<1>5. CASE updateCRDStatus
  BY <1>5 DEF updateCRDStatus
<1>6. CASE handleResolverChanges
  BY <1>6 DEF handleResolverChanges
<1>7. CASE Reconcile
  BY <1>7 DEF Reconcile
<1>8. CASE addCRDFinalizer
  BY <1>8 DEF addCRDFinalizer
<1>9. CASE watchScaleTargetRef
  BY <1>9 DEF watchScaleTargetRef
<1>10. CASE AddCRD
  BY <1>10, Zenon DEF AddCRD
<1>11. CASE finalizeCRD
  BY <1>11, Zenon DEF finalizeCRD
<1>12. CASE removeFinalizer
  BY <1>12 DEF removeFinalizer
<1>13. CASE StopForCRD
  BY <1>13, Zenon DEF StopForCRD
<1>14. CASE deletePrivateService
  BY <1>14, Zenon DEF deletePrivateService, AfterDelete
<1>15. CASE GarbageCollect
  BY <1>15, Zenon DEF GarbageCollect
<1>16. CASE TargetChanges
  BY <1>16 DEF TargetChanges
<1>17. CASE ResolverPodsChange
  BY <1>17, Zenon DEF ResolverPodsChange
<1>18. CASE Delete
  BY <1>18, Zenon DEF Delete
<1>19. CASE Restart
  BY <1>19, Zenon DEF Restart
<1>20. ASSUME NEW h \in Handlers, getIPsForResolver(h) PROVE PrivateInv'
  BY <1>20 DEF getIPsForResolver, AfterWrite
<1>21. ASSUME NEW h \in Handlers, SliceGet(h) PROVE PrivateInv'
  BY <1>21 DEF SliceGet
<1>22. ASSUME NEW h \in Handlers, SliceWrite(h) PROVE PrivateInv'
  BY <1>22 DEF SliceWrite, AfterWrite
<1>23. ASSUME NEW h \in Handlers, Resync(h) PROVE PrivateInv'
  BY <1>23 DEF Resync
<1>24. ASSUME NEW t \in {"T", "S", "P"}, DeleteGet(t) PROVE PrivateInv'
  BY <1>24 DEF DeleteGet, AfterDelete
<1>25. ASSUME NEW t \in {"T", "S"}, DeleteSlice(t) PROVE PrivateInv'
  BY <1>25, SMTT(40) DEF DeleteSlice, AfterDelete
<1>26. ASSUME NEW k \in DOMAIN cache, CacheSync(k) PROVE PrivateInv'
  <2>1. /\ cache'.es \in {cache.es, es} /\ cache'.pvt \in {cache.pvt, pvt}
        /\ UNCHANGED <<es, slice, pvt, directory, pc, tmode, crd, faults>>
    BY <1>26, CacheSyncFields, Zenon DEF cluster, budget
  <2> QED
    BY <2>1
<1> HIDE DEF TypeOK, FinalizerInv, HasFinalizer, Live, PrivateInv, ProxyTraces, ElastiServices,
        Modes, NoMode, NoCRD, Threads, Handlers, Finalizer, cluster, memory, budget, Goto, At,
        Call, Requeue, Return
<1> QED
  BY NextIsActions, <1>0, <1>1, <1>2, <1>3, <1>4, <1>5, <1>6, <1>7, <1>8, <1>9, <1>10, <1>11,
     <1>12, <1>13, <1>14, <1>15, <1>16, <1>17, <1>18, <1>19, <1>20, <1>21, <1>22, <1>23,
     <1>24, <1>25, <1>26, ZenonT(40) DEF Actions

(* Until an API call fails, a public service that is pointed at the        *)
(* resolver has its private service, however the handlers interleave and   *)
(* wherever the operator is restarted.                                     *)
THEOREM ControllerKeepsPrivateService == Spec => []SliceHasPrivateService
<1>1. PrivateInv => SliceHasPrivateService
  BY Zenon DEF PrivateInv, ProxyTraces, SliceHasPrivateService
<1> QED
  BY <1>1, PrivateInit, PrivateNext, FinalizerHolds, PTL DEF Spec
=============================================================================
