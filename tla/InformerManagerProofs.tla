------------------------- MODULE InformerManagerProofs -------------------------
(***************************************************************************)
(* Proofs about the informers of one ElastiService, for any scale targets, *)
(* services and informers: one informer per key, none unseen, and none of  *)
(* a scale target closed twice.                                            *)
(***************************************************************************)
EXTENDS InformerManagerLemmas

(* A running informer does not drop out of the map. *)
LEMMA RegisteredNext ==
  Types /\ Roles /\ Starts /\ Stops /\ Registered /\ [Next]_vars => Registered'
<1> SUFFICES ASSUME Types, Roles, Starts, Stops, Registered, [Next]_vars PROVE Registered'
  BY Zenon
<1> USE DEF cluster, manager, local, Starting, Stopping, KeyOf
<1> USE Names
<1>0. CASE UNCHANGED <<informers, watch, pc, key, id>>
  BY <1>0, SMTT(40) DEF Types, Roles, Registered
<1>20. CASE \/ UNCHANGED vars \/ EditSpec \/ Delete \/ Recreate
           \/ EditService \/ TargetChanges \/ GarbageCollect
           \/ \E s \in Services : PublicHandler(s)
  BY <1>0, <1>20, SMTT(40) DEF vars, EditSpec, Delete, Recreate, EditService, TargetChanges,
     Edit,
                   GarbageCollect, PublicHandler, handlePublicServiceChanges, UpdatePrivateService
<1>1. ASSUME NEW t \in {"C"} \cup Keys, StopLoad(t) PROVE Registered'
  BY <1>1, SMTT(40) DEF StopLoad, Goto, AfterStop, Types, Roles, Registered
<1>2. ASSUME NEW t \in {"C"} \cup Keys, StopClose(t) PROVE Registered'
  BY <1>2, SMTT(40) DEF StopClose, Close, Goto, Types, Roles, Registered
<1>3. ASSUME NEW t \in {"C"} \cup Keys, StopDelete(t) PROVE Registered'
  BY <1>3, SMTT(40) DEF StopDelete, Goto, AfterStop, Types, Roles, Registered, Starts,
     StartInv, Stops, StopInv
<1>4. ASSUME NEW t \in Starters, Once(t) PROVE Registered'
  BY <1>4, SMTT(40) DEF Once, Goto, AfterWatch, Types, Roles, Registered
<1>5. ASSUME NEW t \in Starters, AddLoad(t) PROVE Registered'
  BY <1>5, SMTT(40) DEF AddLoad, Goto, Started, AfterWatch, Types, Roles, Registered
<1>6. ASSUME NEW t \in Starters, verifyTargetExist(t) PROVE Registered'
  BY <1>6, SMTT(40) DEF verifyTargetExist, Goto, Failed, Call, Types, Roles, Registered
<1>7. ASSUME NEW t \in Starters, Run(t) PROVE Registered'
  <2>1. PICK i \in Unused : id' = [id EXCEPT ![t] = i] /\ watch' = [watch EXCEPT ![i] = key[t]]
    BY <1>7, RunUnused, Zenon
  <2>2. i \in Ids /\ (\A u \in Threads : id[u] # i) /\ \A k \in Keys : informers[k] # i
    BY Zenon DEF Unused
  <2>3. pc' = [pc EXCEPT ![t] = "store"] /\ UNCHANGED <<informers, key>> /\ pc[t] = "start"
    BY <1>7, Zenon DEF Run, Goto
  <2>4. ASSUME NEW j \in Ids, watch'[j] # None
        PROVE  informers'[watch'[j]] = j \/ \E u \in Starters : id'[u] = j /\ pc'[u] = "store"
    <3>1. CASE j = i
      BY <2>1, <2>2, <2>3, <3>1, Zenon DEF Types
    <3>2. CASE j # i
      <4>1. watch'[j] = watch[j]
        BY <2>1, <3>2, Zenon DEF Types
      <4>2. CASE informers[watch[j]] = j
        BY <2>3, <4>1, <4>2, Zenon
      <4>3. ASSUME NEW u \in Starters, id[u] = j, pc[u] = "store"
            PROVE  \E x \in Starters : id'[x] = j /\ pc'[x] = "store"
        <5>1. u # t
          BY <2>3, <4>3, Zenon
        <5>2. id'[u] = id[u] /\ pc'[u] = pc[u]
          BY <2>1, <2>3, <5>1, Zenon DEF Types
        <5> QED
          BY <4>3, <5>2, Zenon
      <4> QED
        BY <2>4, <4>1, <4>2, <4>3, Zenon DEF Registered
    <3> QED
      BY <3>1, <3>2, Zenon
  <2>5. ASSUME NEW k \in Keys, informers'[k] # None PROVE watch'[informers'[k]] \in {k, None}
    BY <2>1, <2>2, <2>3, <2>5 DEF Types, Registered
  <2> QED
    BY <2>4, <2>5, Zenon DEF Registered
<1>8. ASSUME NEW t \in Starters, Store(t) PROVE Registered'
  BY <1>8, SMTT(40) DEF Store, Goto, Types, Roles, Registered, Starts, StartInv
<1>9. ASSUME NEW t \in Starters, waitForSync(t) PROVE Registered'
  BY <1>9, SMTT(40) DEF waitForSync, Goto, Started, AfterWatch, Call, Types, Roles, Registered
<1>10. ASSUME NEW t \in Starters, FailClose(t) PROVE Registered'
  BY <1>10, SMTT(40) DEF FailClose, Close, Goto, Types, Roles, Registered
<1>11. ASSUME NEW t \in Starters, FailDelete(t) PROVE Registered'
  BY <1>11, SMTT(40) DEF FailDelete, Failed, Goto, Types, Roles, Registered, Starts, StartInv
<1>12. CASE Reconcile
  BY <1>12, SMTT(40) DEF Reconcile, Goto, Types, Roles, Registered
<1>13. CASE ResetTarget
  BY <1>13, SMTT(40) DEF ResetTarget, Goto, Types, Roles, Registered
<1>14. CASE AddCRD
  BY <1>14, SMTT(40) DEF AddCRD, Return, Goto, Types, Roles, Registered
<1>15. CASE FinalizeStopped
  BY <1>15, SMTT(40) DEF FinalizeStopped, Goto, Types, Roles, Registered
<1>16. CASE FinalizeCRD
  BY <1>16, SMTT(40) DEF FinalizeCRD, Return, Goto, Call, Types, Roles, Registered
<1>17. CASE SwitchMode
  BY <1>17, SMTT(40) DEF SwitchMode, Goto, Types, Roles, Registered
<1>18. CASE checkAndCreatePrivateService
  BY <1>18, SMTT(40) DEF checkAndCreatePrivateService, Goto, Call, Types, Roles, Registered
<1>19. CASE Restart
  BY <1>19, SMTT(40) DEF Restart, Types, Roles, Registered
<1> QED
  BY <1>20, <1>1, <1>2, <1>3, <1>4, <1>5, <1>6, <1>7, <1>8, <1>9, <1>10, <1>11, <1>12,
     <1>13, <1>14, <1>15, <1>16, <1>17, <1>18, <1>19, ZenonT(40)
     DEF Next, Operator, Reconciler, TargetHandler, Start, StopInformer, Environment, Starters

(* The channel of an informer of a scale target is closed by one goroutine. *)
LEMMA TargetsNext ==
  Types /\ Roles /\ Starts /\ Stops /\ Registered /\ TargetsOpen /\ [Next]_vars => TargetsOpen'
<1> SUFFICES ASSUME Types, Roles, Starts, Stops, Registered, TargetsOpen, [Next]_vars
             PROVE TargetsOpen'
  BY Zenon
<1> USE DEF cluster, manager, local, Starting, Stopping, KeyOf
<1> USE Names
<1>0. CASE UNCHANGED <<informers, watch, pc, key, id, panicked>>
  BY <1>0, SMTT(40) DEF Types, Roles, TargetsOpen
<1>20. CASE \/ UNCHANGED vars \/ EditSpec \/ Delete \/ Recreate
           \/ EditService \/ TargetChanges \/ GarbageCollect
           \/ \E s \in Services : PublicHandler(s)
  BY <1>0, <1>20, SMTT(40) DEF vars, EditSpec, Delete, Recreate, EditService, TargetChanges,
     Edit,
                   GarbageCollect, PublicHandler, handlePublicServiceChanges, UpdatePrivateService
<1>1. ASSUME NEW t \in {"C"} \cup Keys, StopLoad(t) PROVE TargetsOpen'
  BY <1>1, SMTT(40) DEF StopLoad, Goto, AfterStop, Types, Roles, TargetsOpen
<1>2. ASSUME NEW t \in {"C"} \cup Keys, StopClose(t) PROVE TargetsOpen'
  <2>1. pc[t] = "stopClose" /\ UNCHANGED <<informers, key, id>>
    BY <1>2, Zenon DEF StopClose
  <2>2. CASE watch[id[t]] = None
    <3>1. panicked' = KeyOf(t) /\ UNCHANGED <<watch, pc>>
      BY <1>2, <2>2, Zenon DEF StopClose, Close
    <3>2. KeyOf(t) \notin Refs
      BY <2>1, <2>2, Zenon DEF Roles, TargetsOpen
    <3> QED
      BY <2>1, <3>1, <3>2, Zenon DEF TargetsOpen
  <2>3. CASE watch[id[t]] # None
    <3>1. /\ id[t] \in Ids /\ watch[id[t]] = KeyOf(t) /\ KeyOf(t) \in Keys
          /\ informers[KeyOf(t)] = id[t] /\ (t = "C" => key["C"] \in Refs)
      BY <2>1, <2>3, Zenon DEF Roles, Types, Stops, StopInv
    <3>2. /\ watch' = [watch EXCEPT ![id[t]] = None] /\ pc' = [pc EXCEPT ![t] = "stopDelete"]
          /\ panicked' = panicked
      BY <1>2, <2>3, Zenon DEF StopClose, Close, Goto
    <3>3. /\ \A i \in Ids : watch'[i] = IF i = id[t] THEN None ELSE watch[i]
          /\ \A u \in Threads : pc'[u] = IF u = t THEN "stopDelete" ELSE pc[u]
      BY <3>1, <3>2, Zenon DEF Types
    <3>4. \A k \in Keys : informers[k] # None => informers[k] \in Ids
      BY Zenon DEF Types
    <3>5. ASSUME NEW k \in Refs, informers[k] # None, watch'[informers[k]] = None
          PROVE  \/ pc'["C"] \in {"stopDelete", "failDelete"} /\ key["C"] = k
                 \/ pc'[k] = "stopDelete"
      <4>1. CASE informers[k] = id[t]
        <5>1. k = KeyOf(t)
          BY <3>1, <3>5, <4>1, <2>3 DEF Registered
        <5> QED
          BY <5>1, <3>1, <3>3, <2>1, Zenon DEF Roles
      <4>2. CASE informers[k] # id[t]
        BY <4>2, <3>3, <3>4, <3>5, <2>1, Zenon DEF TargetsOpen
      <4> QED
        BY <4>1, <4>2, Zenon
    <3>6. ASSUME NEW u \in {"C"} \cup Refs, pc'[u] = "stopClose" PROVE watch'[id[u]] # None
      <4>1. u # t /\ pc[u] = "stopClose" /\ watch[id[u]] # None
        BY <3>6, <3>3, Zenon DEF TargetsOpen
      <4>2. id[u] \in Ids /\ watch[id[u]] = KeyOf(u)
        BY <4>1, Zenon DEF Stops, StopInv
      <4>3. KeyOf(u) # KeyOf(t)
        BY <4>1, <2>1, <3>1, Zenon DEF Roles
      <4> QED
        BY <4>1, <4>2, <4>3, <3>1, <3>3, Zenon
    <3>7. pc'["C"] \in {"sync", "failClose"} => watch'[id["C"]] # None
      <4> SUFFICES ASSUME pc'["C"] \in {"sync", "failClose"} PROVE watch'[id["C"]] # None
        BY Zenon
      <4>1. t # "C" /\ pc["C"] \in {"sync", "failClose"} /\ watch[id["C"]] # None
        BY <3>3, Zenon DEF TargetsOpen
      <4>2. id["C"] \in Ids /\ watch[id["C"]] = key["C"] /\ key["C"] \in Refs
        BY <4>1, Zenon DEF Starts, StartInv, Roles
      <4>3. key["C"] # KeyOf(t)
        BY <4>1, <4>2, <2>1, <3>1 DEF Roles
      <4> QED
        BY <4>1, <4>2, <4>3, <3>1, <3>3, Zenon
    <3> QED
      BY <2>1, <3>2, <3>5, <3>6, <3>7, Zenon DEF TargetsOpen
  <2> QED
    BY <2>2, <2>3, Zenon
<1>3. ASSUME NEW t \in {"C"} \cup Keys, StopDelete(t) PROVE TargetsOpen'
  BY <1>3, SMTT(40) DEF StopDelete, Goto, AfterStop, Types, Roles, TargetsOpen
<1>4. ASSUME NEW t \in Starters, Once(t) PROVE TargetsOpen'
  BY <1>4, SMTT(40) DEF Once, Goto, AfterWatch, Types, Roles, TargetsOpen
<1>5. ASSUME NEW t \in Starters, AddLoad(t) PROVE TargetsOpen'
  BY <1>5, SMTT(40) DEF AddLoad, Goto, Started, AfterWatch, Types, Roles, TargetsOpen
<1>6. ASSUME NEW t \in Starters, verifyTargetExist(t) PROVE TargetsOpen'
  BY <1>6, SMTT(40) DEF verifyTargetExist, Goto, Failed, Call, Types, Roles, TargetsOpen
<1>7. ASSUME NEW t \in Starters, Run(t) PROVE TargetsOpen'
  BY <1>7, SMTT(40) DEF Run, Goto, Types, Roles, TargetsOpen
<1>8. ASSUME NEW t \in Starters, Store(t) PROVE TargetsOpen'
  BY <1>8, SMTT(40) DEF Store, Goto, Types, Roles, TargetsOpen, Starts, StartInv
<1>9. ASSUME NEW t \in Starters, waitForSync(t) PROVE TargetsOpen'
  BY <1>9, SMTT(40) DEF waitForSync, Goto, Started, AfterWatch, Call, Types, Roles, TargetsOpen
<1>10. ASSUME NEW t \in Starters, FailClose(t) PROVE TargetsOpen'
  <2>1. pc[t] = "failClose" /\ UNCHANGED <<informers, key, id>>
    BY <1>10, Zenon DEF FailClose
  <2>2. CASE watch[id[t]] = None
    <3>1. panicked' = key[t] /\ UNCHANGED <<watch, pc>>
      BY <1>10, <2>2, Zenon DEF FailClose, Close
    <3>2. key[t] \notin Refs
      BY <2>1, <2>2, Zenon DEF Roles, TargetsOpen
    <3> QED
      BY <2>1, <3>1, <3>2, Zenon DEF TargetsOpen
  <2>3. CASE watch[id[t]] # None
    <3>1. /\ id[t] \in Ids /\ watch[id[t]] = key[t] /\ key[t] \in Keys
          /\ informers[key[t]] = id[t] /\ (t = "T" => key[t] \in Services)
      BY <2>1, <2>3, Zenon DEF Roles, Types, Starts, StartInv
    <3>2. /\ watch' = [watch EXCEPT ![id[t]] = None] /\ pc' = [pc EXCEPT ![t] = "failDelete"]
          /\ panicked' = panicked
      BY <1>10, <2>3, Zenon DEF FailClose, Close, Goto
    <3>3. /\ \A i \in Ids : watch'[i] = IF i = id[t] THEN None ELSE watch[i]
          /\ \A u \in Threads : pc'[u] = IF u = t THEN "failDelete" ELSE pc[u]
      BY <3>1, <3>2, Zenon DEF Types
    <3>4. \A k \in Keys : informers[k] # None => informers[k] \in Ids
      BY Zenon DEF Types
    <3>5. ASSUME NEW k \in Refs, informers[k] # None, watch'[informers[k]] = None
          PROVE  \/ pc'["C"] \in {"stopDelete", "failDelete"} /\ key["C"] = k
                 \/ pc'[k] = "stopDelete"
      <4>1. CASE informers[k] = id[t]
        <5>1. k = key[t]
          BY <3>1, <3>5, <4>1, <2>3 DEF Registered
        <5> QED
          BY <5>1, <3>1, <3>3, <2>1, Zenon DEF Roles
      <4>2. CASE informers[k] # id[t]
        BY <4>2, <3>3, <3>4, <3>5, <2>1, Zenon DEF TargetsOpen
      <4> QED
        BY <4>1, <4>2, Zenon
    <3>6. ASSUME NEW u \in {"C"} \cup Refs, pc'[u] = "stopClose" PROVE watch'[id[u]] # None
      <4>1. u # t /\ pc[u] = "stopClose" /\ watch[id[u]] # None
        BY <3>6, <3>3, Zenon DEF TargetsOpen
      <4>2. id[u] \in Ids /\ watch[id[u]] = KeyOf(u)
        BY <4>1, Zenon DEF Stops, StopInv
      <4>3. KeyOf(u) # key[t]
        BY <4>1, <2>1, <3>1 DEF Roles
      <4> QED
        BY <4>1, <4>2, <4>3, <3>1, <3>3, Zenon
    <3>7. pc'["C"] \in {"sync", "failClose"} => watch'[id["C"]] # None
      <4> SUFFICES ASSUME pc'["C"] \in {"sync", "failClose"} PROVE watch'[id["C"]] # None
        BY Zenon
      <4>1. t # "C" /\ pc["C"] \in {"sync", "failClose"} /\ watch[id["C"]] # None
        BY <3>3, Zenon DEF TargetsOpen
      <4>2. id["C"] \in Ids /\ watch[id["C"]] = key["C"] /\ key["C"] \in Refs
        BY <4>1, Zenon DEF Starts, StartInv, Roles
      <4>3. key["C"] # key[t]
        BY <4>1, <4>2, <2>1, <3>1 DEF Roles
      <4> QED
        BY <4>1, <4>2, <4>3, <3>1, <3>3, Zenon
    <3> QED
      BY <2>1, <3>2, <3>5, <3>6, <3>7, Zenon DEF TargetsOpen
  <2> QED
    BY <2>2, <2>3, Zenon
<1>11. ASSUME NEW t \in Starters, FailDelete(t) PROVE TargetsOpen'
  BY <1>11, SMTT(40) DEF FailDelete, Failed, Goto, Types, Roles, TargetsOpen
<1>12. CASE Reconcile
  BY <1>12, SMTT(40) DEF Reconcile, Goto, Types, Roles, TargetsOpen
<1>13. CASE ResetTarget
  BY <1>13, SMTT(40) DEF ResetTarget, Goto, Types, Roles, TargetsOpen
<1>14. CASE AddCRD
  BY <1>14, SMTT(40) DEF AddCRD, Return, Goto, Types, Roles, TargetsOpen
<1>15. CASE FinalizeStopped
  BY <1>15, SMTT(40) DEF FinalizeStopped, Goto, Types, Roles, TargetsOpen
<1>16. CASE FinalizeCRD
  BY <1>16, SMTT(40) DEF FinalizeCRD, Return, Goto, Call, Types, Roles, TargetsOpen
<1>17. CASE SwitchMode
  BY <1>17, SMTT(40) DEF SwitchMode, Goto, Types, Roles, TargetsOpen
<1>18. CASE checkAndCreatePrivateService
  BY <1>18, SMTT(40) DEF checkAndCreatePrivateService, Goto, Call, Types, Roles, TargetsOpen
<1>19. CASE Restart
  BY <1>19, SMTT(40) DEF Restart, Types, Roles, TargetsOpen
<1> QED
  BY <1>20, <1>1, <1>2, <1>3, <1>4, <1>5, <1>6, <1>7, <1>8, <1>9, <1>10, <1>11, <1>12,
     <1>13, <1>14, <1>15, <1>16, <1>17, <1>18, <1>19, ZenonT(40)
     DEF Next, Operator, Reconciler, TargetHandler, Start, StopInformer, Environment, Starters

(* No informer of a scale target is left when its ElastiService goes. *)
LEMMA FinalizedNext == Types /\ Roles /\ Finalized /\ [Next]_vars => Finalized'
<1> SUFFICES ASSUME Types, Roles, Finalized, [Next]_vars PROVE Finalized'
  BY Zenon
<1> USE DEF cluster, manager, local, Starting, Stopping, KeyOf
<1> USE Names
<1>0. CASE UNCHANGED <<es, informers, pc>>
  BY <1>0, SMTT(40) DEF Types, Roles, Finalized
<1>21. CASE EditSpec \/ Delete \/ Recreate
  BY <1>21, SMTT(40) DEF EditSpec, Delete, Recreate, Edit, Finalized, Types, ElastiServices
<1>20. CASE \/ UNCHANGED vars \/ EditService \/ TargetChanges \/ GarbageCollect
           \/ \E s \in Services : PublicHandler(s)
  BY <1>0, <1>20, SMTT(40) DEF vars, EditService, TargetChanges, Edit,
                   GarbageCollect, PublicHandler, handlePublicServiceChanges, UpdatePrivateService
<1>1. ASSUME NEW t \in {"C"} \cup Keys, StopLoad(t) PROVE Finalized'
  BY <1>1, SMTT(40) DEF StopLoad, Goto, AfterStop, Types, Roles, Finalized
<1>2. ASSUME NEW t \in {"C"} \cup Keys, StopClose(t) PROVE Finalized'
  BY <1>2, SMTT(40) DEF StopClose, Close, Goto, Types, Roles, Finalized
<1>3. ASSUME NEW t \in {"C"} \cup Keys, StopDelete(t) PROVE Finalized'
  BY <1>3, SMTT(40) DEF StopDelete, Goto, AfterStop, Types, Roles, Finalized
<1>4. ASSUME NEW t \in Starters, Once(t) PROVE Finalized'
  BY <1>4, SMTT(40) DEF Once, Goto, AfterWatch, Types, Roles, Finalized
<1>5. ASSUME NEW t \in Starters, AddLoad(t) PROVE Finalized'
  BY <1>5, SMTT(40) DEF AddLoad, Goto, Started, AfterWatch, Types, Roles, Finalized
<1>6. ASSUME NEW t \in Starters, verifyTargetExist(t) PROVE Finalized'
  BY <1>6, SMTT(40) DEF verifyTargetExist, Goto, Failed, Call, Types, Roles, Finalized
<1>7. ASSUME NEW t \in Starters, Run(t) PROVE Finalized'
  BY <1>7, SMTT(40) DEF Run, Goto, Types, Roles, Finalized
<1>8. ASSUME NEW t \in Starters, Store(t) PROVE Finalized'
  BY <1>8, SMTT(40) DEF Store, Goto, Types, Roles, Finalized
<1>9. ASSUME NEW t \in Starters, waitForSync(t) PROVE Finalized'
  BY <1>9, SMTT(40) DEF waitForSync, Goto, Started, AfterWatch, Call, Types, Roles, Finalized
<1>10. ASSUME NEW t \in Starters, FailClose(t) PROVE Finalized'
  BY <1>10, SMTT(40) DEF FailClose, Close, Goto, Types, Roles, Finalized
<1>11. ASSUME NEW t \in Starters, FailDelete(t) PROVE Finalized'
  BY <1>11, SMTT(40) DEF FailDelete, Failed, Goto, Types, Roles, Finalized
<1>12. CASE Reconcile
  BY <1>12, SMTT(40) DEF Reconcile, Goto, Types, Roles, Finalized
<1>13. CASE ResetTarget
  BY <1>13, SMTT(40) DEF ResetTarget, Goto, Types, Roles, Finalized
<1>14. CASE AddCRD
  BY <1>14, SMTT(40) DEF AddCRD, Return, Goto, Types, Roles, Finalized
<1>15. CASE FinalizeStopped
  BY <1>15, SMTT(40) DEF FinalizeStopped, Goto, Types, Roles, Finalized
<1>16. CASE FinalizeCRD
  BY <1>16, SMTT(40) DEF FinalizeCRD, Return, Goto, Call, Types, Roles, Finalized
<1>17. CASE SwitchMode
  BY <1>17, SMTT(40) DEF SwitchMode, Goto, Types, Roles, Finalized
<1>18. CASE checkAndCreatePrivateService
  BY <1>18, SMTT(40) DEF checkAndCreatePrivateService, Goto, Call, Types, Roles, Finalized
<1>19. CASE Restart
  BY <1>19, SMTT(40) DEF Restart, Types, Roles, Finalized
<1> QED
  BY <1>21, <1>20, <1>1, <1>2, <1>3, <1>4, <1>5, <1>6, <1>7, <1>8, <1>9, <1>10, <1>11,
     <1>12, <1>13, <1>14, <1>15, <1>16, <1>17, <1>18, <1>19, ZenonT(40)
     DEF Next, Operator, Reconciler, TargetHandler, Start, StopInformer, Environment, Starters

(* Nothing runs at first. *)
LEMMA ManagerInit == Init => ManagerInv
<1> SUFFICES ASSUME Init PROVE ManagerInv
  BY Zenon
<1> USE Names DEF Init
<1>1. Types
  BY Zenon DEF Types, Labels
<1>2. Roles /\ Starts /\ Stops
  BY Zenon DEF Roles, Starts, StartInv, Stops, StopInv, Starting, Stopping
<1>3. Registered /\ TargetsOpen /\ Finalized
  BY InformerAssumption, Zenon DEF Registered, TargetsOpen, Finalized, ElastiServices
<1> QED
  BY <1>1, <1>2, <1>3, Zenon DEF ManagerInv

(* The invariant holds in every reachable state. *)
LEMMA ManagerInvHolds == Spec => []ManagerInv
<1>1. ManagerInv /\ [Next]_vars => ManagerInv'
  BY TypesNext, RolesNext, StartsNext, StopsNext, RegisteredNext, TargetsNext, FinalizedNext, Zenon
     DEF ManagerInv
<1> QED
  BY <1>1, ManagerInit, PTL DEF Spec

-----------------------------------------------------------------------------
(* No key is watched by two informers: two that watch it are both in the   *)
(* map, or one of them is about to be stored where Add found nothing.      *)
THEOREM ManagerOnePerKey == Spec => []OneInformerPerKey
<1>1. ManagerInv => OneInformerPerKey
  <2> SUFFICES ASSUME ManagerInv, NEW i \in Ids, NEW j \in Ids, watch[i] # None, watch[i] = watch[j]
               PROVE  i = j
    BY Zenon DEF OneInformerPerKey
  <2> USE Names
  <2> DEFINE k == watch[i]
  <2>0. /\ informers[k] = i \/ \E t \in Starters : id[t] = i /\ pc[t] = "store"
        /\ informers[k] = j \/ \E t \in Starters : id[t] = j /\ pc[t] = "store"
    BY Zenon DEF ManagerInv, Registered
  <2>1. \A t \in Starters : pc[t] = "store" =>
          id[t] \in Ids /\ watch[id[t]] = key[t] /\ informers[key[t]] = None
    BY Zenon DEF ManagerInv, Starts, StartInv
  <2>2. pc["C"] = "store" /\ pc["T"] = "store" => key["C"] # key["T"]
    BY Zenon DEF ManagerInv, Roles, Starting
  <2>3. i # None /\ j # None
    BY Zenon
  <2>4. CASE informers[k] = i /\ informers[k] = j
    BY <2>4, Zenon
  <2>5. CASE informers[k] # i
    <3>1. PICK t \in Starters : id[t] = i /\ pc[t] = "store"
      BY <2>0, <2>5, Zenon
    <3>2. key[t] = k /\ informers[k] = None
      BY <2>1, <3>1, Zenon
    <3>3. PICK u \in Starters : id[u] = j /\ pc[u] = "store"
      BY <2>0, <2>3, <3>2, Zenon
    <3>4. key[u] = k
      BY <2>1, <3>3, Zenon
    <3> QED
      BY <2>2, <3>1, <3>2, <3>3, <3>4, Zenon
  <2>6. CASE informers[k] # j
    <3>1. PICK t \in Starters : id[t] = j /\ pc[t] = "store"
      BY <2>0, <2>6, Zenon
    <3>2. key[t] = k /\ informers[k] = None
      BY <2>1, <3>1
    <3> QED
      BY <2>3, <2>5, <3>2, Zenon
  <2> QED
    BY <2>4, <2>5, <2>6, Zenon
<1> QED
  BY <1>1, ManagerInvHolds, PTL

(* No informer runs unseen. *)
THEOREM ManagerSeesAll == Spec => []RunningIsRegistered
<1>1. ManagerInv => RunningIsRegistered
  BY Zenon DEF ManagerInv, Registered, RunningIsRegistered
<1> QED
  BY <1>1, ManagerInvHolds, PTL

(* The channel of a scale target's informer is never closed twice. *)
THEOREM ManagerClosesTargetsOnce == Spec => []OnlyPublicPanics
<1>1. ManagerInv => OnlyPublicPanics
  BY Zenon DEF ManagerInv, TargetsOpen, OnlyPublicPanics
<1> QED
  BY <1>1, ManagerInvHolds, PTL

(* The scale target of an ElastiService that is gone is not watched. *)
THEOREM ManagerForgetsTargets == Spec => []GoneTargetUnwatched
<1>1. ManagerInv => GoneTargetUnwatched
  <2> SUFFICES ASSUME ManagerInv, es.state = "gone", NEW i \in Ids, watch[i] \in Refs PROVE FALSE
    BY Zenon DEF GoneTargetUnwatched
  <2> USE Names
  <2>1. informers[watch[i]] = None /\ pc["C"] = "idle"
    BY Zenon DEF ManagerInv, Finalized
  <2>2. PICK t \in Starters : id[t] = i /\ pc[t] = "store"
    BY <2>1, Zenon DEF ManagerInv, Registered
  <2>3. t = "T" /\ watch[i] = key["T"] /\ key["T"] \in Services
    <3>1. t = "T" /\ pc["T"] = "store"
      BY <2>1, <2>2, Zenon
    <3> QED
      BY <2>2, <3>1, Zenon DEF ManagerInv, Starts, StartInv, Roles, Starting
  <2> QED
    BY <2>3, ZenonT(40)
<1> QED
  BY <1>1, ManagerInvHolds, PTL
=============================================================================
