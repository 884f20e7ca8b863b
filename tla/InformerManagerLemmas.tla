------------------------- MODULE InformerManagerLemmas -------------------------
(***************************************************************************)
(* The inductive invariant of InformerManager, and the lemmas about where  *)
(* its threads are and what they have found or done so far.                *)
(***************************************************************************)
EXTENDS InformerManager, TLAPS

Starting == {"once", "load", "verify", "start", "store", "sync", "failClose", "failDelete"}
Stopping == {"stopLoad", "stopClose", "stopDelete"}

(* The part of the types the proof needs. *)
Types ==
  /\ es \in ElastiServices
  /\ directory \in [Services -> Refs \cup {None}]
  /\ informers \in [Keys -> Ids \cup {None}]
  /\ watch \in [Ids -> Keys \cup {None}]
  /\ pc \in [Threads -> Labels]
  /\ key \in [Starters -> Keys \cup {None}]
  /\ id \in [Threads -> Ids \cup {None}]

(* Reconcile works on scale targets, the target handler on services, and a *)
(* goroutine of StopForCRD on its key, while Reconcile waits for it.       *)
Roles ==
  /\ pc["C"] \in Starting \cup Stopping \cup {"idle", "reset", "directory", "join", "finish"}
  /\ pc["T"] \in Starting \cup {"idle", "private"}
  /\ \A k \in Keys : pc[k] \in Stopping \cup {"idle"}
  /\ pc["C"] \in Starting \cup Stopping => key["C"] \in Refs
  /\ pc["C"] # "idle" => crd \in ElastiServices
  /\ pc["T"] \in Starting \cup {"private"} => key["T"] \in Services
  /\ \A k \in Keys : pc[k] # "idle" => pc["C"] = "join"

(* What a goroutine that starts an informer has found or done so far.      *)
StartInv(t) ==
  /\ pc[t] \in {"verify", "start", "store"} => informers[key[t]] = None
  /\ pc[t] = "store" => id[t] \in Ids /\ watch[id[t]] = key[t]
  /\ pc[t] \in {"sync", "failClose"} =>
       /\ id[t] \in Ids
       /\ \/ informers[key[t]] = id[t] /\ watch[id[t]] \in {key[t], None}
          \/ t = "T" /\ informers[key[t]] = None /\ watch[id[t]] = None
  /\ pc[t] = "failDelete" =>
       /\ id[t] \in Ids /\ informers[key[t]] = id[t] /\ watch[id[t]] = None
       /\ pc[key[t]] # "stopDelete"

(* What a goroutine that stops an informer has found or done so far.       *)
StopInv(t) ==
  /\ pc[t] = "stopClose" =>
       /\ id[t] \in Ids /\ watch[id[t]] \in {KeyOf(t), None}
       /\ watch[id[t]] # None => informers[KeyOf(t)] = id[t]
  /\ pc[t] = "stopDelete" =>
       id[t] \in Ids /\ watch[id[t]] = None /\ informers[KeyOf(t)] = id[t]

Starts == \A t \in Starters : StartInv(t)
Stops == \A t \in {"C"} \cup Keys : StopInv(t)

(* An informer that runs is in the map under what it watches, or about to  *)
(* be stored there.                                                        *)
Registered ==
  /\ \A i \in Ids : watch[i] # None =>
       informers[watch[i]] = i \/ \E t \in Starters : id[t] = i /\ pc[t] = "store"
  /\ \A k \in Keys : informers[k] # None => watch[informers[k]] \in {k, None}

(* An informer of a scale target that is in the map runs, unless the one   *)
(* goroutine that stops it has just closed its channel.                    *)
TargetsOpen ==
  /\ \A k \in Refs : informers[k] # None /\ watch[informers[k]] = None =>
       \/ pc["C"] \in {"stopDelete", "failDelete"} /\ key["C"] = k
       \/ pc[k] = "stopDelete"
  /\ \A t \in {"C"} \cup Refs : pc[t] = "stopClose" => watch[id[t]] # None
  /\ pc["C"] \in {"sync", "failClose"} => watch[id["C"]] # None
  /\ panicked \notin Refs

(* Once the goroutines of StopForCRD are done, no scale target is watched. *)
Finalized ==
  /\ pc["C"] = "join" => \A k \in Refs : pc[k] = "idle" => informers[k] = None
  /\ pc["C"] = "finish" \/ es.state = "gone" => \A k \in Refs : informers[k] = None
  /\ es.state = "gone" => pc["C"] = "idle"

(* The inductive invariant. *)
ManagerInv ==
  /\ Types /\ Roles /\ Starts /\ Stops
  /\ Registered /\ TargetsOpen /\ Finalized


(* Who is who: threads, keys and informers do not overlap. *)
LEMMA Names ==
  /\ "C" \in Starters /\ "T" \in Starters /\ \A t \in Starters : t = "C" \/ t = "T"
  /\ Starters \subseteq Threads /\ Keys \subseteq Threads /\ {"C"} \cup Keys \subseteq Threads
  /\ "C" \notin Keys /\ "T" \notin Keys
  /\ Refs \subseteq Keys /\ Services \subseteq Keys /\ Refs \cap Services = {}
  /\ None \notin Keys /\ None \notin Ids
BY InformerAssumption, Zenon DEF Starters, Threads, Keys

(* enableInformer makes a new informer. *)
LEMMA RunUnused ==
  ASSUME NEW t, Run(t)
  PROVE  \E i \in Unused : id' = [id EXCEPT ![t] = i] /\ watch' = [watch EXCEPT ![i] = key[t]]
<1>1. (CHOOSE i \in Unused : TRUE) \in Unused
  BY Zenon DEF Run
<1> QED
  BY <1>1, ZenonT(40) DEF Run

(* Every step keeps the types. *)
LEMMA TypesNext == Types /\ Roles /\ [Next]_vars => Types'
<1> SUFFICES ASSUME Types, Roles, [Next]_vars PROVE Types'
  BY Zenon
<1> USE InformerAssumption DEF cluster, manager, local
<1>a. /\ "C" \in Starters /\ "T" \in Starters
      /\ Starters \subseteq Threads /\ Keys \subseteq Threads
      /\ Refs \subseteq Keys /\ Services \subseteq Keys
      /\ {"C"} \cup Keys \subseteq Threads
  BY Zenon DEF Starters, Threads, Keys
<1>b. Labels = {"idle", "stopLoad", "stopClose", "stopDelete", "reset", "once", "load",
                "verify", "start", "store", "sync", "failClose", "failDelete", "directory",
                "join", "finish", "private"}
  BY Zenon DEF Labels
<1>c. /\ es.ref \in Refs /\ es.svc \in Services
      /\ [es EXCEPT !.state = "deleting"] \in ElastiServices
      /\ [es EXCEPT !.state = "gone"] \in ElastiServices
  BY Zenon DEF Types, ElastiServices
<1>d. pc["C"] # "idle" => crd.ref \in Refs /\ crd.svc \in Services
  BY Zenon DEF Roles, ElastiServices
<1> USE <1>a, <1>b
<1>0. CASE UNCHANGED vars
  BY <1>0, Zenon DEF vars, Types
<1>1. ASSUME NEW t \in {"C"} \cup Keys, StopLoad(t) PROVE Types'
  <2>1. informers[KeyOf(t)] \in Ids \cup {None}
    BY <1>1 DEF StopLoad, Types, Roles, Stopping, KeyOf
  <2> QED
    BY <1>1, <2>1, Zenon DEF StopLoad, Goto, AfterStop, Types
<1>2. ASSUME NEW t \in {"C"} \cup Keys, StopClose(t) PROVE Types'
  BY <1>2 DEF StopClose, Close, Goto, Types
<1>3. ASSUME NEW t \in {"C"} \cup Keys, StopDelete(t) PROVE Types'
  BY <1>3, ZenonT(40) DEF StopDelete, Goto, AfterStop, Types
<1>4. ASSUME NEW t \in Starters, Once(t) PROVE Types'
  BY <1>4, Zenon DEF Once, Goto, AfterWatch, Types
<1>5. ASSUME NEW t \in Starters, AddLoad(t) PROVE Types'
  BY <1>5 DEF AddLoad, Goto, Started, AfterWatch, Types
<1>6. ASSUME NEW t \in Starters, verifyTargetExist(t) PROVE Types'
  BY <1>6 DEF verifyTargetExist, Goto, Failed, Call, Types
<1>7. ASSUME NEW t \in Starters, Run(t) PROVE Types'
  <2>1. PICK i \in Unused : id' = [id EXCEPT ![t] = i] /\ watch' = [watch EXCEPT ![i] = key[t]]
    BY <1>7, RunUnused, Zenon
  <2>2. i \in Ids
    BY Zenon DEF Unused
  <2>3. watch' \in [Ids -> Keys \cup {None}]
    BY <2>1, <2>2, Zenon DEF Types
  <2>4. id' \in [Threads -> Ids \cup {None}]
    BY <2>1, <2>2, Zenon DEF Types
  <2> QED
    BY <1>7, <2>3, <2>4, Zenon DEF Run, Goto, Types
<1>8. ASSUME NEW t \in Starters, Store(t) PROVE Types'
  BY <1>8, ZenonT(40) DEF Store, Goto, Types
<1>9. ASSUME NEW t \in Starters, waitForSync(t) PROVE Types'
  BY <1>9 DEF waitForSync, Goto, Started, AfterWatch, Call, Types
<1>10. ASSUME NEW t \in Starters, FailClose(t) PROVE Types'
  BY <1>10 DEF FailClose, Close, Goto, Types
<1>11. ASSUME NEW t \in Starters, FailDelete(t) PROVE Types'
  BY <1>11, ZenonT(40) DEF FailDelete, Failed, Goto, Types
<1>12. CASE Reconcile
  <2>1. CASE es.state = "gone"
    BY <1>12, <2>1, Zenon DEF Reconcile, Types
  <2>2. CASE es.state = "deleting"
    <3>1. /\ pc' = [t \in Threads |-> IF t = "C" THEN "join"
                                     ELSE IF t \in Keys /\ informers[t] # None THEN "stopLoad"
                                     ELSE pc[t]]
          /\ UNCHANGED <<es, directory, manager, key, id>>
      BY <1>12, <2>2, Zenon DEF Reconcile
    <3> QED
      BY <3>1, Zenon DEF Types
  <2>3. CASE es.state = "live"
    <3>1. directory[es.svc] \in Refs \cup {None}
      BY <1>c, Zenon DEF Types
    <3>2. PICK l \in {"stopLoad", "once"}, k \in Refs :
             pc' = [pc EXCEPT !["C"] = l] /\ key' = [key EXCEPT !["C"] = k]
      BY <1>12, <1>c, <2>3, <3>1, Zenon DEF Reconcile, Goto
    <3> QED
      BY <1>12, <3>2, Zenon DEF Reconcile, Types
  <2> QED
    BY <2>1, <2>2, <2>3, Zenon DEF Types, ElastiServices
<1>13. CASE ResetTarget
  BY <1>13, <1>d, Zenon DEF ResetTarget, Goto, Types
<1>14. CASE AddCRD
  BY <1>14, <1>d, Zenon DEF AddCRD, Return, Goto, Types
<1>15. CASE FinalizeStopped
  BY <1>15, Zenon DEF FinalizeStopped, Goto, Types
<1>16. CASE FinalizeCRD
  BY <1>16, <1>c, <1>d, Zenon DEF FinalizeCRD, Return, Goto, Types
<1>17. CASE SwitchMode
  BY <1>17, <1>c DEF SwitchMode, Goto, Types
<1>18. CASE checkAndCreatePrivateService
  BY <1>18 DEF checkAndCreatePrivateService, Goto, Call, Types
<1>19. CASE EditSpec
  BY <1>19, Zenon DEF EditSpec, Edit, Types
<1>20. CASE Delete
  BY <1>20, <1>c, Zenon DEF Delete, Edit, Types
<1>21. CASE Recreate
  BY <1>21, Zenon DEF Recreate, Edit, Types
<1>22. CASE EditService
  BY <1>22, Zenon DEF EditService, Edit, Types
<1>23. CASE TargetChanges
  BY <1>23, Zenon DEF TargetChanges, Edit, Types
<1>24. CASE GarbageCollect
  BY <1>24, Zenon DEF GarbageCollect, Types
<1>25. CASE Restart
  BY <1>25, Zenon DEF Restart, Types
<1>26. ASSUME NEW s \in Services, handlePublicServiceChanges(s) PROVE Types'
  BY <1>26, Zenon DEF handlePublicServiceChanges, Types
<1>27. ASSUME NEW s \in Services, UpdatePrivateService(s) PROVE Types'
  BY <1>27, Zenon DEF UpdatePrivateService, Call, Types
<1> QED
  BY <1>0, <1>1, <1>2, <1>3, <1>4, <1>5, <1>6, <1>7, <1>8, <1>9, <1>10, <1>11, <1>12,
     <1>13, <1>14, <1>15, <1>16, <1>17, <1>18, <1>19, <1>20, <1>21, <1>22, <1>23, <1>24,
     <1>25, <1>26, <1>27, ZenonT(40)
     DEF Next, Operator, Reconciler, TargetHandler, PublicHandler, Start, StopInformer,
         Environment, Starters

(* Every goroutine keeps to its keys. *)
LEMMA RolesNext == Types /\ Roles /\ [Next]_vars => Roles'
<1> SUFFICES ASSUME Types, Roles, [Next]_vars PROVE Roles'
  BY Zenon
<1> USE InformerAssumption DEF cluster, manager, local, Starting, Stopping
<1>a. /\ "C" \in Starters /\ "T" \in Starters
      /\ Starters \subseteq Threads /\ Keys \subseteq Threads
      /\ "C" \notin Keys /\ "T" \notin Keys /\ {"C"} \cup Keys \subseteq Threads
  BY Zenon DEF Starters, Threads, Keys
<1>b. /\ pc \in [Threads -> Labels] /\ key \in [Starters -> Keys \cup {None}]
      /\ es \in ElastiServices /\ es.ref \in Refs /\ es.svc \in Services
      /\ es.state \in {"live", "deleting", "gone"}
      /\ directory[es.svc] \in Refs \cup {None}
  BY Zenon DEF Types, ElastiServices
<1>c. pc["C"] # "idle" => crd.ref \in Refs /\ crd.svc \in Services
  BY Zenon DEF Roles, ElastiServices
<1>d. \A t \in Starters : t = "C" \/ t = "T"
  BY Zenon DEF Starters
<1> USE <1>a, <1>b
<1>0. CASE UNCHANGED vars
  BY <1>0, Zenon DEF vars, Roles
<1>1. ASSUME NEW t \in {"C"} \cup Keys, StopLoad(t) PROVE Roles'
  BY <1>1, <1>c, <1>d, Zenon DEF StopLoad, Goto, AfterStop, Roles
<1>2. ASSUME NEW t \in {"C"} \cup Keys, StopClose(t) PROVE Roles'
  BY <1>2, <1>c, <1>d DEF StopClose, Close, Goto, Roles
<1>3. ASSUME NEW t \in {"C"} \cup Keys, StopDelete(t) PROVE Roles'
  BY <1>3, <1>c, <1>d, Zenon DEF StopDelete, Goto, AfterStop, Roles
<1>4. ASSUME NEW t \in Starters, Once(t) PROVE Roles'
  BY <1>4, <1>c, <1>d DEF Once, Goto, AfterWatch, Roles
<1>5. ASSUME NEW t \in Starters, AddLoad(t) PROVE Roles'
  BY <1>5, <1>c, <1>d DEF AddLoad, Goto, Started, AfterWatch, Roles
<1>6. ASSUME NEW t \in Starters, verifyTargetExist(t) PROVE Roles'
  BY <1>6, <1>c, <1>d DEF verifyTargetExist, Goto, Failed, Call, Roles
<1>7. ASSUME NEW t \in Starters, Run(t) PROVE Roles'
  BY <1>7, <1>c, <1>d DEF Run, Goto, Roles
<1>8. ASSUME NEW t \in Starters, Store(t) PROVE Roles'
  BY <1>8, <1>c, <1>d DEF Store, Goto, Roles
<1>9. ASSUME NEW t \in Starters, waitForSync(t) PROVE Roles'
  BY <1>9, <1>c, <1>d DEF waitForSync, Goto, Started, AfterWatch, Call, Roles
<1>10. ASSUME NEW t \in Starters, FailClose(t) PROVE Roles'
  BY <1>10, <1>c, <1>d DEF FailClose, Close, Goto, Roles
<1>11. ASSUME NEW t \in Starters, FailDelete(t) PROVE Roles'
  BY <1>11, <1>c, <1>d DEF FailDelete, Failed, Goto, Roles
<1>12. CASE Reconcile
  BY <1>12, <1>c, <1>d DEF Reconcile, Goto, Roles
<1>13. CASE ResetTarget
  BY <1>13, <1>c, <1>d DEF ResetTarget, Goto, Roles
<1>14. CASE AddCRD
  BY <1>14, <1>c, <1>d, Zenon DEF AddCRD, Return, Goto, Roles
<1>15. CASE FinalizeStopped
  BY <1>15, <1>c, <1>d, Zenon DEF FinalizeStopped, Goto, Roles
<1>16. CASE FinalizeCRD
  BY <1>16, <1>c, <1>d, Zenon DEF FinalizeCRD, Return, Goto, Call, Roles
<1>17. CASE SwitchMode
  BY <1>17, <1>c, <1>d DEF SwitchMode, Goto, Roles
<1>18. CASE checkAndCreatePrivateService
  BY <1>18, <1>c, <1>d DEF checkAndCreatePrivateService, Goto, Call, Roles
<1>19. CASE EditSpec
  BY <1>19, <1>c, <1>d DEF EditSpec, Edit, Roles
<1>20. CASE Delete
  BY <1>20, <1>c, <1>d DEF Delete, Edit, Roles
<1>21. CASE Recreate
  BY <1>21, <1>c, <1>d DEF Recreate, Edit, Roles
<1>22. CASE EditService
  BY <1>22, <1>c, <1>d DEF EditService, Edit, Roles
<1>23. CASE TargetChanges
  BY <1>23, <1>c, <1>d DEF TargetChanges, Edit, Roles
<1>24. CASE GarbageCollect
  BY <1>24, <1>c, <1>d DEF GarbageCollect, Roles
<1>25. CASE Restart
  BY <1>25, <1>c, <1>d, Zenon DEF Restart, Roles
<1>26. ASSUME NEW s \in Services, handlePublicServiceChanges(s) PROVE Roles'
  BY <1>26, <1>c, <1>d DEF handlePublicServiceChanges, Roles
<1>27. ASSUME NEW s \in Services, UpdatePrivateService(s) PROVE Roles'
  BY <1>27, <1>c, <1>d DEF UpdatePrivateService, Call, Roles
<1> QED
  BY <1>0, <1>1, <1>2, <1>3, <1>4, <1>5, <1>6, <1>7, <1>8, <1>9, <1>10, <1>11, <1>12,
     <1>13, <1>14, <1>15, <1>16, <1>17, <1>18, <1>19, <1>20, <1>21, <1>22, <1>23, <1>24,
     <1>25, <1>26, <1>27, ZenonT(40)
     DEF Next, Operator, Reconciler, TargetHandler, PublicHandler, Start, StopInformer,
         Environment, Starters

(* A start is not overtaken by a stop that has closed the same channel. *)
LEMMA StartsNext == Types /\ Roles /\ Starts /\ Stops /\ [Next]_vars => Starts'
<1> SUFFICES ASSUME Types, Roles, Starts, Stops, [Next]_vars PROVE Starts'
  BY Zenon
<1> USE DEF cluster, manager, local, Starting, Stopping, KeyOf
<1> USE Names
<1>0. CASE UNCHANGED <<informers, watch, pc, key, id>>
  BY <1>0, SMTT(40) DEF Types, Roles, Starts, StartInv
<1>20. CASE \/ UNCHANGED vars \/ EditSpec \/ Delete \/ Recreate
           \/ EditService \/ TargetChanges \/ GarbageCollect
           \/ \E s \in Services : PublicHandler(s)
  BY <1>0, <1>20, SMTT(40) DEF vars, EditSpec, Delete, Recreate, EditService, TargetChanges,
     Edit,
                   GarbageCollect, PublicHandler, handlePublicServiceChanges, UpdatePrivateService
<1>1. ASSUME NEW t \in {"C"} \cup Keys, StopLoad(t) PROVE Starts'
  BY <1>1, SMTT(40) DEF StopLoad, Goto, AfterStop, Types, Roles, Starts, StartInv
<1>2. ASSUME NEW t \in {"C"} \cup Keys, StopClose(t) PROVE Starts'
  BY <1>2, SMTT(40) DEF StopClose, Close, Goto, Types, Roles, Starts, StartInv, Stops, StopInv
<1>3. ASSUME NEW t \in {"C"} \cup Keys, StopDelete(t) PROVE Starts'
  BY <1>3, SMTT(40) DEF StopDelete, Goto, AfterStop, Types, Roles, Starts, StartInv, Stops,
     StopInv
<1>4. ASSUME NEW t \in Starters, Once(t) PROVE Starts'
  BY <1>4, SMTT(40) DEF Once, Goto, AfterWatch, Types, Roles, Starts, StartInv
<1>5. ASSUME NEW t \in Starters, AddLoad(t) PROVE Starts'
  BY <1>5, SMTT(40) DEF AddLoad, Goto, Started, AfterWatch, Types, Roles, Starts, StartInv
<1>6. ASSUME NEW t \in Starters, verifyTargetExist(t) PROVE Starts'
  BY <1>6, SMTT(40) DEF verifyTargetExist, Goto, Failed, Call, Types, Roles, Starts, StartInv
<1>7. ASSUME NEW t \in Starters, Run(t) PROVE Starts'
  <2>1. PICK i \in Unused : id' = [id EXCEPT ![t] = i] /\ watch' = [watch EXCEPT ![i] = key[t]]
    BY <1>7, RunUnused, Zenon
  <2>2. i \in Ids /\ \A u \in Threads : id[u] # i
    BY Zenon DEF Unused
  <2>3. StartInv(t)'
    <3>1. /\ pc'[t] = "store" /\ id'[t] = i /\ watch'[i] = key[t] /\ UNCHANGED <<informers, key>>
      BY <1>7, <2>1, <2>2, Zenon DEF Run, Goto, Types
    <3>2. informers[key[t]] = None
      BY <1>7, Zenon DEF Run, Starts, StartInv
    <3> QED
      BY <2>2, <3>1, <3>2, Zenon DEF StartInv
  <2>4. ASSUME NEW u \in Starters \ {t} PROVE StartInv(u)'
    <3>0. pc' = [pc EXCEPT ![t] = "store"] /\ UNCHANGED <<informers, key>>
      BY <1>7, Zenon DEF Run, Goto
    <3>a. pc'[u] = pc[u] /\ (key[u] \in Keys => pc'[key[u]] = pc[key[u]])
      BY <3>0 DEF Types
    <3>b. id'[u] = id[u] /\ (id[u] \in Ids => watch'[id[u]] = watch[id[u]])
      BY <2>1, <2>2, Zenon DEF Types
    <3>2. pc[u] = "failDelete" => key[u] \in Keys
      BY DEF Roles
    <3> QED
      BY <3>0, <3>a, <3>b, <3>2 DEF Starts, StartInv
  <2> QED
    BY <2>3, <2>4, Zenon DEF Starts
<1>8. ASSUME NEW t \in Starters, Store(t) PROVE Starts'
  BY <1>8, SMTT(40) DEF Store, Goto, Types, Roles, Starts, StartInv
<1>9. ASSUME NEW t \in Starters, waitForSync(t) PROVE Starts'
  BY <1>9, SMTT(40) DEF waitForSync, Goto, Started, AfterWatch, Call, Types, Roles, Starts,
     StartInv
<1>10. ASSUME NEW t \in Starters, FailClose(t) PROVE Starts'
  <2>1. CASE watch[id[t]] = None
    BY <1>10, <2>1 DEF FailClose, Close, Starts, StartInv
  <2>2. CASE watch[id[t]] # None
    <3>0. StartInv(t) /\ t \in Threads
      BY Zenon DEF Starts
    <3>1. /\ watch' = [watch EXCEPT ![id[t]] = None] /\ pc' = [pc EXCEPT ![t] = "failDelete"]
          /\ UNCHANGED <<informers, key, id>> /\ pc[t] = "failClose" /\ id[t] \in Ids
          /\ informers[key[t]] = id[t] /\ watch[id[t]] = key[t]
      BY <1>10, <2>2, <3>0, Zenon DEF FailClose, Close, Goto, StartInv
    <3>a. key[t] \in Keys /\ t \notin Keys
      BY <3>1, Zenon DEF Roles
    <3>b. StopInv(key[t])
      BY <3>a, ZenonT(40) DEF Stops
    <3>2. key[t] \in Keys /\ pc[key[t]] # "stopDelete" /\ t \notin Keys
      BY <2>2, <3>1, <3>a, <3>b, Zenon DEF StopInv
    <3>3. StartInv(t)'
      BY <3>0, <3>1, <3>2, Zenon DEF StartInv, Types
    <3>4. ASSUME NEW u \in Starters \ {t} PROVE StartInv(u)'
      <4>1. key[u] # key[t] \/ pc[u] \notin Starting
        BY <3>1 DEF Roles
      <4>2. /\ pc'[u] = pc[u] /\ (key[u] \in Keys => pc'[key[u]] = pc[key[u]])
            /\ pc[u] = "failDelete" => key[u] \in Keys
        BY <3>1, <3>2 DEF Types, Roles
      <4>3. StartInv(u) /\ (id[u] \in Ids /\ id[u] # id[t] => watch'[id[u]] = watch[id[u]])
        BY <3>1, Zenon DEF Starts, Types
      <4>4. CASE pc[u] \in {"store", "sync", "failClose", "failDelete"} /\ id[u] = id[t]
        BY <3>1, <4>1, <4>2, <4>3, <4>4 DEF StartInv, Types
      <4>5. CASE ~(pc[u] \in {"store", "sync", "failClose", "failDelete"} /\ id[u] = id[t])
        BY <3>1, <4>2, <4>3, <4>5 DEF StartInv
      <4> QED
        BY <4>4, <4>5, Zenon
    <3> QED
      BY <3>3, <3>4, Zenon DEF Starts
  <2> QED
    BY <2>1, <2>2, Zenon
<1>11. ASSUME NEW t \in Starters, FailDelete(t) PROVE Starts'
  BY <1>11, SMTT(40) DEF FailDelete, Failed, Goto, Types, Roles, Starts, StartInv
<1>12. CASE Reconcile
  BY <1>12, SMTT(40) DEF Reconcile, Goto, Types, Roles, Starts, StartInv
<1>13. CASE ResetTarget
  BY <1>13, SMTT(40) DEF ResetTarget, Goto, Types, Roles, Starts, StartInv
<1>14. CASE AddCRD
  BY <1>14, SMTT(40) DEF AddCRD, Return, Goto, Types, Roles, Starts, StartInv
<1>15. CASE FinalizeStopped
  BY <1>15, SMTT(40) DEF FinalizeStopped, Goto, Types, Roles, Starts, StartInv
<1>16. CASE FinalizeCRD
  BY <1>16, SMTT(40) DEF FinalizeCRD, Return, Goto, Call, Types, Roles, Starts, StartInv
<1>17. CASE SwitchMode
  BY <1>17, SMTT(40) DEF SwitchMode, Goto, Types, Roles, Starts, StartInv
<1>18. CASE checkAndCreatePrivateService
  BY <1>18, SMTT(40) DEF checkAndCreatePrivateService, Goto, Call, Types, Roles, Starts,
     StartInv
<1>19. CASE Restart
  BY <1>19, SMTT(40) DEF Restart, Types, Roles, Starts, StartInv
<1> QED
  BY <1>20, <1>1, <1>2, <1>3, <1>4, <1>5, <1>6, <1>7, <1>8, <1>9, <1>10, <1>11, <1>12,
     <1>13, <1>14, <1>15, <1>16, <1>17, <1>18, <1>19, ZenonT(40)
     DEF Next, Operator, Reconciler, TargetHandler, Start, StopInformer, Environment, Starters

(* A goroutine that closes a channel finds the entry it belongs to. *)
LEMMA StopsNext == Types /\ Roles /\ Starts /\ Stops /\ Registered /\ [Next]_vars => Stops'
<1> SUFFICES ASSUME Types, Roles, Starts, Stops, Registered, [Next]_vars PROVE Stops'
  BY Zenon
<1> USE DEF cluster, manager, local, Starting, Stopping, KeyOf
<1> USE Names
<1>0. CASE UNCHANGED <<informers, watch, pc, key, id>>
  BY <1>0, SMTT(40) DEF Types, Roles, Stops, StopInv
<1>20. CASE \/ UNCHANGED vars \/ EditSpec \/ Delete \/ Recreate
           \/ EditService \/ TargetChanges \/ GarbageCollect
           \/ \E s \in Services : PublicHandler(s)
  BY <1>0, <1>20, SMTT(40) DEF vars, EditSpec, Delete, Recreate, EditService, TargetChanges,
     Edit,
                   GarbageCollect, PublicHandler, handlePublicServiceChanges, UpdatePrivateService
<1>1. ASSUME NEW t \in {"C"} \cup Keys, StopLoad(t) PROVE Stops'
  BY <1>1, SMTT(40) DEF StopLoad, Goto, AfterStop, Types, Roles, Stops, StopInv, Registered
<1>2. ASSUME NEW t \in {"C"} \cup Keys, StopClose(t) PROVE Stops'
  BY <1>2, SMTT(40) DEF StopClose, Close, Goto, Types, Roles, Stops, StopInv
<1>3. ASSUME NEW t \in {"C"} \cup Keys, StopDelete(t) PROVE Stops'
  BY <1>3, SMTT(40) DEF StopDelete, Goto, AfterStop, Types, Roles, Stops, StopInv
<1>4. ASSUME NEW t \in Starters, Once(t) PROVE Stops'
  BY <1>4, SMTT(40) DEF Once, Goto, AfterWatch, Types, Roles, Stops, StopInv
<1>5. ASSUME NEW t \in Starters, AddLoad(t) PROVE Stops'
  BY <1>5, SMTT(40) DEF AddLoad, Goto, Started, AfterWatch, Types, Roles, Stops, StopInv
<1>6. ASSUME NEW t \in Starters, verifyTargetExist(t) PROVE Stops'
  BY <1>6, SMTT(40) DEF verifyTargetExist, Goto, Failed, Call, Types, Roles, Stops, StopInv
<1>7. ASSUME NEW t \in Starters, Run(t) PROVE Stops'
  <2>1. PICK i \in Unused : id' = [id EXCEPT ![t] = i] /\ watch' = [watch EXCEPT ![i] = key[t]]
    BY <1>7, RunUnused, Zenon
  <2>2. i \in Ids /\ \A u \in Threads : id[u] # i
    BY Zenon DEF Unused
  <2>3. pc' = [pc EXCEPT ![t] = "store"] /\ UNCHANGED <<informers, key>> /\ pc[t] = "start"
    BY <1>7, Zenon DEF Run, Goto
  <2>4. ASSUME NEW u \in {"C"} \cup Keys PROVE StopInv(u)'
    <3>1. pc'[u] \in {"stopClose", "stopDelete"} => pc'[u] = pc[u] /\ u # t
      BY <2>3, Zenon DEF Types
    <3>2. u # t => id'[u] = id[u] /\ (id[u] \in Ids => watch'[id[u]] = watch[id[u]])
      BY <2>1, <2>2 DEF Types
    <3> QED
      BY <2>3, <3>1, <3>2, Zenon DEF Stops, StopInv
  <2> QED
    BY <2>4, Zenon DEF Stops
<1>8. ASSUME NEW t \in Starters, Store(t) PROVE Stops'
  BY <1>8, SMTT(40) DEF Store, Goto, Types, Roles, Stops, StopInv, Starts, StartInv
<1>9. ASSUME NEW t \in Starters, waitForSync(t) PROVE Stops'
  BY <1>9, SMTT(40) DEF waitForSync, Goto, Started, AfterWatch, Call, Types, Roles, Stops,
     StopInv
<1>10. ASSUME NEW t \in Starters, FailClose(t) PROVE Stops'
  BY <1>10, SMTT(40) DEF FailClose, Close, Goto, Types, Roles, Stops, StopInv
<1>11. ASSUME NEW t \in Starters, FailDelete(t) PROVE Stops'
  BY <1>11, SMTT(40) DEF FailDelete, Failed, Goto, Types, Roles, Stops, StopInv, Starts,
     StartInv
<1>12. CASE Reconcile
  BY <1>12, SMTT(40) DEF Reconcile, Goto, Types, Roles, Stops, StopInv
<1>13. CASE ResetTarget
  BY <1>13, SMTT(40) DEF ResetTarget, Goto, Types, Roles, Stops, StopInv
<1>14. CASE AddCRD
  BY <1>14, SMTT(40) DEF AddCRD, Return, Goto, Types, Roles, Stops, StopInv
<1>15. CASE FinalizeStopped
  BY <1>15, SMTT(40) DEF FinalizeStopped, Goto, Types, Roles, Stops, StopInv
<1>16. CASE FinalizeCRD
  BY <1>16, SMTT(40) DEF FinalizeCRD, Return, Goto, Call, Types, Roles, Stops, StopInv
<1>17. CASE SwitchMode
  BY <1>17, SMTT(40) DEF SwitchMode, Goto, Types, Roles, Stops, StopInv
<1>18. CASE checkAndCreatePrivateService
  BY <1>18, SMTT(40) DEF checkAndCreatePrivateService, Goto, Call, Types, Roles, Stops, StopInv
<1>19. CASE Restart
  BY <1>19, SMTT(40) DEF Restart, Types, Roles, Stops, StopInv
<1> QED
  BY <1>20, <1>1, <1>2, <1>3, <1>4, <1>5, <1>6, <1>7, <1>8, <1>9, <1>10, <1>11, <1>12,
     <1>13, <1>14, <1>15, <1>16, <1>17, <1>18, <1>19, ZenonT(40)
     DEF Next, Operator, Reconciler, TargetHandler, Start, StopInformer, Environment, Starters
=============================================================================
