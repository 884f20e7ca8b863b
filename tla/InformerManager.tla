---------------------------- MODULE InformerManager ----------------------------
(***************************************************************************)
(* The informers the operator runs for one ElastiService: the manager that *)
(* starts and stops them (operator/internal/informer), the sync.Once and   *)
(* the directory that the controller puts in front of it, and the handler  *)
(* that copies the public service into the private one.                    *)
(*                                                                         *)
(* Threads: "C" is Reconcile, which watches the scale target; "T" is the   *)
(* target handler that holds the lock of switchMode, which watches the     *)
(* public service; a key stands for the goroutine of StopForCRD that stops *)
(* the informer of that key.  The key of an informer is the scale target   *)
(* or the service it watches.  A handler of the public service runs per    *)
(* service.  A read through a cache that is behind shows as a call that    *)
(* fails; ModeSwitch has the caches themselves.                            *)
(*                                                                         *)
(* A service has two parts: its routing (selector and ports), which the    *)
(* handler copies to the private service, and the rest (type, session      *)
(* affinity, labels), which it does not.  Each part is its version.        *)
(***************************************************************************)
EXTENDS Integers, FiniteSets

CONSTANTS
    Refs,         \* scale targets the ElastiService may name
    Services,     \* public services it may name
    Ids,          \* informers that exist at a time
    None,         \* no key, no informer, no directory entry
    MaxEdits,     \* bound on what users and pods change
    MaxFaults     \* bound on API calls that fail and syncs that time out

ASSUME InformerAssumption ==
    /\ Refs \cap Services = {} /\ {"C", "T"} \cap (Refs \cup Services) = {}
    /\ None \notin Refs \cup Services \cup Ids
    /\ MaxEdits \in Nat /\ MaxFaults \in Nat

Keys == Refs \cup Services
Starters == {"C", "T"}
Threads == Starters \cup Keys

VARIABLES
    es,           \* the ElastiService: its state, scale target and service
    down,         \* is the scale target without a ready pod?
    moved,        \* has spec.service ever changed?
    pub,          \* each public service
    pvt,          \* its private service, or NoService
    directory,    \* scale target recorded for a service, or None
    informers,    \* the manager's map: key -> informer, or None
    watch,        \* what an informer watches, None once its channel is closed
    gauge,        \* InformerGauge
    once,         \* the sync.Once of the target and of the public service
    pc,           \* where each thread is
    key,          \* the key C and T are starting or stopping
    id,           \* the informer each thread works on
    crd,          \* Reconcile's copy of the ElastiService
    copied,       \* the public service T has read
    update,       \* what a handler of the public service has read
    late,         \* target handlers that outlive their informer
    queued,       \* a Reconcile is queued
    panicked,     \* the key whose channel was closed twice, or None
    edits, faults \* changes and failures left

cluster == <<es, down, moved, pub, pvt>>
manager == <<informers, watch, gauge>>
local == <<pc, key, id, crd, copied, update>>
vars == <<cluster, directory, manager, once, local, late, queued, panicked, edits, faults>>

ElastiServices == [state : {"live", "deleting", "gone"}, ref : Refs, svc : Services]
Onces == {"target", "public"}
OnceOf(t) == IF t = "C" THEN "target" ELSE "public"
KeyOf(t) == IF t \in Keys THEN t ELSE key[t]
Service == [routing : Nat, rest : Nat]
NoService == [routing |-> 0, rest |-> 0]
NoUpdate == [from |-> 0, seen |-> NoService]

Init ==
    /\ es \in ElastiServices /\ es.state = "live"
    /\ down \in BOOLEAN /\ moved = FALSE
    /\ pub = [s \in Services |-> [routing |-> 1, rest |-> 1]]
    /\ pvt = [s \in Services |-> NoService]
    /\ directory = [s \in Services |-> None]
    /\ informers = [k \in Keys |-> None]
    /\ watch = [i \in Ids |-> None]
    /\ gauge = [k \in Keys |-> 0]
    /\ once = [o \in Onces |-> "absent"]
    /\ pc = [t \in Threads |-> "idle"]
    /\ key = [t \in Starters |-> None]
    /\ id = [t \in Threads |-> None]
    /\ crd = None /\ copied = NoService
    /\ update = [s \in Services |-> NoUpdate]
    /\ late = 0 /\ queued = TRUE /\ panicked = None
    /\ edits = MaxEdits /\ faults = MaxFaults

Goto(t, label) == pc' = [pc EXCEPT ![t] = label]
Call(ok) ==
    /\ ok \/ faults > 0
    /\ faults' = IF ok THEN faults ELSE faults - 1

-----------------------------------------------------------------------------
(* Closing a channel a second time panics and takes the operator down.  A  *)
(* target handler that waits for the lock of switchMode outlives its       *)
(* informer.                                                               *)
Close(t, label) ==
    LET i == id[t] IN
    IF watch[i] = None
    THEN /\ panicked' = KeyOf(t)
         /\ UNCHANGED <<watch, pc, late>>
    ELSE /\ watch' = [watch EXCEPT ![i] = None]
         /\ late' \in IF watch[i] \in Refs THEN {late, late + 1} ELSE {late}
         /\ Goto(t, label)
         /\ UNCHANGED panicked

(* StopInformer: looks the informer up, closes its channel, deletes the    *)
(* entry.  Run by the goroutines of StopForCRD and, when the scale target  *)
(* has changed, by Reconcile, which then resets the sync.Once.             *)
AfterStop(t) == IF t = "C" THEN "reset" ELSE "idle"

StopLoad(t) ==
    /\ pc[t] = "stopLoad"
    /\ LET i == informers[KeyOf(t)] IN
         /\ id' = [id EXCEPT ![t] = i]
         /\ Goto(t, IF i = None THEN AfterStop(t) ELSE "stopClose")
    /\ UNCHANGED <<cluster, directory, manager, once, key, crd, copied, update, late,
                   queued, panicked, edits, faults>>

(* Mutant: the entry is deleted and the channel left open. *)
StopCloseSkipped(t) ==
    /\ pc[t] = "stopClose"
    /\ Goto(t, "stopDelete")
    /\ UNCHANGED <<cluster, directory, manager, once, key, id, crd, copied, update, late,
                   queued, panicked, edits, faults>>

StopClose(t) ==
    /\ pc[t] = "stopClose"
    /\ Close(t, "stopDelete")
    /\ UNCHANGED <<cluster, directory, informers, gauge, once, key, id, crd, copied,
                   update, queued, edits, faults>>

StopDelete(t) ==
    /\ pc[t] = "stopDelete"
    /\ informers' = [informers EXCEPT ![KeyOf(t)] = None]
    /\ gauge' = [gauge EXCEPT ![KeyOf(t)] = @ - 1]
    /\ id' = [id EXCEPT ![t] = None]
    /\ Goto(t, AfterStop(t))
    /\ UNCHANGED <<cluster, directory, watch, once, key, crd, copied, update, late,
                   queued, panicked, edits, faults>>

-----------------------------------------------------------------------------
(* watchScaleTargetRef and watchPublicService go through a sync.Once; the  *)
(* two never run twice at a time, C because of the lock of Reconcile and T *)
(* because of that of switchMode.                                          *)
AfterWatch(t) == IF t = "C" THEN "directory" ELSE "idle"

Once(t) ==
    /\ pc[t] = "once"
    /\ LET o == OnceOf(t) IN
         /\ Goto(t, IF once[o] = "done" THEN AfterWatch(t) ELSE "load")
         /\ key' = IF t = "T" /\ once[o] = "done" THEN [key EXCEPT ![t] = None] ELSE key
         /\ once' = [once EXCEPT ![o] = IF @ = "done" THEN @ ELSE "running"]
    /\ UNCHANGED <<cluster, directory, manager, id, crd, copied, update, late,
                   queued, panicked, edits, faults>>

(* The function given to the sync.Once returned without an error.  A       *)
(* sync.Once that was reset meanwhile is no longer in the map.             *)
Started(t) ==
    /\ once' = [once EXCEPT ![OnceOf(t)] = IF @ = "running" THEN "done" ELSE @]
    /\ Goto(t, AfterWatch(t))
    /\ id' = [id EXCEPT ![t] = None]
    /\ key' = IF t = "T" THEN [key EXCEPT ![t] = None] ELSE key
    /\ UNCHANGED <<crd, queued>>

(* Mutant: the sync.Once stays done after an error. *)
FailedKeepsOnce(t) ==
    /\ once' = [once EXCEPT ![OnceOf(t)] = "done"]
    /\ Goto(t, "idle")
    /\ key' = [key EXCEPT ![t] = None]
    /\ id' = [id EXCEPT ![t] = None]
    /\ crd' = IF t = "C" THEN None ELSE crd
    /\ queued' = (queued \/ t = "C")

(* It returned an error: the sync.Once is reset; Reconcile is retried.     *)
Failed(t) ==
    /\ once' = [once EXCEPT ![OnceOf(t)] = "absent"]
    /\ Goto(t, "idle")
    /\ key' = [key EXCEPT ![t] = None]
    /\ id' = [id EXCEPT ![t] = None]
    /\ crd' = IF t = "C" THEN None ELSE crd
    /\ queued' = (queued \/ t = "C")

(* Add: an informer in the map is taken to be running. *)
AddLoad(t) ==
    /\ pc[t] = "load"
    /\ IF informers[key[t]] # None
       THEN Started(t)
       ELSE Goto(t, "verify") /\ UNCHANGED <<once, key, id, crd, queued>>
    /\ UNCHANGED <<cluster, directory, manager, copied, update, late,
                   panicked, edits, faults>>

verifyTargetExist(t) ==
    /\ pc[t] = "verify"
    /\ \E ok \in BOOLEAN :
         /\ Call(ok)
         /\ IF ok THEN Goto(t, "start") /\ UNCHANGED <<once, key, id, crd, queued>> ELSE Failed(t)
    /\ UNCHANGED <<cluster, directory, manager, copied, update, late,
                   panicked, edits>>

(* Informers that nothing refers to any more. *)
Unused == {i \in Ids : /\ watch[i] = None
                       /\ \A k \in Keys : informers[k] # i
                       /\ \A t \in Threads : id[t] # i}

(* enableInformer starts the informer... *)
Run(t) ==
    /\ pc[t] = "start"
    /\ Unused # {}
    /\ LET i == CHOOSE i \in Unused : TRUE IN
         /\ id' = [id EXCEPT ![t] = i]
         /\ watch' = [watch EXCEPT ![i] = key[t]]
    /\ Goto(t, "store")
    /\ UNCHANGED <<cluster, directory, informers, gauge, once, key, crd, copied, update,
                   late, queued, panicked, edits, faults>>

(* ...stores it, over whatever is there... *)
Store(t) ==
    /\ pc[t] = "store"
    /\ informers' = [informers EXCEPT ![key[t]] = id[t]]
    /\ Goto(t, "sync")
    /\ UNCHANGED <<cluster, directory, watch, gauge, once, key, id, crd, copied, update,
                   late, queued, panicked, edits, faults>>

(* ...and waits for its first sync, which fails when the channel is closed *)
(* meanwhile or the timeout passes.                                        *)
waitForSync(t) ==
    /\ pc[t] = "sync"
    /\ \/ /\ gauge' = [gauge EXCEPT ![key[t]] = @ + 1]
          /\ Started(t)
          /\ UNCHANGED faults
       \/ /\ IF watch[id[t]] = None THEN UNCHANGED faults ELSE Call(FALSE)
          /\ Goto(t, "failClose")
          /\ UNCHANGED <<gauge, once, key, id, crd, queued>>
    /\ UNCHANGED <<cluster, directory, informers, watch, copied, update, late,
                   panicked, edits>>

FailClose(t) ==
    /\ pc[t] = "failClose"
    /\ Close(t, "failDelete")
    /\ UNCHANGED <<cluster, directory, informers, gauge, once, key, id, crd, copied,
                   update, queued, edits, faults>>

(* Mutant: an informer that did not sync stays in the map. *)
FailDeleteKeepsEntry(t) ==
    /\ pc[t] = "failDelete"
    /\ Failed(t)
    /\ UNCHANGED <<cluster, directory, manager, copied, update, late, panicked, edits, faults>>

FailDelete(t) ==
    /\ pc[t] = "failDelete"
    /\ informers' = [informers EXCEPT ![key[t]] = None]
    /\ Failed(t)
    /\ UNCHANGED <<cluster, directory, watch, gauge, copied, update, late,
                   panicked, edits, faults>>

-----------------------------------------------------------------------------
(* C: Reconcile.                                                           *)
Return == Goto("C", "idle") /\ crd' = None /\ key' = [key EXCEPT !["C"] = None]

(* An ElastiService that is being deleted is finalized: StopForCRD ranges  *)
(* over the informers and starts a goroutine for each.  Otherwise the      *)
(* scale target is compared with the one the directory has for the service;*)
(* the informer of another one is stopped.                                 *)
Reconcile ==
    /\ pc["C"] = "idle" /\ queued
    /\ queued' = FALSE
    /\ IF es.state = "gone" THEN UNCHANGED <<pc, key, crd>>
       ELSE /\ crd' = es
            /\ IF es.state = "deleting"
               THEN /\ pc' = [t \in Threads |->
                                IF t = "C" THEN "join"
                                ELSE IF t \in Keys /\ informers[t] # None THEN "stopLoad"
                                ELSE pc[t]]
                    /\ UNCHANGED key
               ELSE LET old == directory[es.svc]
                        changed == old # None /\ old # es.ref IN
                      /\ Goto("C", IF changed THEN "stopLoad" ELSE "once")
                      /\ key' = [key EXCEPT !["C"] = IF changed THEN old ELSE es.ref]
    /\ UNCHANGED <<cluster, directory, manager, once, id, copied, update, late,
                   panicked, edits, faults>>

(* The old scale target's informer is stopped, or was not found. *)
ResetTarget ==
    /\ pc["C"] = "reset"
    /\ once' = [once EXCEPT !["target"] = "absent"]
    /\ key' = [key EXCEPT !["C"] = crd.ref]
    /\ Goto("C", "once")
    /\ UNCHANGED <<cluster, directory, manager, id, crd, copied, update, late, queued,
                   panicked, edits, faults>>

AddCRD ==
    /\ pc["C"] = "directory"
    /\ directory' = [directory EXCEPT ![crd.svc] = crd.ref]
    /\ Return
    /\ UNCHANGED <<cluster, manager, once, id, copied, update, late, queued, panicked,
                   edits, faults>>

(* Mutant: the goroutines that stop the informers are not waited for. *)
FinalizeNoWait ==
    /\ pc["C"] = "join"
    /\ once' = [o \in Onces |-> "absent"]
    /\ Goto("C", "finish")
    /\ UNCHANGED <<cluster, directory, manager, key, id, crd, copied, update, late,
                   queued, panicked, edits, faults>>

(* finalizeCRD: once the informers are stopped both sync.Onces are reset.  *)
FinalizeStopped ==
    /\ pc["C"] = "join"
    /\ \A k \in Keys : pc[k] = "idle"
    /\ once' = [o \in Onces |-> "absent"]
    /\ Goto("C", "finish")
    /\ UNCHANGED <<cluster, directory, manager, key, id, crd, copied, update, late,
                   queued, panicked, edits, faults>>

(* The entry leaves the directory in any case.  The private service is     *)
(* deleted, unless that is what failed; if nothing failed the finalizer is *)
(* removed.                                                                *)
FinalizeCRD ==
    /\ pc["C"] = "finish"
    /\ directory' = [directory EXCEPT ![crd.svc] = None]
    /\ \E ok \in BOOLEAN :
         /\ Call(ok)
         /\ es' = IF ok THEN [es EXCEPT !.state = "gone"] ELSE es
         /\ pvt' \in {[pvt EXCEPT ![crd.svc] = NoService]} \cup (IF ok THEN {} ELSE {pvt})
         /\ queued' = (queued \/ ~ok)
    /\ Return
    /\ UNCHANGED <<down, moved, pub, manager, once, id, copied, update, late, panicked, edits>>

-----------------------------------------------------------------------------
(* T: an informer of the scale target, or a handler that has outlived it,  *)
(* gets the lock of switchMode.  Unless the ElastiService is gone or the   *)
(* target is up, it reads the public service...                            *)
SwitchMode ==
    /\ pc["T"] = "idle"
    /\ \/ (\E i \in Ids : watch[i] \in Refs) /\ UNCHANGED late
       \/ late > 0 /\ late' = late - 1
    /\ IF es.state # "gone" /\ down
       THEN /\ Goto("T", "private")
            /\ key' = [key EXCEPT !["T"] = es.svc]
            /\ copied' = pub[es.svc]
       ELSE UNCHANGED <<pc, key, copied>>
    /\ UNCHANGED <<cluster, directory, manager, once, id, crd, update, queued, panicked,
                   edits, faults>>

(* ...copies it to the private service if there is none, redirects traffic *)
(* and then watches the public service.                                    *)
checkAndCreatePrivateService ==
    /\ pc["T"] = "private"
    /\ \E ok \in BOOLEAN :
         /\ Call(ok)
         /\ pvt' = IF ok /\ pvt[key["T"]] = NoService THEN [pvt EXCEPT ![key["T"]] = copied] ELSE pvt
         /\ Goto("T", IF ok THEN "once" ELSE "idle")
         /\ key' = IF ok THEN key ELSE [key EXCEPT !["T"] = None]
    /\ copied' = NoService
    /\ UNCHANGED <<es, down, moved, pub, directory, manager, once, id, crd, update, late,
                   queued, panicked, edits>>

(* The handler of the public service: it is told of the newest version,    *)
(* whose selector and ports it takes, and reads the private service...     *)
handlePublicServiceChanges(s) ==
    /\ update[s] = NoUpdate
    /\ \E i \in Ids : watch[i] = s
    /\ pvt[s] # NoService
    /\ update' = [update EXCEPT ![s] = [from |-> pub[s].routing, seen |-> pvt[s]]]
    /\ UNCHANGED <<cluster, directory, manager, once, pc, key, id, crd, copied, late,
                   queued, panicked, edits, faults>>

(* ...and updates it with them, unless it was changed or deleted since. *)
UpdatePrivateService(s) ==
    /\ update[s] # NoUpdate
    /\ \E ok \in BOOLEAN :
         /\ Call(ok)
         /\ pvt' = IF ok /\ pvt[s] = update[s].seen
                   THEN [pvt EXCEPT ![s].routing = update[s].from] ELSE pvt
    /\ update' = [update EXCEPT ![s] = NoUpdate]
    /\ UNCHANGED <<es, down, moved, pub, directory, manager, once, pc, key, id, crd, copied,
                   late, queued, panicked, edits>>

-----------------------------------------------------------------------------
(* The users and the pods (external).                                      *)
Edit ==
    /\ edits > 0 /\ edits' = edits - 1
    /\ UNCHANGED <<directory, manager, once, local, late, panicked, faults>>

EditSpec ==
    /\ Edit /\ es.state = "live"
    /\ es' \in ElastiServices \ {es} /\ es'.state = "live"
    /\ moved' = (moved \/ es'.svc # es.svc)
    /\ queued' = TRUE
    /\ UNCHANGED <<down, pub, pvt>>

Delete ==
    /\ Edit /\ es.state = "live"
    /\ es' = [es EXCEPT !.state = "deleting"]
    /\ queued' = TRUE
    /\ UNCHANGED <<down, moved, pub, pvt>>

Recreate ==
    /\ Edit /\ es.state = "gone"
    /\ es' \in ElastiServices /\ es'.state = "live"
    /\ moved' = (moved \/ es'.svc # es.svc)
    /\ queued' = TRUE
    /\ UNCHANGED <<down, pub, pvt>>

EditService ==
    /\ Edit
    /\ \E s \in Services :
         \/ pub' = [pub EXCEPT ![s].routing = @ + 1]
         \/ pub' = [pub EXCEPT ![s].rest = @ + 1]
    /\ UNCHANGED <<es, down, moved, pvt, queued>>

TargetChanges ==
    /\ Edit
    /\ down' = ~down
    /\ UNCHANGED <<es, moved, pub, pvt, queued>>

(* The private service is owned by the ElastiService and goes with it. *)
GarbageCollect ==
    /\ es.state = "gone" /\ \E s \in Services : pvt[s] # NoService
    /\ pvt' = [s \in Services |-> NoService]
    /\ UNCHANGED <<es, down, moved, pub, directory, manager, once, local, late, queued,
                   panicked, edits, faults>>

(* After a panic the operator is started again with nothing in memory.     *)
Restart ==
    /\ panicked # None
    /\ directory' = [s \in Services |-> None]
    /\ informers' = [k \in Keys |-> None]
    /\ watch' = [i \in Ids |-> None]
    /\ gauge' = [k \in Keys |-> 0]
    /\ once' = [o \in Onces |-> "absent"]
    /\ pc' = [t \in Threads |-> "idle"]
    /\ key' = [t \in Starters |-> None]
    /\ id' = [t \in Threads |-> None]
    /\ crd' = None /\ copied' = NoService
    /\ update' = [s \in Services |-> NoUpdate]
    /\ late' = 0 /\ queued' = TRUE /\ panicked' = None
    /\ UNCHANGED <<cluster, edits, faults>>

-----------------------------------------------------------------------------
Start(t) ==
    \/ Once(t) \/ AddLoad(t) \/ verifyTargetExist(t) \/ Run(t) \/ Store(t)
    \/ waitForSync(t) \/ FailClose(t) \/ FailDelete(t)

StopInformer(t) == StopLoad(t) \/ StopClose(t) \/ StopDelete(t)

Reconciler ==
    \/ Reconcile \/ ResetTarget \/ AddCRD \/ FinalizeStopped \/ FinalizeCRD
    \/ Start("C") \/ StopInformer("C")

TargetHandler == SwitchMode \/ checkAndCreatePrivateService \/ Start("T")
PublicHandler(s) == handlePublicServiceChanges(s) \/ UpdatePrivateService(s)

Operator ==
    \/ Reconciler \/ TargetHandler
    \/ \E k \in Keys : StopInformer(k)
    \/ \E s \in Services : PublicHandler(s)

Environment ==
    \/ EditSpec \/ Delete \/ Recreate \/ EditService \/ TargetChanges \/ GarbageCollect

Next == (panicked = None /\ Operator) \/ Environment \/ Restart

Spec == Init /\ [][Next]_vars

(* Goroutines run, failed reconciliations are retried, the informers       *)
(* resync, and a crashed operator is started again.                        *)
Fairness ==
    /\ WF_vars(panicked = None /\ Reconciler)
    /\ WF_vars(panicked = None /\ TargetHandler)
    /\ WF_vars(panicked = None /\ \E k \in Keys : StopInformer(k))
    /\ \A s \in Services : WF_vars(panicked = None /\ PublicHandler(s))
    /\ WF_vars(Restart)

FairSpec == Spec /\ Fairness

-----------------------------------------------------------------------------
Labels == {"idle", "stopLoad", "stopClose", "stopDelete", "reset", "once", "load",
           "verify", "start", "store", "sync", "failClose", "failDelete", "directory",
           "join", "finish", "private"}

\* The types.
TypeOK ==
    /\ es \in ElastiServices
    /\ down \in BOOLEAN /\ moved \in BOOLEAN
    /\ pub \in [Services -> Service] /\ pvt \in [Services -> Service]
    /\ directory \in [Services -> Refs \cup {None}]
    /\ informers \in [Keys -> Ids \cup {None}]
    /\ watch \in [Ids -> Keys \cup {None}]
    /\ gauge \in [Keys -> Int]
    /\ once \in [Onces -> {"absent", "running", "done"}]
    /\ pc \in [Threads -> Labels]
    /\ key \in [Starters -> Keys \cup {None}]
    /\ id \in [Threads -> Ids \cup {None}]
    /\ crd \in ElastiServices \cup {None}
    /\ copied \in Service
    /\ update \in [Services -> [from : Nat, seen : Service]]
    /\ late \in Nat /\ queued \in BOOLEAN
    /\ panicked \in Keys \cup {None}
    /\ edits \in 0 .. MaxEdits /\ faults \in 0 .. MaxFaults

\* "restrict only 1 informer is running for 1 resource for each crd", although
\* starts, failed starts and stops of several goroutines overlap.
OneInformerPerKey ==
    \A i, j \in Ids : watch[i] # None /\ watch[i] = watch[j] => i = j

\* No informer runs on unseen ("so we don't leak its goroutine"): one whose
\* channel is open is in the map, where StopInformer finds it, or is about to be.
RunningIsRegistered ==
    \A i \in Ids : watch[i] # None =>
      \/ informers[watch[i]] = i
      \/ \E t \in Starters : id[t] = i /\ pc[t] = "store"

\* The channel of a scale target's informer is never closed twice; only that of
\* the public service can be, by a deletion during its first sync.
OnlyPublicPanics == panicked \notin Refs

\* The manager lets informers be started and stopped "gracefully": no channel is
\* closed twice, which would take the operator down.
NeverPanics == panicked = None

AllIdle == \A t \in Threads : pc[t] = "idle"

\* When nothing is being started or stopped, InformerGauge says how many
\* informers run for a key.
GaugeExact ==
    AllIdle => \A k \in Keys : gauge[k] = Cardinality({i \in Ids : watch[i] = k})

\* The target of an ElastiService that is gone is not watched.
GoneTargetUnwatched == es.state = "gone" => \A i \in Ids : watch[i] \notin Refs

\* "Stop all active informers related to this CRD".
GoneIsUnwatched == es.state = "gone" /\ AllIdle => \A i \in Ids : watch[i] = None

\* "if it has [changed], stops the informer for the old ScaleTargetRef. Start the
\* new informer": as long as spec.service does not change (the directory looks the
\* old target up by it), in the end exactly the scale target the ElastiService
\* names is watched, whatever failed, timed out or crashed on the way.
TargetWatched ==
    \A r \in Refs :
      <>[](es.state = "live" /\ es.ref = r /\ ~moved) =>
        <>[]({watch[i] : i \in Ids} \cap Refs = {r})

\* "when the public service is modified, we can update the private service": as
\* long as spec.service does not change (the sync.Once of the watch is not reset
\* for another service), while the target stays down the private service ends up
\* with the selector and the ports of the public one, however its creation, its
\* updates and the start of its watch interleave.
PrivateFollows ==
    \A s \in Services :
      <>[](es.state = "live" /\ es.svc = s /\ down /\ ~moved) =>
        <>[](pvt[s].routing = pub[s].routing)

\* "Update label and IPs in private service to match Public Service"
\* (docs/src/documentation/architecture/state.md:142).
PrivateMatches ==
    \A s \in Services :
      <>[](es.state = "live" /\ es.svc = s /\ down /\ ~moved) => <>[](pvt[s] = pub[s])
=============================================================================
