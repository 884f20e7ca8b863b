------------------------------ MODULE ModeSwitch ------------------------------
(***************************************************************************)
(* The operator's controller for one ElastiService: the Reconcile loop with *)
(* its finalizer, the scale-target informer that switches between serve and *)
(* proxy mode, and the resolver informer that refreshes the addresses of    *)
(* the EndpointSlice to the resolver.  The three run in goroutines of their *)
(* own, read through the manager's cache and write to the API server.       *)
(*                                                                         *)
(* Threads: "T" the target informer's handler, "R" the resolver informer's  *)
(* handler, "C" Reconcile, and "I", "S", "P" the goroutines finalizeCRD     *)
(* starts for the informers, the EndpointSlice and the private service (the *)
(* fourth one, KEDA, and the final scale-up are in ScaleHandler).           *)
(***************************************************************************)
EXTENDS Naturals, FiniteSets

CONSTANTS
    IPs,          \* address sets the resolver's pods can have
    NoIPs,        \* the resolver has no pod, or the EndpointSlice is absent
    Deletable,    \* may the user delete the ElastiService?
    MaxChanges,   \* bound on changes of the target and of the resolver's pods
    MaxFaults,    \* bound on API calls that fail
    MaxRestarts   \* bound on restarts of the operator

ASSUME ModeSwitchAssumption ==
    /\ NoIPs \notin IPs
    /\ Deletable \in BOOLEAN
    /\ MaxChanges \in Nat
    /\ MaxFaults \in Nat
    /\ MaxRestarts \in Nat

VARIABLES
    es,           \* the ElastiService at the API server
    slice,        \* addresses of the EndpointSlice to the resolver, or NoIPs
    pvt,          \* does the private service exist?
    ready,        \* is the scale target ready?
    ips,          \* the addresses of the resolver's pods, or NoIPs
    cache,        \* what the manager's cache says of the five
    watching,     \* is the scale-target informer running?
    directory,    \* mode recorded in CRDDirectory, or "absent"
    event,        \* threads with an event or request queued
    pc,           \* where each thread is
    tmode,        \* the mode T is switching to
    found,        \* addresses T and R have read for the EndpointSlice
    crd,          \* the copy of the ElastiService Reconcile works on
    changes,      \* changes of the environment left
    faults,       \* API failures left
    restarts      \* restarts left

cluster == <<es, slice, pvt, ready, ips>>
memory == <<watching, directory, event, pc, tmode, found, crd>>
budget == <<changes, faults, restarts>>
vars == <<cluster, cache, memory, budget>>

Handlers == {"T", "R"}
Finalizer == {"I", "S", "P"}
Threads == Handlers \cup {"C"} \cup Finalizer

NoMode == "none"    \* Status.Mode is empty, or T is not switching
Modes == {NoMode, "serve", "proxy"}
\* The life of an ElastiService: created by the user, finalized (it carries the
\* operator's finalizer), deleting (with the finalizer) and gone.
ElastiServices == [state : {"created", "finalized", "deleting", "gone"}, mode : Modes]
Live == es.state \in {"created", "finalized"}
Labels == {"idle", "crd", "pvtGet", "pvtCreate", "ips", "sliceGet", "sliceUpdate",
           "sliceCreate", "watch", "delGet", "delete", "status", "addFinalizer",
           "directory", "join", "removeFinalizer", "stop", "done", "failed"}

\* The copy of the ElastiService when Reconcile is not running.
NoCRD == [state |-> "gone", mode |-> NoMode]

\* The operator has just started for the first time and has not seen the
\* ElastiService; the informer caches have synced.
Init ==
    /\ es = [state |-> "created", mode |-> NoMode]
    /\ slice = NoIPs /\ pvt = FALSE
    /\ ready \in BOOLEAN
    /\ ips \in IPs \cup {NoIPs}
    /\ cache = [es |-> es, slice |-> FALSE, pvt |-> FALSE, ready |-> ready, ips |-> ips]
    /\ watching = FALSE
    /\ directory = "absent"
    /\ event = {"C", "R"}
    /\ pc = [t \in Threads |-> "idle"]
    /\ tmode = NoMode
    /\ found = [h \in Handlers |-> NoIPs]
    /\ crd = NoCRD
    /\ changes = MaxChanges /\ faults = MaxFaults /\ restarts = MaxRestarts

Goto(t, label) == pc[t] # label /\ pc' = [pc EXCEPT ![t] = label]
At(t, label) == pc[t] = label

\* A call to the API server, which answers unless a fault is spent on it.
Call(ok) ==
    /\ ok \/ faults > 0
    /\ faults' = IF ok THEN faults ELSE faults - 1

\* Reconcile returned an error: controller-runtime queues the request again.
Requeue == event' = event \cup {"C"}

-----------------------------------------------------------------------------
(* createOrUpdateEndpointsliceToResolver, called by T and R.               *)

AfterWrite(h) == IF h = "R" THEN "idle" ELSE "status"

getIPsForResolver(h) ==
    /\ At(h, "ips")
    /\ \E ok \in BOOLEAN :
         LET listed == ok /\ cache.ips # NoIPs IN
           /\ Call(ok)
           /\ found' = [found EXCEPT ![h] = IF listed THEN cache.ips ELSE NoIPs]
           /\ Goto(h, IF listed THEN "sliceGet" ELSE AfterWrite(h))
    /\ UNCHANGED <<cluster, cache, watching, directory, event, tmode, crd, changes, restarts>>

SliceGet(h) ==
    /\ At(h, "sliceGet")
    /\ Goto(h, IF cache.slice THEN "sliceUpdate" ELSE "sliceCreate")
    /\ UNCHANGED <<cluster, cache, watching, directory, event, tmode, found, crd, budget>>

\* Mutant: an EndpointSlice that is there is left as it is.
SliceWriteKeepsOld(h) ==
    /\ pc[h] \in {"sliceUpdate", "sliceCreate"}
    /\ \E ok \in BOOLEAN :
         /\ Call(ok)
         /\ slice' = IF ok /\ slice = NoIPs THEN found[h] ELSE slice
    /\ found' = [found EXCEPT ![h] = NoIPs]
    /\ Goto(h, AfterWrite(h))
    /\ UNCHANGED <<es, pvt, ready, ips, cache, watching, directory, event, tmode, crd, changes, restarts>>

\* Update carries no resourceVersion, so it overwrites whatever is there and
\* fails only when nothing is; Create fails when something is.
SliceWrite(h) ==
    /\ pc[h] \in {"sliceUpdate", "sliceCreate"}
    /\ \E ok \in BOOLEAN :
         LET written == ok /\ (At(h, "sliceUpdate") <=> slice # NoIPs) IN
           /\ Call(ok)
           /\ slice' = IF written THEN found[h] ELSE slice
    /\ found' = [found EXCEPT ![h] = NoIPs]
    /\ Goto(h, AfterWrite(h))
    /\ UNCHANGED <<es, pvt, ready, ips, cache, watching, directory, event, tmode, crd, changes, restarts>>

(* deleteEndpointsliceToResolver, called by T and by finalizeCRD.          *)

AfterDelete(t, ok) == IF t = "T" THEN "status" ELSE IF ok THEN "done" ELSE "failed"

\* Mutant: the test for NotFound is the wrong way round.
DeleteGetInverted(t) ==
    /\ At(t, "delGet")
    /\ LET exists == IF t = "P" THEN cache.pvt ELSE cache.slice IN
         Goto(t, IF exists THEN AfterDelete(t, TRUE) ELSE "delete")
    /\ UNCHANGED <<cluster, cache, watching, directory, event, tmode, found, crd, budget>>

DeleteGet(t) ==
    /\ At(t, "delGet")
    /\ LET exists == IF t = "P" THEN cache.pvt ELSE cache.slice IN
         Goto(t, IF exists THEN "delete" ELSE AfterDelete(t, TRUE))
    /\ UNCHANGED <<cluster, cache, watching, directory, event, tmode, found, crd, budget>>

DeleteSlice(t) ==
    /\ t # "P"
    /\ At(t, "delete")
    /\ \E ok \in BOOLEAN :
         LET deleted == ok /\ slice # NoIPs IN
           /\ Call(ok)
           /\ slice' = IF deleted THEN NoIPs ELSE slice
           /\ Goto(t, AfterDelete(t, deleted))
    /\ UNCHANGED <<es, pvt, ready, ips, cache, watching, directory, event, tmode,
                   found, crd, changes, restarts>>

-----------------------------------------------------------------------------
(* T: handleScaleTargetRefChanges and switchMode.  One informer delivers its *)
(* events one after the other, so the lock of switchMode is never contended. *)

\* getUpdateObjInfo and isTargetReady; if the pods cannot be listed the event
\* is lost.
handleScaleTargetRefChanges ==
    /\ At("T", "idle")
    /\ "T" \in event /\ watching
    /\ event' = event \ {"T"}
    /\ \E ok \in BOOLEAN :
         /\ Call(ok)
         /\ tmode' = IF ~ok THEN NoMode ELSE IF cache.ready THEN "serve" ELSE "proxy"
         /\ pc' = [pc EXCEPT !["T"] = IF ok THEN "crd" ELSE "idle"]
    /\ UNCHANGED <<cluster, cache, watching, directory, found, crd, changes, restarts>>

\* getCRD: without the ElastiService nothing is switched and no status is
\* written.  The failure is that of the next read, of the EndpointSlice in
\* serve mode and of the target service in proxy mode.
SwitchMode ==
    /\ At("T", "crd")
    /\ \E ok \in BOOLEAN :
         /\ Call(ok)
         /\ Goto("T", IF cache.es.state = "gone" THEN "idle"
                      ELSE IF ~ok THEN "status"
                      ELSE IF tmode = "serve" THEN "delGet" ELSE "pvtGet")
    /\ tmode' = IF cache.es.state = "gone" THEN NoMode ELSE tmode
    /\ UNCHANGED <<cluster, cache, watching, directory, event, found, crd, changes, restarts>>

\* Mutant: the private service is left to be created later.
PrivateServiceSkipped ==
    /\ At("T", "pvtGet")
    /\ Goto("T", "ips")
    /\ UNCHANGED <<cluster, cache, watching, directory, event, tmode, found, crd, budget>>

PrivateServiceGet ==
    /\ At("T", "pvtGet")
    /\ Goto("T", IF cache.pvt THEN "ips" ELSE "pvtCreate")
    /\ UNCHANGED <<cluster, cache, watching, directory, event, tmode, found, crd, budget>>

PrivateServiceCreate ==
    /\ At("T", "pvtCreate")
    /\ \E ok \in BOOLEAN :
         LET created == ok /\ ~pvt IN
           /\ Call(ok)
           /\ pvt' = (pvt \/ created)
           /\ Goto("T", IF created THEN "ips" ELSE "status")
    /\ UNCHANGED <<es, slice, ready, ips, cache, watching, directory, event, tmode,
                   found, crd, changes, restarts>>

\* The deferred status patch, made whether or not the mode was enabled.  It is
\* a merge patch against the cached object: a mode the cache already shows is
\* not part of it.
updateCRDStatus ==
    /\ At("T", "status")
    /\ \E ok \in BOOLEAN :
         /\ Call(ok)
         /\ es' = IF ok /\ es.state # "gone" /\ cache.es.state # "gone" /\ cache.es.mode # tmode
                  THEN [es EXCEPT !.mode = tmode] ELSE es
    /\ tmode' = NoMode
    /\ Goto("T", "idle")
    /\ UNCHANGED <<slice, pvt, ready, ips, cache, watching, directory, event, found, crd, changes, restarts>>

(* R: the resolver's Deployment changed; services in proxy mode, as far as   *)
(* the directory knows, get the new addresses if the service can be read.    *)
handleResolverChanges ==
    /\ At("R", "idle")
    /\ "R" \in event
    /\ event' = event \ {"R"}
    /\ \E ok \in BOOLEAN :
         /\ Call(ok)
         /\ pc' = [pc EXCEPT !["R"] = IF ok /\ directory = "proxy" THEN "ips" ELSE "idle"]
    /\ UNCHANGED <<cluster, cache, watching, directory, tmode, found, crd, changes, restarts>>

-----------------------------------------------------------------------------
(* C: Reconcile.                                                           *)

\* Reconcile goes on at a label, or returns and drops its copy.
Return(label) ==
    /\ Goto("C", label)
    /\ crd' = IF label = "idle" THEN NoCRD ELSE crd

Reconcile ==
    /\ At("C", "idle")
    /\ "C" \in event
    /\ event' = event \ {"C"}
    /\ IF cache.es.state = "deleting"
       THEN pc' = [pc EXCEPT !["C"] = "join", !["I"] = "stop", !["S"] = "delGet", !["P"] = "delGet"]
       ELSE pc' = [pc EXCEPT !["C"] = IF cache.es.state = "gone" THEN "idle"
                                      ELSE IF cache.es.state = "finalized" THEN "watch"
                                      ELSE "addFinalizer"]
    /\ crd' = IF pc'["C"] = "idle" THEN NoCRD ELSE cache.es
    /\ UNCHANGED <<cluster, cache, watching, directory, tmode, found, budget>>

\* Update of the object read from the cache: refused if it has changed since.
addCRDFinalizer ==
    /\ At("C", "addFinalizer")
    /\ \E ok \in BOOLEAN :
         LET updated == ok /\ es = crd IN
           /\ Call(ok)
           /\ IF updated
              THEN /\ es' = [es EXCEPT !.state = "finalized"]
                   /\ crd' = es'
                   /\ Goto("C", "watch")
                   /\ UNCHANGED event
              ELSE /\ Requeue
                   /\ Return("idle")
                   /\ UNCHANGED es
    /\ UNCHANGED <<slice, pvt, ready, ips, cache, watching, directory, tmode, found,
                   changes, restarts>>

watchScaleTargetRef ==
    /\ At("C", "watch")
    /\ \E ok \in BOOLEAN :
         /\ ok \/ ~watching
         /\ Call(ok)
         /\ watching' = (watching \/ ok)
         /\ Return(IF ok THEN "directory" ELSE "idle")
         /\ IF ok THEN UNCHANGED event ELSE Requeue
    /\ UNCHANGED <<cluster, cache, directory, tmode, found, changes, restarts>>

AddCRD ==
    /\ At("C", "directory")
    /\ directory' = crd.mode
    /\ Return("idle")
    /\ UNCHANGED <<cluster, cache, watching, event, tmode, found, budget>>

\* finalizeCRD: the goroutine that stops the informers of the ElastiService.
StopForCRD ==
    /\ At("I", "stop")
    /\ watching' = FALSE
    /\ event' = event \ {"T"}
    /\ Goto("I", "done")
    /\ UNCHANGED <<cluster, cache, directory, tmode, found, crd, budget>>

deletePrivateService ==
    /\ At("P", "delete")
    /\ \E ok \in BOOLEAN :
         LET deleted == ok /\ pvt IN
           /\ Call(ok)
           /\ pvt' = (pvt /\ ~deleted)
           /\ Goto("P", AfterDelete("P", deleted))
    /\ UNCHANGED <<es, slice, ready, ips, cache, watching, directory, event, tmode,
                   found, crd, changes, restarts>>

\* Mutant: the directory entry is not removed.
finalizeCRDKeepsEntry ==
    /\ At("C", "join")
    /\ \A f \in Finalizer : pc[f] \in {"done", "failed"}
    /\ LET failed == \E f \in Finalizer : pc[f] = "failed" IN
         /\ pc' = [pc EXCEPT !["C"] = IF failed THEN "idle" ELSE "removeFinalizer",
                             !["I"] = "idle", !["S"] = "idle", !["P"] = "idle"]
         /\ IF failed THEN Requeue ELSE UNCHANGED event
         /\ crd' = IF failed THEN NoCRD ELSE crd
    /\ UNCHANGED <<cluster, cache, watching, directory, tmode, found, budget>>

\* Mutant: the error of a goroutine is lost and Reconcile returns nil.
finalizeCRDErrorLost ==
    /\ At("C", "join")
    /\ \A f \in Finalizer : pc[f] \in {"done", "failed"}
    /\ directory' = "absent"
    /\ LET failed == \E f \in Finalizer : pc[f] = "failed" IN
         /\ pc' = [pc EXCEPT !["C"] = IF failed THEN "idle" ELSE "removeFinalizer",
                             !["I"] = "idle", !["S"] = "idle", !["P"] = "idle"]
         /\ crd' = IF failed THEN NoCRD ELSE crd
    /\ UNCHANGED <<cluster, cache, watching, event, tmode, found, budget>>

\* wg.Wait and RemoveCRD; if a goroutine failed, Reconcile returns its error.
finalizeCRD ==
    /\ At("C", "join")
    /\ \A f \in Finalizer : pc[f] \in {"done", "failed"}
    /\ directory' = "absent"
    /\ LET failed == \E f \in Finalizer : pc[f] = "failed" IN
         /\ pc' = [pc EXCEPT !["C"] = IF failed THEN "idle" ELSE "removeFinalizer",
                             !["I"] = "idle", !["S"] = "idle", !["P"] = "idle"]
         /\ IF failed THEN Requeue ELSE UNCHANGED event
         /\ crd' = IF failed THEN NoCRD ELSE crd
    /\ UNCHANGED <<cluster, cache, watching, tmode, found, budget>>

\* Removing the last finalizer lets the API server remove the object.
removeFinalizer ==
    /\ At("C", "removeFinalizer")
    /\ \E ok \in BOOLEAN :
         LET updated == ok /\ es = crd IN
           /\ Call(ok)
           /\ es' = IF updated THEN [es EXCEPT !.state = "gone"] ELSE es
           /\ IF updated THEN UNCHANGED event ELSE Requeue
    /\ Return("idle")
    /\ UNCHANGED <<slice, pvt, ready, ips, cache, watching, directory, tmode, found, changes, restarts>>

-----------------------------------------------------------------------------
(* The cluster around the operator (external).                             *)

\* The manager's cache follows each kind of object on its own; a change of the
\* ElastiService queues a Reconcile.
CacheSync(k) ==
    LET now == [es |-> es, slice |-> slice # NoIPs, pvt |-> pvt, ready |-> ready, ips |-> ips] IN
      /\ cache[k] # now[k]
      /\ cache' = [cache EXCEPT ![k] = now[k]]
      /\ event' = IF k = "es" THEN event \cup {"C"} ELSE event
      /\ UNCHANGED <<cluster, watching, directory, pc, tmode, found, crd, budget>>

\* The target's pods come up or go away; a running informer is told.
TargetChanges ==
    /\ changes > 0 /\ changes' = changes - 1
    /\ ready' = ~ready
    /\ event' = IF watching THEN event \cup {"T"} ELSE event
    /\ UNCHANGED <<es, slice, pvt, ips, cache, watching, directory, pc, tmode, found,
                   crd, faults, restarts>>

ResolverPodsChange ==
    /\ changes > 0 /\ changes' = changes - 1
    /\ ips' \in (IPs \cup {NoIPs}) \ {ips}
    /\ event' = event \cup {"R"}
    /\ UNCHANGED <<es, slice, pvt, ready, cache, watching, directory, pc, tmode, found,
                   crd, faults, restarts>>

\* The informers re-deliver what they hold every five minutes.
Resync(h) ==
    /\ h = "T" => watching
    /\ h \notin event
    /\ event' = event \cup {h}
    /\ UNCHANGED <<cluster, cache, watching, directory, pc, tmode, found, crd, budget>>

Delete ==
    /\ Deletable /\ Live
    /\ es' = [es EXCEPT !.state = IF es.state = "finalized" THEN "deleting" ELSE "gone"]
    /\ UNCHANGED <<slice, pvt, ready, ips, cache, memory, budget>>

\* The private service is owned by the ElastiService and goes with it.
GarbageCollect ==
    /\ es.state = "gone" /\ pvt
    /\ pvt' = FALSE
    /\ UNCHANGED <<es, slice, ready, ips, cache, memory, budget>>

\* The operator restarts: everything it held in memory is lost, the new
\* process fills its cache, reconciles what exists and its resolver informer
\* reports the Deployment as added.
Restart ==
    /\ restarts > 0 /\ restarts' = restarts - 1
    /\ cache' = [es |-> es, slice |-> slice # NoIPs, pvt |-> pvt, ready |-> ready, ips |-> ips]
    /\ watching' = FALSE
    /\ directory' = "absent"
    /\ event' = {"C", "R"}
    /\ pc' = [t \in Threads |-> "idle"]
    /\ tmode' = NoMode /\ found' = [h \in Handlers |-> NoIPs] /\ crd' = NoCRD
    /\ UNCHANGED <<cluster, changes, faults>>

-----------------------------------------------------------------------------
Target ==
    \/ handleScaleTargetRefChanges \/ SwitchMode
    \/ PrivateServiceGet \/ PrivateServiceCreate
    \/ getIPsForResolver("T") \/ SliceGet("T") \/ SliceWrite("T")
    \/ DeleteGet("T") \/ DeleteSlice("T")
    \/ updateCRDStatus

Resolver ==
    \/ handleResolverChanges
    \/ getIPsForResolver("R") \/ SliceGet("R") \/ SliceWrite("R")

Reconciler ==
    \/ Reconcile \/ addCRDFinalizer \/ watchScaleTargetRef \/ AddCRD
    \/ finalizeCRD \/ removeFinalizer

DeleteSliceBranch == DeleteGet("S") \/ DeleteSlice("S")
PrivateBranch == DeleteGet("P") \/ deletePrivateService

Environment ==
    \/ TargetChanges \/ ResolverPodsChange \/ Delete \/ Restart

Next ==
    \/ Target \/ Resolver \/ Reconciler
    \/ StopForCRD \/ DeleteSliceBranch \/ PrivateBranch
    \/ \E k \in DOMAIN cache : CacheSync(k)
    \/ \E h \in Handlers : Resync(h)
    \/ GarbageCollect
    \/ Environment

Spec == Init /\ [][Next]_vars

\* Every goroutine that can run does, the caches catch up, and the informers
\* resync.  Nothing is assumed of the target, the resolver or the user.
Fairness ==
    /\ WF_vars(Target) /\ WF_vars(Resolver) /\ WF_vars(Reconciler)
    /\ WF_vars(StopForCRD) /\ WF_vars(DeleteSliceBranch) /\ WF_vars(PrivateBranch)
    /\ \A k \in {"es", "slice", "pvt", "ready", "ips"} : WF_vars(CacheSync(k))
    /\ \A h \in Handlers : WF_vars(Resync(h))

FairSpec == Spec /\ Fairness

\* What a deletion needs of it: Reconcile, the goroutines of finalizeCRD and the
\* caches of what they read.  The handlers may be stuck.
DeletionSpec ==
    /\ Spec
    /\ WF_vars(Reconciler)
    /\ WF_vars(StopForCRD) /\ WF_vars(DeleteSliceBranch) /\ WF_vars(PrivateBranch)
    /\ \A k \in {"es", "slice", "pvt"} : WF_vars(CacheSync(k))

-----------------------------------------------------------------------------
(* Properties.                                                             *)

\* Type invariant; the EndpointSlice is only ever written with addresses.
TypeOK ==
    /\ es \in ElastiServices /\ crd \in ElastiServices
    /\ slice \in IPs \cup {NoIPs} /\ ips \in IPs \cup {NoIPs}
    /\ pvt \in BOOLEAN /\ ready \in BOOLEAN
    /\ cache \in [es : ElastiServices, slice : BOOLEAN, pvt : BOOLEAN, ready : BOOLEAN,
                  ips : IPs \cup {NoIPs}]
    /\ watching \in BOOLEAN
    /\ directory \in Modes \cup {"absent"}
    /\ event \subseteq {"T", "R", "C"}
    /\ pc \in [Threads -> Labels]
    /\ tmode \in Modes
    /\ found \in [Handlers -> IPs \cup {NoIPs}]
    /\ \A h \in Handlers :
         pc[h] \in {"sliceGet", "sliceUpdate", "sliceCreate"} => found[h] \in IPs
    /\ changes \in 0 .. MaxChanges /\ faults \in 0 .. MaxFaults /\ restarts \in 0 .. MaxRestarts

\* Once the ElastiService is gone from the cluster the operator has forgotten
\* it: it is not in CRDDirectory, where it would keep the resolver handler and
\* the scale server at work for it, and its target is not watched.
GoneIsForgotten ==
    es.state = "gone" => directory = "absent" /\ ~watching

\* While the public service is pointed at the resolver, the private service the
\* resolver forwards to exists, as long as no API call has failed, whatever the
\* interleaving of the handlers and wherever the operator is restarted.
SliceHasPrivateService ==
    (faults = MaxFaults /\ slice # NoIPs /\ Live) => pvt

\* When the target stays up, the detour over the resolver is taken away for
\* good, even though the resolver handler works from a directory that may be
\* behind.
ServeConverges ==
    <>[](ready /\ Live) => <>[](slice = NoIPs)

\* When the target stays down and the resolver's pods stay the same, requests
\* end up at exactly those pods, with a private service to forward to.
ProxyConverges ==
    \A a \in IPs :
      <>[](~ready /\ Live /\ ips = a) => <>[](slice = a /\ pvt)

\* A deletion is carried out: the finalizer is retried until every part of it
\* has succeeded and is then removed.
DeletionCompletes ==
    es.state = "deleting" ~> es.state = "gone"

\* finalizeCRD resets the changes made for the ElastiService: when it is gone
\* and every handler has come to rest, the public service is not pointed at the
\* resolver.
FinalizedClean ==
    (es.state = "gone" /\ \A t \in Threads : pc[t] = "idle") => slice = NoIPs

\* In proxy mode requests for the service are intercepted: once the handlers
\* are done and no event is waiting, and the resolver has pods, the
\* EndpointSlice is there.
ProxyModeRedirects ==
    (/\ Live /\ es.mode = "proxy" /\ directory = "proxy"
     /\ ips # NoIPs /\ cache.ips = ips
     /\ \A h \in Handlers : pc[h] = "idle" /\ h \notin event)
      => slice # NoIPs
=============================================================================
