---------------------------- MODULE ScaleHandler ----------------------------
(***************************************************************************)
(* Scaling of one ElastiService's target (pkg/scaling/scale_handler.go) by *)
(* everything that scales it:                                              *)
(*   - the poller, checkAndScale, which lists the ElastiServices, asks the *)
(*     triggers and scales down or up;                                     *)
(*   - the operator's HTTP server, scaleTargetForService, which scales up  *)
(*     when the resolver reports a request;                                *)
(*   - the finalizer, which restores the target when the ElastiService is  *)
(*     deleted (the scaling part of finalizeCRD).                          *)
(* Around them are the Deployment (whose status follows its spec), KEDA,   *)
(* an autoscaler or user, the Prometheus triggers and the requests that    *)
(* wait in the resolver.                                                   *)
(*                                                                         *)
(* Time is kept as ages that grow to the cooldown and stay there: the age  *)
(* of lastScaledUpTime, of the copy of it the poller listed, of the last   *)
(* scale-up, recorded in lastScaledUpTime or not, and of the ElastiService.*)
(***************************************************************************)
EXTENDS Naturals

CONSTANTS
  Triggers,              \* number of triggers
  MinTargetReplicas,     \* spec.minTargetReplicas
  CooldownPeriod,        \* spec.cooldownPeriod, in ticks
  DefaultCooldownPeriod, \* what an unset period stands for, in ticks
  Deletable,             \* the ElastiService may be deleted
  Keda,                  \* the autoscaler is KEDA
  RoundTicks,            \* bound on the ticks a round of the poller takes
  MaxReplicas,           \* bound on the replicas an autoscaler asks for
  MaxFaults              \* bound on the calls of the Kubernetes API that fail

ASSUME ScaleAssumption ==
  /\ Triggers \in Nat /\ MinTargetReplicas \in Nat /\ CooldownPeriod \in Nat
  /\ DefaultCooldownPeriod \in Nat \ {0}
  /\ Keda \in BOOLEAN /\ Deletable \in BOOLEAN
  /\ RoundTicks \in Nat /\ MaxReplicas \in Nat \ {0} /\ MaxFaults \in Nat

VARIABLES
  spec, status,    \* replicas of the target: asked for, and there
  paused,          \* KEDA's paused annotations are set
  es,              \* the ElastiService: "live", "deleting", "gone"
  directory,       \* the CRD directory has its entry
  age,             \* since status.lastScaledUpTime
  esAge,           \* since its creation
  verdict,         \* what each trigger answers
  inPeriod,        \* the enabled period holds now
  demand,          \* requests wait in the resolver
  pc,              \* where each actor is
  snapAge,         \* since the lastScaledUpTime that the poller listed
  trigger,         \* the trigger the poller asks next
  lock,            \* who holds the mutex of Scale
  fresh,           \* the target is as the holder has read it
  ticked,          \* ticks since the poller listed
  upAge,           \* since poller or server last began to scale up
  unrecorded,      \* lastScaledUpTime could not be updated then, within the
                   \* cooldown
  raced,           \* a scale-up began since the poller listed
  rested,          \* the target was at rest at 0 when finalizeCRD began, and
                   \* neither poller nor server has overlapped it since
  faults           \* calls that have failed

kube == <<spec, status, paused>>
env == <<verdict, inPeriod, demand>>
clock == <<age, esAge, snapAge, upAge, ticked>>
scaling == <<lock, fresh>>
notes == <<unrecorded, raced, rested>>
vars == <<kube, es, directory, clock, env, pc, trigger, scaling, notes, faults>>

Actors == {"poller", "server", "finalizer"}
Verdicts == {"idle", "busy", "unknown"}   \* unknown: unhealthy or failed

resolveCooldownPeriod ==
  IF CooldownPeriod = 0 THEN DefaultCooldownPeriod ELSE CooldownPeriod

(* ScaleToMinReplicas: at least 1. *)
minReplicas == IF MinTargetReplicas < 1 THEN 1 ELSE MinTargetReplicas

Init ==
  /\ spec = 1 /\ status = 1
  /\ paused = FALSE
  /\ es = "live" /\ directory = TRUE
  /\ age = resolveCooldownPeriod /\ esAge = 0 /\ snapAge = resolveCooldownPeriod
  /\ upAge = resolveCooldownPeriod /\ unrecorded = FALSE
  /\ verdict = [t \in 1..Triggers |-> "busy"]
  /\ inPeriod = TRUE
  /\ demand = FALSE
  /\ pc = [a \in Actors |-> "idle"]
  /\ trigger = 1
  /\ lock = "free" /\ fresh = FALSE
  /\ raced = FALSE /\ rested = FALSE /\ ticked = 0
  /\ faults = 0

Goto(a, l) == pc' = [pc EXCEPT ![a] = l]

(* A call of the Kubernetes API either succeeds or fails. *)
Calls(ok) == ok \/ faults < MaxFaults
Count(ok) == faults' = IF ok THEN faults ELSE faults + 1

-----------------------------------------------------------------------------
(* checkAndScale lists the ElastiServices, those being deleted included.   *)
List(ok) ==
  /\ pc["poller"] = "idle" /\ es # "gone"
  /\ Calls(ok) /\ Count(ok)
  /\ IF ok
     THEN /\ Goto("poller", "calculate")
          /\ snapAge' = age /\ ticked' = 0 /\ raced' = FALSE /\ rested' = FALSE
     ELSE UNCHANGED <<pc, snapAge, ticked, raced, rested>>
  /\ UNCHANGED <<kube, es, directory, age, esAge, upAge, env, trigger, scaling, unrecorded>>

(* calculateScaleDirection, before the triggers: no triggers and an        *)
(* ElastiService younger than the cooldown end the round; outside the      *)
(* enabled period the target is kept up.                                   *)
Calculate ==
  /\ pc["poller"] = "calculate"
  /\ trigger' = 1
  /\ Goto("poller", IF Triggers = 0 \/ esAge < resolveCooldownPeriod THEN "idle"
                    ELSE IF inPeriod THEN "trigger" ELSE "touch")
  /\ UNCHANGED <<kube, es, directory, clock, env, scaling, notes, faults>>

(* One trigger after the other is asked.  The first that fails or is       *)
(* unhealthy ends the round, the first that is busy means scale up; only   *)
(* when all are idle the target is scaled down.                            *)
AskTrigger ==
  /\ pc["poller"] = "trigger"
  /\ LET v == verdict[trigger] IN
     Goto("poller", CASE v = "unknown" -> "idle"
                      [] v = "busy" -> "touch"
                      [] v = "idle" ->
                           IF trigger = Triggers THEN "cooldown" ELSE "trigger")
  /\ trigger' = IF trigger < Triggers THEN trigger + 1 ELSE trigger
  /\ UNCHANGED <<kube, es, directory, clock, env, scaling, notes, faults>>

(* Mutant: the cooldown never ends. *)
CheckCooldownOffByOne ==
  /\ pc["poller"] = "cooldown"
  /\ Goto("poller", IF snapAge <= resolveCooldownPeriod THEN "idle"
                    ELSE IF Keda THEN "pause" ELSE "get")
  /\ UNCHANGED <<kube, es, directory, clock, env, trigger, scaling, notes, faults>>

(* handleScaleToZero: the cooldown, by the listed lastScaledUpTime. *)
CheckCooldown ==
  /\ pc["poller"] = "cooldown"
  /\ Goto("poller", IF snapAge < resolveCooldownPeriod THEN "idle"
                    ELSE IF Keda THEN "pause" ELSE "get")
  /\ UNCHANGED <<kube, es, directory, clock, env, trigger, scaling, notes, faults>>

(* ...pauses KEDA at 0 replicas... *)
PauseKeda(ok) ==
  /\ pc["poller"] = "pause"
  /\ Calls(ok) /\ Count(ok)
  /\ paused' = (paused \/ ok)
  /\ Goto("poller", IF ok THEN "get" ELSE "idle")
  /\ UNCHANGED <<spec, status, es, directory, clock, env, trigger, scaling, notes>>

-----------------------------------------------------------------------------
(* The resolver reports a waiting request: scaleTargetForService looks the *)
(* ElastiService up in the directory.                                      *)
Notify ==
  /\ pc["server"] = "idle" /\ demand
  /\ directory
  /\ Goto("server", "touch")
  /\ rested' = FALSE
  /\ UNCHANGED <<kube, es, directory, clock, env, trigger, scaling, unrecorded, raced, faults>>

(* Reconcile of an ElastiService with a deletion timestamp. *)
Finalize ==
  /\ pc["finalizer"] = "idle" /\ es = "deleting"
  /\ Goto("finalizer", IF Keda THEN "unpause" ELSE "getUp")
  /\ rested' = (spec = 0 /\ status = 0 /\ pc["poller"] = "idle" /\ pc["server"] = "idle")
  /\ UNCHANGED <<kube, es, directory, clock, env, trigger, scaling, unrecorded, raced, faults>>

(* Mutant: only the poller's scale-ups are recorded. *)
TouchByPollerOnly(a, ok) ==
  /\ pc[a] = "touch"
  /\ Calls(ok) /\ Count(ok)
  /\ LET recorded == ok /\ es # "gone" IN
     /\ age' = IF recorded /\ a = "poller" THEN 0 ELSE age
     /\ unrecorded' = ~recorded
  /\ upAge' = 0
  /\ raced' = (raced \/ a # "poller")
  /\ Goto(a, IF Keda THEN "unpause" ELSE "getUp")
  /\ UNCHANGED <<kube, es, directory, esAge, snapAge, ticked, env, trigger, scaling, rested>>

(* A scale-up begins with UpdateLastScaledUpTime, whose failure is only    *)
(* logged: the target is scaled up all the same.                           *)
Touch(a, ok) ==
  /\ pc[a] = "touch"
  /\ Calls(ok) /\ Count(ok)
  /\ LET recorded == ok /\ es # "gone" IN
     /\ age' = IF recorded THEN 0 ELSE age
     /\ unrecorded' = ~recorded
  /\ upAge' = 0
  /\ raced' = (raced \/ a # "poller")
  /\ Goto(a, IF Keda THEN "unpause" ELSE "getUp")
  /\ UNCHANGED <<kube, es, directory, esAge, snapAge, ticked, env, trigger, scaling, rested>>

(* Mutant: the annotations are left as they are. *)
UnpauseForgotten(a, ok) ==
  /\ pc[a] = "unpause"
  /\ Calls(ok) /\ Count(ok)
  /\ Goto(a, "getUp")
  /\ UNCHANGED <<kube, es, directory, clock, env, trigger, scaling, notes>>

(* UpdateKedaScaledObjectPausedState(false).  On failure the poller and    *)
(* the server give up; the finalizer goes on and fails in the end.         *)
Unpause(a, ok) ==
  /\ pc[a] = "unpause"
  /\ Calls(ok) /\ Count(ok)
  /\ paused' = (paused /\ ~ok)
  /\ Goto(a, IF ok THEN "getUp" ELSE IF a = "finalizer" THEN "getUpFailed" ELSE "idle")
  /\ UNCHANGED <<spec, status, es, directory, clock, env, trigger, scaling, notes>>

(* What follows Scale. *)
AfterScale(a, failed) ==
  IF a # "finalizer" THEN "idle" ELSE IF failed THEN "removeFailed" ELSE "remove"

Down(a) == pc[a] = "get"
Desired(a) == IF Down(a) THEN 0 ELSE minReplicas

(* Scale compares the replicas the target has. *)
NoScaleRequired(desired) ==
  status = desired \/ (desired > 0 /\ status > desired)

(* Scale takes the mutex of the target and reads its scale.  The read is   *)
(* retried once when the kind is not known, and may still fail.            *)
ScaleGet(a, ok) ==
  /\ pc[a] \in {"get", "getUp", "getUpFailed"}
  /\ lock = "free"
  /\ Calls(ok) /\ Count(ok)
  /\ LET failed == pc[a] = "getUpFailed" IN
     IF ~ok \/ NoScaleRequired(Desired(a))
     THEN Goto(a, AfterScale(a, failed \/ ~ok)) /\ UNCHANGED scaling
     ELSE /\ Goto(a, IF Down(a) THEN "update"
                     ELSE IF failed THEN "updateUpFailed" ELSE "updateUp")
          /\ lock' = a /\ fresh' = TRUE
  /\ UNCHANGED <<kube, es, directory, clock, env, trigger, notes>>

(* The update is rejected when the target has changed since the read. *)
ScaleUpdate(a, ok) ==
  /\ pc[a] \in {"update", "updateUp", "updateUpFailed"}
  /\ Calls(ok) /\ Count(ok)
  /\ LET applied == ok /\ fresh IN
     /\ spec' = IF ~applied THEN spec
                ELSE IF pc[a] = "update" THEN 0 ELSE minReplicas
     /\ Goto(a, AfterScale(a, ~applied \/ pc[a] = "updateUpFailed"))
  /\ lock' = "free" /\ fresh' = FALSE
  /\ UNCHANGED <<status, paused, es, directory, clock, env, trigger, notes>>

(* finalizeCRD removes the directory entry in any case; when a part has    *)
(* failed, reconciliation is retried, otherwise the finalizer is removed   *)
(* and the ElastiService is gone.                                          *)
RemoveCRD ==
  /\ pc["finalizer"] \in {"remove", "removeFailed"}
  /\ directory' = FALSE
  /\ es' = IF pc["finalizer"] = "remove" THEN "gone" ELSE es
  /\ Goto("finalizer", "idle")
  /\ UNCHANGED <<kube, clock, env, trigger, scaling, notes, faults>>

-----------------------------------------------------------------------------
(* The Deployment's controller: status follows spec. *)
Converge ==
  /\ status # spec
  /\ status' = spec /\ fresh' = FALSE
  /\ UNCHANGED <<spec, paused, es, directory, clock, env, pc, trigger, lock, notes, faults>>

(* KEDA holds a paused target at the paused replicas, 0. *)
KedaHolds ==
  /\ Keda /\ paused /\ spec # 0
  /\ spec' = 0 /\ fresh' = FALSE
  /\ UNCHANGED <<status, paused, es, directory, clock, env, pc, trigger, lock, notes, faults>>

(* An autoscaler (an HPA leaves a target at 0 alone, KEDA does not).       *)
Autoscale ==
  /\ spec > 0 \/ (Keda /\ ~paused)
  /\ \E n \in 1..MaxReplicas : n # spec /\ spec' = n
  /\ fresh' = FALSE
  /\ UNCHANGED <<status, paused, es, directory, clock, env, pc, trigger, lock, notes, faults>>

Older(x) == IF x < resolveCooldownPeriod THEN x + 1 ELSE x

(* A tick is longer than the resolver takes to report a waiting request    *)
(* again, and to find that a replica is there: while requests wait and the *)
(* operator knows the service, lastScaledUpTime is renewed in every tick.  *)
Reported == demand => status = 0 /\ (directory => age = 0)

Tick ==
  /\ Reported
  /\ IF pc["poller"] = "idle" THEN ticked' = 0
     ELSE ticked < RoundTicks /\ ticked' = ticked + 1
  /\ age' = Older(age) /\ esAge' = Older(esAge) /\ snapAge' = Older(snapAge)
  /\ upAge' = Older(upAge)
  /\ unrecorded' = (unrecorded /\ upAge' < resolveCooldownPeriod)
  /\ UNCHANGED <<kube, es, directory, env, pc, trigger, scaling, raced, rested, faults>>

TriggersChange ==
  /\ verdict' \in [1..Triggers -> Verdicts]
  /\ UNCHANGED <<kube, es, directory, clock, inPeriod, demand, pc, trigger, scaling, notes, faults>>

PeriodChanges ==
  /\ inPeriod' = ~inPeriod
  /\ UNCHANGED <<kube, es, directory, clock, verdict, demand, pc, trigger, scaling, notes, faults>>

RequestWaits ==
  /\ ~demand /\ demand' = TRUE
  /\ UNCHANGED <<kube, es, directory, clock, verdict, inPeriod, pc, trigger, scaling, notes, faults>>

(* A replica is there: the waiting requests are proxied. *)
RequestsServed ==
  /\ demand /\ status > 0 /\ demand' = FALSE
  /\ UNCHANGED <<kube, es, directory, clock, verdict, inPeriod, pc, trigger, scaling, notes, faults>>

Delete ==
  /\ Deletable /\ es = "live" /\ es' = "deleting"
  /\ UNCHANGED <<kube, directory, clock, env, pc, trigger, scaling, notes, faults>>

(* The actors' steps that call the Kubernetes API. *)
CallStep(a, ok) ==
  \/ a = "poller" /\ (List(ok) \/ PauseKeda(ok))
  \/ Touch(a, ok) \/ Unpause(a, ok) \/ ScaleGet(a, ok) \/ ScaleUpdate(a, ok)

Poller == Calculate \/ AskTrigger \/ CheckCooldown \/ \E ok \in BOOLEAN : CallStep("poller", ok)
Server == Notify \/ \E ok \in BOOLEAN : CallStep("server", ok)
Finalizer == Finalize \/ RemoveCRD \/ \E ok \in BOOLEAN : CallStep("finalizer", ok)

Environment ==
  \/ Converge \/ KedaHolds \/ Autoscale \/ Tick \/ TriggersChange
  \/ PeriodChanges \/ RequestWaits \/ RequestsServed \/ Delete

Next == Poller \/ Server \/ Finalizer \/ Environment

Spec == Init /\ [][Next]_vars

(* The poller's ticker fires, the resolver reports waiting requests again, *)
(* reconciliation is retried, the Deployment's controller works, the       *)
(* resolver finds replicas, time passes.  The mutex of Scale is never held *)
(* for good.                                                               *)
Fairness ==
  /\ WF_vars(Poller) /\ WF_vars(Server) /\ WF_vars(Finalizer)
  /\ \A a \in Actors : SF_vars(\E ok \in BOOLEAN : ScaleGet(a, ok))
  /\ WF_vars(Converge) /\ WF_vars(Tick) /\ WF_vars(RequestsServed)

FairSpec == Spec /\ Fairness

-----------------------------------------------------------------------------
Places ==
  {"idle", "calculate", "trigger", "cooldown", "pause", "touch", "unpause", "get",
   "getUp", "getUpFailed", "update", "updateUp", "updateUpFailed", "remove",
   "removeFailed"}

(* The types; the mutex of Scale is held exactly between its read and its  *)
(* update.                                                                 *)
TypeOK ==
  /\ spec \in Nat /\ status \in Nat
  /\ paused \in BOOLEAN
  /\ es \in {"live", "deleting", "gone"}
  /\ directory \in BOOLEAN
  /\ {age, esAge, snapAge, upAge} \subseteq 0..resolveCooldownPeriod
  /\ verdict \in [1..Triggers -> Verdicts]
  /\ ticked \in 0..RoundTicks
  /\ inPeriod \in BOOLEAN /\ demand \in BOOLEAN
  /\ pc \in [Actors -> Places]
  /\ trigger \in 1..(Triggers + 1)
  /\ lock \in Actors \cup {"free"}
  /\ fresh \in BOOLEAN /\ unrecorded \in BOOLEAN /\ raced \in BOOLEAN /\ rested \in BOOLEAN
  /\ faults \in 0..MaxFaults
  /\ \A a \in Actors :
       pc[a] \in {"update", "updateUp", "updateUpFailed"} <=> lock = a

(* The poller pauses KEDA or sets the target to 0. *)
PollerScalesDown ==
  \/ pc["poller"] = "pause" /\ pc'["poller"] = "get"
  \/ pc["poller"] = "update" /\ pc'["poller"] = "idle" /\ spec' # spec

(* The target is scaled down within the cooldown after a scale-up, counted *)
(* from where the scale-up began, only if it began between the poller's    *)
(* listing and its scaling down, or if it is not recorded because          *)
(* UpdateLastScaledUpTime failed, which is only logged                     *)
(* (scale_handler.go:310-312, elastiServer.go:197-199).                    *)
CooldownUnlessRacedOrUnrecorded ==
  [][PollerScalesDown => upAge = resolveCooldownPeriod \/ raced \/ unrecorded]_vars

(* "Cooldown period (in seconds) to wait after scaling up before           *)
(* considering scale down", without these two exceptions.                  *)
CooldownHonoured ==
  [][PollerScalesDown => upAge = resolveCooldownPeriod]_vars

(* "Minimum: 0 (disable cooldown)": with the period 0 a target whose       *)
(* triggers are idle is scaled down without waiting.                       *)
ZeroDisablesCooldown ==
  [][CooldownPeriod = 0 /\ pc["poller"] = "cooldown" /\ pc'["poller"] # "cooldown"
       => pc'["poller"] # "idle"]_vars

(* "Check if already scaled beyond desired (for scale up operations)": a   *)
(* scale-up does not take replicas away.                                   *)
ScaleUpKeepsReplicas ==
  [][\A a \in Actors : pc[a] = "updateUp" /\ pc'[a] # "updateUp" => spec' >= spec]_vars

Quiescent == pc = [a \in Actors |-> "idle"] /\ status = spec

(* "so deleting ElastiService while scaled to zero does not leave the      *)
(* workload at 0 replicas" and "If the ES is deleted while the target is   *)
(* at zero, those annotations would otherwise linger and KEDA would never  *)
(* resume scaling": a target that is at rest at 0 when the finalizer       *)
(* begins is up with KEDA not paused in the end, unless the poller or the  *)
(* scale server is at work at the same time.                               *)
DeletedAtRestIsUp == es = "gone" /\ Quiescent /\ rested => spec > 0 /\ ~paused

(* The same without the exception. *)
DeletedIsUp == es = "gone" /\ Quiescent => spec > 0 /\ ~paused

(* A request that waits for a target without replicas gets one: the        *)
(* reports of the resolver win over every stale decision of the poller, so *)
(* that again and again none waits.                                        *)
DemandServed == []<>~(demand /\ es = "live")

AllAre(v) == \A t \in 1..Triggers : verdict[t] = v

(* A target whose triggers stay idle, and for which no requests wait, is   *)
(* at 0 from some time on, unless an autoscaler keeps changing it.         *)
IdleScalesToZero ==
  /\ <>[](es = "live" /\ AllAre("idle") /\ inPeriod /\ ~demand)
  /\ <>[][~Autoscale]_vars
  => <>[](spec = 0)

(* A target whose triggers stay busy is up from some time on, and KEDA is  *)
(* not paused, whatever happened before.                                   *)
BusyIsUp ==
  <>[](es = "live" /\ AllAre("busy")) => <>[](spec > 0 /\ ~paused)

(* "If any trigger signals a need for activity, KubeElasti immediately     *)
(* scales the service back up".                                            *)
AnyBusyTriggerIsUp ==
  \A t \in 1..Triggers :
    <>[](es = "live" /\ verdict[t] = "busy") => []<>(spec > 0)
=============================================================================
