# A TLA+ development of KubeElasti

KubeElasti scales Kubernetes workloads to zero and back. This directory holds
TLA+ models of its concurrent parts, the TLC configurations that check them on
small instances, and TLAPS proofs of the results that matter most.
`PROJECT.json` lists components, runs, mutants, findings, hazards and theorems,
and maps every definition to the lines it models.

Run a configuration with `tlc -config <run>.cfg <MC module>` (the run
`Breaker_leak` uses `Breaker_leak.cfg` and `MCBreaker.tla`), check proofs
with `tlapm <module>.tla`.

## 1. The system

Two processes cooperate through the Kubernetes API and two HTTP calls: the
resolver reports requests to the operator and polls its directory.

**Resolver** (`resolver/`). While a workload is at zero, an EndpointSlice points
its public service at the resolver, which holds the requests until a pod is
there and forwards them over a private service.

| Part | State | Operations | Hard behaviours |
| --- | --- | --- | --- |
| semaphore | packed state word, channel of pokes | acquire, release | load/CAS races, lost wake-ups, cancellation |
| breaker | counter of in-flight slots | Maybe | CAS loops, limits, leaks |
| throttler | readiness map, queue sizes | Try | retries against deadline, stale readiness |
| host manager | map of hosts with two flags | GetHost, scheduled disable and enable | racing misses, overlapping timers |
| operator client | map of mutexes | SendIncomingRequestInfo | timers that release mutexes |
| request handler | response writer | ServeHTTP, probe answers, proxying | an answer and a deadline that both write |
| CRD cache | copy of the specs | fetch, match a probe | staleness, mixed answers |

**Operator** (`operator/`, `pkg/`).

| Part | State | Operations | Hard behaviours |
| --- | --- | --- | --- |
| scale handler | mutex per target | poll round, Scale, pause KEDA | stale decisions, races with the scale server and the finalizer |
| scalers, enabled period | one shared response | health, metric, period | odd answers, boundaries |
| scale server | none of its own | scale up on a report, list the directory | races with the poller and the reconciler |
| reconciler | sync.Once per informer, finalizer | Reconcile, finalizeCRD | stale caches, conflicts, partial failure, restart |
| mode switch | EndpointSlice, private service, status | switchMode, resolver changes | several writes without atomicity |
| CRD directory | map service to spec and mode | AddCRD, RemoveCRD, GetCRD | behind the cluster |
| informer manager | map of informers and stop channels | Add, StopInformer, StopForCRD | double close, leaks |

What must hold: limits are respected and nobody waits for ever; a request
reaches its target at most once and is answered truthfully; probes are answered
without waking the target; a host does not refuse requests for good; the
operator hears of waiting requests; waiting requests get a replica, idle targets
go to zero, the cooldown is kept; the routes end up as the state of the target
demands; the right target is watched; the resolver ends up with the current
specs; a deletion completes and leaves nothing behind.

## 2. Modules

    CountingSemaphore   what the semaphore promises (abstract)
    Semaphore           semaphore.go, refines CountingSemaphore
    Breaker             breaker.go, EXTENDS Semaphore and refines it
    Throttler           throttler.go, k8shelper/ops.go
    HostManager         hostManager.go and its part of handler.go
    OperatorClient      RPCClient.go (reports)
    Probe               crdcache/spec.go, operators only
    Handler             handler.go, writer.go, EXTENDS OperatorClient and Probe
    CRDCache            cache.go, RPCClient.go (cache), directory.go,
                        elastiServer.go (cache), Reconcile and Initialize
    PollRound           scale_handler.go (the round), scalers/, cronutil.go
    ScaleHandler        scale_handler.go (scaling), elastiServer.go, part of finalizeCRD
    ModeSwitch          controller/*.go
    InformerManager     informer.go, the watches of opsCRD.go, opsServices.go
    MC*                 instances for TLC
    BreakerProofs       theorems about Semaphore, Breaker and Throttler
    HandlerProofs       theorems about OperatorClient, Handler, Probe, HostManager
    InformerManagerLemmas, *Proofs   theorems about the module they are named after

**Semaphore.** `in` and `queue` are the lower half of the state word and the
buffered pokes; `pc` and `old` are a call's position and the value it loaded.
Each action is one atomic access. `updateCapacity` runs only inside
`newSemaphore`, so its effect is part of `SemInit`. The capacity may exceed the
size of the channel, as it does in the defaults (100 over 10) and in the chart (500
over 100); then pokes are dropped, and `Announceable` is what the channel can hold
of the capacity. The refinement mapping `Abs` reads `free` as
`InitialCapacity - in` and forgets channel and retries.

**Breaker** adds `inFlight` and the place of a call in `Maybe`. It reuses the
semaphore's actions, entering `acquire` in the step that takes the slot.
`releaseInFlightSlot` tries its compare-and-swap once, and so does `GiveBackCAS`.

**Throttler** keeps the control of `Try`: increment, attempts inside the breaker,
readiness check, resolve, deadline, sleep, decrement. The breaker is two
counters; `GiveSlotBack` keeps the choice that a slot is not given back.

**HostManager** models one host name. Hosts are heap objects named after the
request that allocated them, so that a cache miss replacing an entry is visible.
A timer runs for seconds and the sections between a load and its store for
microseconds; `Ripen` lets a timer fire only after a moment at which nobody is
inside such a section. Timers still race requests and each other.

**OperatorClient**: `GetMutex` is LoadOrStore, the POST of `Send` may fail, and the
deferred timer unlocks and deletes in two steps. `panicked` records a fatal unlock,
`by` the call whose mutex a call has stored or found.

**Probe** and **Handler.** A path is a sequence of characters (`Chars`) and a
regular expression the set of the texts it matches. `pathPrefix` compares
character by character as the code does; its reference `Under` follows the Gateway
API, whose semantics the API type promises: it cuts both texts into segments and
compares those, ignoring a slash at the end of the prefix. A request is answered by a probe
rule, refused because traffic is off, or admitted: then it starts a call of the
operator client (and one more per attempt that finds no endpoint), and `Try`
ends in an answer of the target, a broken one, a 502 or an error. `wire` is the
status of the first WriteHeader, which the client gets, and `recorded` that of
the last, which the metrics get. The deadline may pass at any moment of `Try`.

**CRDCache.** Reconcile is split where other goroutines can get in: the mutex and
the read, the finalizer, the entry, the removal. The listing of the directory and
the filling of the new copy go service by service. A version stands for a spec.
`kept` and `moved` record history for the properties.

**PollRound.** A round lists namespaces, and per ElastiService checks age,
period, and the health and metric of each trigger. An answer of Prometheus may
leave anything out, and what it leaves out keeps its value in
`promQueryResponse`. `IsInEnabledPeriodAt` searches for the last trigger as the
code does; `Enabled` is its reference. A value that is no string panics in
`executePromQuery`; nothing recovers it, so the operator is gone, and `Restart`
begins with an empty memory. `mood` makes Prometheus settle for the
regular ElastiServices.

**ScaleHandler** has three actors (poller, server, finalizer) that share `Touch`,
`Unpause`, `ScaleGet` and `ScaleUpdate`, and an environment: Deployment
controller, KEDA, autoscaler, triggers, requests, clock. `fresh` stands for the
resourceVersion of the scale subresource. `age` is that of lastScaledUpTime, `upAge`
the time since a scale-up began, whether or not `UpdateLastScaledUpTime` succeeded,
whose failure the code only logs (`unrecorded`). Ages saturate at the cooldown
period, the only value they are compared with. A trigger is its verdict; "unknown" joins
unhealthy and failed, which the code treats alike. `status` counts replicas that
are there and ready. A tick is longer than the resolver's report interval
(`Reported`), and a round of the poller takes at most `RoundTicks` ticks.

**ModeSwitch** has six threads: the handlers of the target informer (T) and the
resolver informer (R), Reconcile (C) and three goroutines of `finalizeCRD`. They
read `cache`, which follows each kind of object on its own (`CacheSync`), and
write to the cluster. A conflict on Update is inequality of the object and the
copy read. `updateCRDStatus` is a merge patch against the cached object, so a
mode the cache already shows is not sent. The per-service lock of `switchMode` is
left out: one informer delivers its events serially. `watchPublicService` is left
to InformerManager, the KEDA and scale-up part of `finalizeCRD` to ScaleHandler.

**InformerManager** has a thread for Reconcile, which watches the scale target,
one for the target handler, which watches the public service, one per key for
StopForCRD, and a handler per public service. `informers` is the map of the
manager, `watch` says what an informer watches and is None once its channel is
closed; closing it again sets `panicked`, and the operator restarts. A sync that
times out closes the channel and deletes the entry in two steps. `late` counts
target handlers that outlive their informer. A service is two versions: `routing`
for selector and ports, `rest` for labels and the other fields. The creation of the
private service copies both, its update only the first. `moved` records that
spec.service has changed.

## 3. Runs

Runs that pass:

| Run | What it shows | Bounds |
| --- | --- | --- |
| Breaker | admission bound, capacity in use up to what the channel announces, every call returns, refinement of CountingSemaphore | 4 calls, 4 slots, 2 units, a channel of 1: two hold, two wait, pokes are dropped; with a slot leaked before, one is rejected |
| HostManager | traffic that is off comes back | 3 requests: double miss, two timers and a third request |
| Throttler | proxied once, truthful answer, every request answered | 2 requests for 2 services, 2 slots, 1 unit: one waits while the other sleeps, and a leaked slot turns one away |
| Handler | probes exact and silent, the target's status stands and is recorded, operator told, timers release only their own mutex | 2 requests for namesakes in two namespaces, one of them with a retry; 25 lists of rules, 36 kinds of request |
| CRDCache | copy never older, nothing listed lost, convergence, deleted is forgotten | 1 ElastiService over 2 services, 2 versions, 1 failure, 1 restart |
| PollRound | once per round and in scope, down only if idle, periods, independence of the others | 4 ElastiServices in 3 namespaces, day of 2 ticks, horizon 5, all answers |
| ScaleHandler_safety | scale-down within the cooldown only in a race or if the time could not be recorded, a finalizer left alone leaves the target up | cooldown 2, KEDA, deletion, 1 failure |
| ScaleHandler_liveness | demand served, idle to zero, busy is up | cooldown 3, KEDA, 1 failure |
| ModeSwitch_deletion | gone is forgotten, slice has a private service, deletion completes | 1 address set, 1 failure, 1 restart |
| ModeSwitch_liveness | routes converge | 2 address sets, 1 change, 1 failure |
| InformerManager | no informer unseen, those of targets closed once and not left over, right target watched, private service follows | 2 targets, 1 service, 3 informers, 3 changes, 1 failure |

Calls, requests and addresses are only compared, never ordered. Four calls are
the fewest with which a wake-up is lost: two hold, two wait, and the second of two
releases drops its poke. All slots start free, or all but one that earlier calls
have leaked (`MCInit`), as Breaker_leak shows they can. The scale targets of
InformerManager play the same role, so that the first one is fixed (its `MCInit`).
Three informers are one more than can run at a time, so
that the manager never lacks one. The schedules of PollRound have a trigger
inside, at and outside the window the code searches. Budgets (`MaxFaults`,
`MaxChanges`, `MaxRestarts`, `MaxEdits`, `MaxVersion`) bound the environment,
never the program. Deadlock is checked except where everything is over in the end
(Breaker, HostManager, Handler, and an ElastiService that stays gone in
InformerManager).

The run in which the code disagrees with a statement of the repository
(quotation in `PROJECT.json`):

| Run | What happens |
| --- | --- |
| Breaker_leak | a release that loses its race leaks a slot; calls are rejected although the breaker is not full |

Further statements of the repository are written as properties of the modules and
kept out of the runs. TLC refutes each of them when it replaces the properties of
the run named, with the constants changed as shown:

| Property | Run and change | Statement it is taken from | What happens |
| --- | --- | --- | --- |
| NoLostWakeup | Breaker | semaphore.go:63-67 | a capacity above the channel's size loses wake-ups: a call sleeps next to a free unit until another one releases |
| ConcurrencyLimit | Breaker | breaker.go:18 | more thunks run than the limit |
| OneGraceTimer | HostManager | hostManager.go:94-95 | several grace timers for one host |
| DroppedForSameHost | Handler | cmd/main.go:39-40 | a report is dropped for a namesake in another namespace |
| ProbeConforms | Handler | elastiservice_types.go:51-53 | by the Gateway API the prefix `/a/` matches `/a`; `pathPrefix` does not |
| CooldownHonoured | ScaleHandler_safety | configure-elastiservice.md:69 | scale-down by a stale lastScaledUpTime, or one that could not be updated |
| ZeroDisablesCooldown | ScaleHandler_safety, CooldownPeriod = 0 | configure-elastiservice.md:69 | cooldown 0 means 15 minutes |
| ScaleUpKeepsReplicas | ScaleHandler_safety, MaxReplicas = 2 | scale_handler.go:411 | a scale-up lowers the replicas |
| DeletedIsUp | ScaleHandler_safety | opsCRD.go:117-118, 133-134 | a poll round that overlaps the finalizer pauses KEDA or scales to zero after it; or the replicas the finalizer counts are on their way out |
| AnyBusyTriggerIsUp | ScaleHandler_liveness, Triggers = 2, Keda = FALSE, MaxFaults = 0, both periods 2 | introduction.md:37 | an unhealthy trigger hides a busy one |
| FinalizedClean | ModeSwitch_deletion | opsCRD.go:77 | an EndpointSlice not yet cached survives the deletion |
| ProxyModeRedirects | ModeSwitch_deletion, MaxChanges = 2 | introduction.md:34 | proxy mode without EndpointSlice until the resync |
| InformerManager!NeverPanics | InformerManager | informer.go:1 | a deletion during the first sync of the public service closes its channel, and the failed sync closes it again |
| GoneIsUnwatched | InformerManager | opsCRD.go:82 | a target handler that outlives its informer starts the watch of the public service after the finalizer |
| PrivateMatches | InformerManager | state.md:142 | the update of the private service copies selector and ports; labels stay as they were |

Some properties are guarded, and TLC refutes them without the guard:

* `SliceHasPrivateService` speaks of behaviours without a failed API call
  (`faults = MaxFaults`); after a failure an EndpointSlice may exist without a
  private service (docs, architecture/state.md:131).
* `DownOnlyIfIdle` excepts answers that leave the value out: then the scaler
  judges by the value of another trigger (prometheus_scaler.go:211).
* `RecordedUnlessLate` excepts requests that were proxied when their deadline
  passed: the client has the status of the target, and behind its body the text
  "request timeout", the metrics have a 408.
* `ProbeExact` excepts a rule whose prefix is the path and a slash (`ProbeConforms`
  in the table).
* `OthersDoNotMatter` supposes that the operator does not crash for ever: an
  ElastiService whose answers hold no string (prometheus_scaler.go:232) ends every
  round before the others have their turn.
* `CooldownUnlessRacedOrUnrecorded` excepts the scale-ups of `CooldownHonoured`
  that are undone: those that begin after the poller has listed, and those whose
  time could not be recorded.
* `DeletedAtRestIsUp` excepts a finalizer that overlaps a round or a report
  (`DeletedIsUp`), `OnlyPublicPanics` the informer of the public service.
* `TargetWatched` and `PrivateFollows` except an ElastiService whose spec.service
  has changed. With Services = {s, t} and MaxEdits = 2 TLC finds both violated
  without the guard and confirms them with it: the directory has no entry for the
  new service, so that the old target stays watched; and the sync.Once of the public
  service is not reset, so that the new one is not watched (opsCRD.go:174, 226).
* `DeletedIsForgotten` excepts services an ElastiService has moved away from:
  their entries stay until the operator restarts.

One more observation: `ScheduleDisableTrafficForHost` also runs after a 502,
because `ProxyRequest` returns nil then; HostManager has that.

Each property of a passing run has a mutant of the code (definitions marked
"Mutant") under which TLC finds it violated.

Some invariants are left out of the runs because another property of the run is
stronger or a theorem covers them (section 5); all of them hold under TLC with the
constants of the run: the type invariants; `InCountsHolders`, `WithinCapacity`,
`NeverPanics`, `WaiterHasWaker` and `ImplementsSemaphore` (Breaker);
`OffHasTimer` (HostManager), which says that traffic that is off has a timer to
switch it on and is what `TrafficReturns` rests on; `ReadyExpires` (Throttler);
`OneSender` (Handler); `OneInformerPerKey` and `GaugeExact` (InformerManager).

What else can go wrong and is only described here: the queue sizes of the
throttler are loaded and stored in two steps and drift (in the model, but nothing
says what they must be, and only a status page reads them); a metric of -1 reads as
no value and keeps the target up; a stale copy of the status swallows a change of
mode (`updateCRDStatus`), which takes two changes of the target, one more than the
runs have; the recover in `ProxyRequest` also catches the abort of the reverse
proxy, so that a truncated body ends like a complete one.

## 4. Fairness

Goroutines that can run do, and a system call or thunk returns: weak fairness on
the steps of a call. Arrivals, context expiry (except in Throttler and Handler,
where every request has a deadline), the user, triggers and pods are not fair.

* Breaker: a receive on the channel is weakly fair. A channel serves its
  receivers first-in first-out, which gives at least that. `Progress` is what a
  goroutine does by itself; that a context ends is not counted on.
* Handler: the POST of the operator client returns. The HTTP client has no
  timeout, so this assumes that the operator answers or the connection breaks.
* CRDCache: the watch of the manager delivers, reconcilers run, every call of the
  poller returns. `LockGet` is strongly fair, because a Go mutex becomes first-in
  first-out for a waiter that has starved for a millisecond.
* PollRound: the goroutine of the poller runs; its queries have a timeout, and
  Kubernetes restarts an operator that has crashed.
* ScaleHandler: the ticker, the reports of the resolver, the workqueue and the
  Deployment controller proceed. `ScaleGet` is strongly fair for the same reason
  as `LockGet`.
* ModeSwitch: handlers run, caches catch up and informers resync every five
  minutes. Reconciliation that failed is queued again. For the deletion
  (`DeletionSpec`) Reconcile, the goroutines of the finalizer and the caches of the
  ElastiService, the EndpointSlice and the private service are enough.
* InformerManager: Reconcile, handlers and the goroutines that stop informers run
  while the process lives, and Kubernetes restarts it when it has panicked.

## 5. Proofs

All theorems hold for every value of the constants that satisfies the named
assumptions.

* **BreakerProofs**, semaphore. `SemInv` adds to the type invariant that `in` is
  the number of holders. A successful compare-and-swap acts on the current value,
  so each step changes both sides alike; cardinality facts come from
  FiniteSetTheorems. Capacity, panic freedom and the refinement of
  CountingSemaphore follow. `InUse` says that buffered pokes, active calls and taken
  units together reach what the channel can announce. Dropping a poke keeps it,
  because the channel is full then. It gives `SemCapacityInUse` for every capacity
  and size of the channel; where the capacity is not zero, a waiter always has
  somebody to wake it (`SemWaiterHasWaker`), the safety half of `EveryCallReturns`.
* **BreakerProofs**, breaker. Every breaker step is a step of the semaphore or
  leaves it alone (`BreakerRefinement`), so the semaphore's theorems carry over.
  `SlotInv` says that the counter is at least the number of calls inside, which is
  all that survives a failed release. `BreakerConcurrency` says what does limit the
  concurrency, whatever the settings: the capacity, and the slots.
* **BreakerProofs**, throttler. `TryInv` says of each
  request that it is tried again only while it was not proxied, that the error is
  clear during an attempt, and that the error it returns is that of its last
  attempt. A service marked ready has a timer from the same step on.
* **HandlerProofs**, operator client. `OwnerInv`: from LoadOrStore until the
  deletion by its timer a call is the entry of its service in the map. Hence one
  sender, and no timer meets a foreign mutex. Each step of the handler is a step of
  the client or leaves it alone (lemma `HandlerUsesClient`), so this holds inside the
  handler (`HandlerReleasesOwnMutex`).
* **HandlerProofs**, handler. `HandlerInv` says for each stage of a request what
  may have been written and whom it may have told. It is needed because the
  deadline may pass at any moment of `Try`: that the first WriteHeader counts
  (`TargetAnswerStands`), that the metrics differ only for a late request
  (`RecordedUnlessLate`) and that a probe tells nobody (`ProbeIsSilent`) follow.
* **HandlerProofs**, probes. `MatchIsExpected`: for every list of rules and every
  request `MatchProbeResponseFromSpec` returns what the reference calls for, unless a
  slash decides. The core is `PrefixButSlash`: comparing characters up to a slash is
  comparing segments, except for a prefix that is the path and a slash. In one
  direction the texts agree, hence the places of the slashes and
  the segments between them (`PartsEqual`); in the other every character lies in a
  segment (`SegmentOf`), and equal segments have equal characters (`PartsAgree`).
  `ProbeExact` follows for every behaviour of the handler.
* **HandlerProofs**, host manager (an instance of HostManager). `HostInv` has two
  phases. Until a timer can fire (`Fresh`) all traffic is allowed, and cache misses
  may replace the entry. The first moment at which a timer is ripe is one at which
  nobody is about to store a Host; from then on (`Fixed`) every store writes back
  the Host that is there, and whoever switches its traffic off has started the
  timer that switches it on. `OneStart`, that a timer belongs to a request that is
  done, is needed to know that no timer is started anew. This is the safety half
  of `TrafficReturns`, for any number of requests.
* **PollRoundProofs**, scope. `RoundInv`: an ElastiService in scope has had its
  turn, is listed, has a query to come, or had one that failed, and whoever is
  listed or has a query to come has not had a turn. It rests on `RoundQueries`, that
  `effectiveWatchNamespaces` puts out each namespace once, drops empty names and
  leaves none out.
* **PollRoundProofs**, decisions. `ItemInv` adds to `PeriodRespected` that a round
  goes on to the next query only while all answers say idle or one left its value
  out; `AnswerIsTaken` goes through the answers. `PeriodIsFound` shows that the
  search of `findLastTriggerTime`, trigger by trigger in a window of the duration
  plus a day, agrees with `Enabled`, which has no window: a trigger before the
  window is more than the duration ago, and the search ends at the last trigger
  not after now.
* **CRDCacheProofs.** `CacheInv`: versions only fall on the way from the API
  server over the manager's cache, the copy a Reconcile has read, the directory,
  the answer and the new copy to the cache. The hard part is that two reconcilers
  store into the directory: `NoNewer` says that nothing stored is newer than what
  the holder of the mutex has read, which is true because the mutex is taken
  before the read. `Behind` keeps a late finalizer from meeting a new version.
  `Kept` follows a service that stays listed through the two loops of a fetch.
* **InformerManagerLemmas, InformerManagerProofs.** `ManagerInv`: what a thread
  that starts or stops an informer has found is still so when it acts. It rests
  on the division of labour (`Roles`): only Reconcile starts and stops informers
  of targets, and it waits while the goroutines of StopForCRD run. Informers of
  the public service are started by another thread, which is why
  `OnlyPublicPanics` excepts them.
* **ScaleHandlerProofs.** `ScaleInv`: until another actor touches it,
  lastScaledUpTime is as old as the copy the poller listed, and as the last scale-up
  unless that could not be recorded (`Cooldown`), hence
  `CooldownUnlessRacedOrUnrecorded`. `Restored` follows a finalizer that finds the target at
  rest and is left alone, step by step.
* **ModeSwitchProofs.** `FinalizerInv` ties the deletion timestamp, the copy
  Reconcile holds and the places of the finalizer's goroutines together; from the
  join to the removal of the finalizer nothing can put the directory entry or the
  watch back. `PrivateInv` follows what T and R know about the private service:
  as long as no call has failed, the status and the directory say proxy, in the
  cluster, cache or a copy, only once the private service exists.

The loops of `effectiveWatchNamespaces` and `findLastTriggerTime` are recursive
functions. The library's induction theorems cannot be used, because they take an
operator as parameter; instead `LeastNumber`, from `WFMin` and the well-foundedness
of the natural numbers, gives the least number for which a claim would fail, and
the proof refutes that one. `FirstPlace` does the same for places in a path.

What the constants are assumed to be, beyond being what their comments say:

* `CapacityAssumption`, `QueueDepthAssumption`, `CallsAssumption`: limits are
  natural numbers, and there are finitely many calls.
* `CharsAssumption`, `ProbeAssumption`: "/" is a character, a path and a prefix are
  finite texts, and a list of rules is a list whose path has a type and a value
  (`ElastiServiceSpec` after json.Unmarshal).
* `PollAssumption`: the operator's namespace is not empty (`getEnvStringOrPanic`),
  an ElastiService has a namespace, the watched namespaces are a list, a day is
  positive and a schedule triggers at natural times. `Horizon` is any number; it
  bounds the clock, and the times the default schedule has.
* `CRDCacheAssumption`: no two ElastiServices name the same service (section 6).
* The remaining assumptions say that the names for "none" name nothing else, that
  calls and requests are for services, and that settings and budgets have their
  types.

TLC evaluates all of them in the runs.

Every safety invariant, action property and refinement that a passing run checks
is proved. Only model-checked are the liveness properties (fairness and ENABLED
are out of the prover's reach): `EveryCallReturns`, `TrafficReturns`,
`EveryRequestAnswered`, `MutexDeleted`, `OperatorTold`, `CacheConverges`,
`DeletedIsForgotten`, `OthersDoNotMatter`, `DemandServed`, `IdleScalesToZero`,
`BusyIsUp`, `DeletionCompletes`, `ServeConverges`, `ProxyConverges`,
`TargetWatched` and `PrivateFollows`; and, outside the runs, `GaugeExact` and the
type invariants of Throttler, PollRound and InformerManager.

## 6. Not modelled

* Proxying of bytes, the status pages, metrics other than InformerGauge and the
  recorded status, events, logging, configuration parsing, generated code.
* The dial back-off of the transport: a bounded loop of timed dials that shares
  nothing. Its outcomes are those of `Try` in Handler.
* The parsing of host names: text processing. HostManager starts from one name.
* The cron parser and the Prometheus client, which are libraries: a schedule is
  the set of its trigger times, an answer is what decoding it gives.
* Case folding and trimming in the matching of probes.
* `ShouldScaleFromZero` and `Cache.Stop`, which have no callers, and
  `Manager.Stop`, which runs when the process ends.
* The resolver informer of the manager, which is started once and never stopped;
  its handler is in ModeSwitch.
* Two ElastiServices that name the same service: they would share a directory
  entry, an EndpointSlice and a private service, and nothing defines the outcome.
* One composition of ScaleHandler, ModeSwitch and the resolver: the product of
  their states is out of TLC's reach. They meet in the constants of the
  environments: the demand and the replicas of ScaleHandler, the readiness of
  ModeSwitch and Throttler, the entries of the directory.
