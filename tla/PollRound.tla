------------------------------ MODULE PollRound ------------------------------
(***************************************************************************)
(* One round after the other of the poller (checkAndScale) over all        *)
(* ElastiServices: which namespaces it lists, which decision it takes for  *)
(* each ElastiService, and what its Prometheus scaler makes of the answers *)
(* of Prometheus.  ScaleHandler has what scaling itself does.              *)
(*                                                                         *)
(* An ElastiService is a record: its namespace, its triggers, its enabled  *)
(* period (NoPeriod if unset) and when it is old enough to be scaled.  All *)
(* scalers decode into one package-level variable, promQueryResponse; what *)
(* an answer leaves out keeps the value an earlier answer gave it.         *)
(***************************************************************************)
EXTENDS Integers, Sequences, FiniteSets, Functions

CONSTANTS
    Items,                   \* the ElastiServices
    Watches,                 \* settings of the watched namespaces to check
    OperatorNS, ResolverNS,  \* namespaces of operator and resolver
    NamespaceAll,            \* the query for all namespaces
    NoPeriod,                \* no enabledPeriod
    NoAddress,               \* no server address
    DefaultAddress,          \* PROMETHEUS_TRIGGER_SERVER_ADDRESS
    AllowedAddresses,        \* ..._ALLOWED_SERVER_ADDRESSES, {} for any
    Metrics,                 \* numbers Prometheus answers with
    Day,                     \* ticks in 24 hours
    Horizon                  \* bound on the clock

Namespaces == {i.namespace : i \in Items}
Queries == Namespaces \cup {OperatorNS, ResolverNS, NamespaceAll}

\* The operator does not start without its namespace (getEnvStringOrPanic), a
\* namespace has a name, and a schedule triggers at points in time.
ASSUME PollAssumption ==
    /\ OperatorNS # NamespaceAll
    /\ Watches \subseteq Seq(UNION {Range(w) : w \in Watches})
    /\ Day \in Nat \ {0} /\ Horizon \in Nat
    /\ \A i \in Items :
        /\ i.namespace # NamespaceAll
        /\ i.period # NoPeriod => i.period.schedule \subseteq Nat /\ i.period.duration \in Int

VARIABLES
    watch,      \* the configured namespaces
    now,        \* the clock
    mood,       \* what Prometheus answers for the regular ElastiServices
    response,   \* promQueryResponse
    pc,         \* where the round is
    queries,    \* namespaces the round still has to list
    listed,     \* ElastiServices listed and not yet handled
    item, trigger,
    target,     \* what each target was last scaled to
    turns,      \* how often the round has handled an ElastiService
    unlisted,   \* queries that have failed in this round
    idle,       \* all answers for item say it is idle
    omitted,    \* an answer for item left out the value
    checked     \* when the enabled period of item was checked

round == <<pc, queries, listed, item, trigger>>
evidence == <<idle, omitted, checked>>
vars == <<watch, now, mood, response, round, target, turns, unlisted, evidence>>

-----------------------------------------------------------------------------
(* The namespaces.                                                         *)

\* effectiveWatchNamespaces: without duplicates and empty names (NamespaceAll),
\* the namespaces of operator and resolver included.
effectiveWatchNamespaces(w) ==
    LET all == w \o <<OperatorNS, ResolverNS>>
        first == {n \in DOMAIN all :
                    all[n] # NamespaceAll /\ \A m \in 1 .. n - 1 : all[m] # all[n]}
        out[n \in 0 .. Len(all)] ==
            IF n = 0 THEN <<>>
            ELSE IF n \in first THEN Append(out[n - 1], all[n]) ELSE out[n - 1]
    IN  IF w = <<>> THEN <<>> ELSE out[Len(all)]

\* listNamespaces: one query for all, or one per watched namespace.
listNamespaces(w) == IF w = <<>> THEN <<NamespaceAll>> ELSE w

-----------------------------------------------------------------------------
(* The enabled period.  A schedule is the set of times it triggers.        *)

\* The schedule's Next: the first trigger after t, or none (-1).
NextTrigger(schedule, t) ==
    IF \A x \in schedule : x <= t THEN -1
    ELSE CHOOSE x \in schedule : x > t /\ \A y \in schedule : y > t => x <= y

\* findLastTriggerTime: from the start of the lookback window, trigger by
\* trigger, to the last one that is not after now.
findLastTriggerTime(schedule, t, lookback) ==
    LET last[from \in (t - lookback) .. t] ==
            LET x == NextTrigger(schedule, from) IN
            IF x # -1 /\ x <= t THEN last[x] ELSE IF from = t - lookback THEN -1 ELSE from
    IN  last[t - lookback]

\* Mutant: the lookback is a day, however long the duration.
IsInEnabledPeriodDay(schedule, duration, t) ==
    LET last == findLastTriggerTime(schedule, t, Day)
    IN  last # -1 /\ t < last + duration

IsInEnabledPeriodAt(schedule, duration, t) ==
    LET last == findLastTriggerTime(schedule, t, duration + Day)
    IN  last # -1 /\ t < last + duration

\* The defaults: daily at midnight ({} stands for no schedule), for 24 hours
\* (0 stands for no duration).
scheduleOf(p) == IF p.schedule = {} THEN {x \in 0 .. Horizon : x % Day = 0} ELSE p.schedule
durationOf(p) == IF p.duration = 0 THEN Day ELSE p.duration

\* A duration that is not positive is an error, which keeps the target up.
isInEnabledPeriod(p, t) ==
    durationOf(p) > 0 /\ IsInEnabledPeriodAt(scheduleOf(p), durationOf(p), t)

-----------------------------------------------------------------------------
(* The Prometheus scaler.                                                  *)

\* The value of the first result: a number, not a number, null, unusable
\* (absent, too short or infinite), or other (no string).
Value(kind, n) == [kind |-> kind, n |-> n]
Unusable == Value("unusable", 0)
Number(n) == Value("number", n)

\* An answer: how many results, and the value of the first.  "error" stands
\* for a call that fails, another status than 200 and an answer that is no
\* JSON; "scalar" for a result that is no list of series; "keep" for what the
\* answer does not mention.
Answer(results, value) == [results |-> results, value |-> value]
Answers ==
    {Answer("error", Unusable), Answer("scalar", Unusable), Answer("keep", Unusable),
     Answer("0", Unusable), Answer("2", Number(0))}
    \cup {Answer("1", Value(k, 0)) : k \in {"keep", "unusable", "null", "nan", "other"}}
    \cup {Answer("1", Number(n)) : n \in Metrics}
Omits(a) == a.results = "keep" \/ a.value.kind = "keep"

\* Decoding into promQueryResponse: what the answer leaves out stays.
Decode(a) ==
    CASE a.results \in {"error", "keep"} -> response
      [] a.results = "scalar" -> [response EXCEPT !.results = "2"]
      [] a.value.kind = "keep" -> [response EXCEPT !.results = "1"]
      [] OTHER -> a

Failed == Value("failed", 0)
Panicked == Value("panicked", 0)

\* executePromQuery: other than one result and an unusable value are errors,
\* null reads as -1, and the type assertion of what is no string panics.
executePromQuery(a) ==
    LET r == Decode(a) IN
    CASE a.results \in {"error", "scalar"} \/ r.results # "1" -> Failed
      [] a.results \notin {"error", "scalar"} /\ r.results = "1" ->
            CASE r.value.kind = "unusable" -> Failed
              [] r.value.kind = "other" -> Panicked
              [] r.value.kind = "null" -> Number(-1)
              [] r.value.kind \in {"nan", "number"} -> r.value

\* getServerAddress and validateServerAddress.
Address(t) == IF t.address = NoAddress THEN DefaultAddress ELSE t.address
AddressAllowed(t) ==
    /\ Address(t) # NoAddress
    /\ Address(t) = DefaultAddress \/ AllowedAddresses = {} \/ Address(t) \in AllowedAddresses

IsHealthy(v) == v = Number(1)

\* Mutant: an unknown value counts as a small one.
ShouldScaleToZeroUnknown(v, threshold) == v.kind = "number" /\ v.n < threshold

\* -1 stands for an unknown value; no comparison holds of what is no number.
ShouldScaleToZero(v, threshold) == v.kind = "number" /\ v.n # -1 /\ v.n < threshold

-----------------------------------------------------------------------------
\* The query that lists an ElastiService, if it is in scope at all.
QueryFor(i) == IF watch = <<>> THEN NamespaceAll ELSE i.namespace
InScopeOf(i, w) == w = <<>> \/ i.namespace \in Range(w) \cup {OperatorNS, ResolverNS}
InScope(i) == InScopeOf(i, watch)

\* The ElastiServices in scope whose triggers alone decide.
Regular ==
    {i \in Items :
        /\ \A w \in Watches : InScopeOf(i, w)
        /\ i.period = NoPeriod /\ i.triggers # <<>> /\ i.scalableFrom = 0
        /\ \A n \in DOMAIN i.triggers : i.triggers[n].valid /\ AddressAllowed(i.triggers[n])}

AnItem == CHOOSE i \in Items : TRUE     \* what item holds between two lists

\* For regular ElastiServices Prometheus may come to give the same answers for
\* good (mood "idle" or "busy"), and their namespaces can then be listed.
Settled(i) == i \in Regular /\ mood # "odd"

Init ==
    /\ watch \in Watches
    /\ now = 0 /\ mood = "odd"
    /\ response = Answer("0", Unusable)
    /\ pc = "wait" /\ queries = <<>> /\ listed = {}
    /\ item = AnItem /\ trigger = 1
    /\ target = [i \in Items |-> "up"]
    /\ turns = [i \in Items |-> 0] /\ unlisted = {}
    /\ idle = TRUE /\ omitted = FALSE /\ checked = 0

\* The ticker fires: checkAndScale begins a round.
Begin ==
    /\ pc = "wait"
    /\ pc' = "list"
    /\ queries' = listNamespaces(effectiveWatchNamespaces(watch))
    /\ turns' = [i \in Items |-> 0] /\ unlisted' = {}
    /\ UNCHANGED <<watch, now, mood, response, listed, item, trigger, target, evidence>>

\* Mutant: the round ends when a namespace cannot be listed.
ListStops(ok) ==
    /\ pc = "list" /\ queries # <<>>
    /\ LET ns == Head(queries) IN
        /\ ok \/ \A i \in Items : Settled(i) => QueryFor(i) # ns
        /\ listed' = IF ok THEN {i \in Items : ns \in {NamespaceAll, i.namespace}} ELSE {}
        /\ unlisted' = IF ok THEN unlisted ELSE unlisted \cup {ns}
    /\ queries' = IF ok THEN Tail(queries) ELSE <<>>
    /\ pc' = "next"
    /\ UNCHANGED <<watch, now, mood, response, item, trigger, target, turns, evidence>>

\* The ElastiServices of the next namespace are listed.  An error is kept for
\* the log, and the round goes on.
List(ok) ==
    /\ pc = "list" /\ queries # <<>>
    /\ LET ns == Head(queries) IN
        /\ ok \/ \A i \in Items : Settled(i) => QueryFor(i) # ns
        /\ listed' = IF ok THEN {i \in Items : ns \in {NamespaceAll, i.namespace}} ELSE {}
        /\ unlisted' = IF ok THEN unlisted ELSE unlisted \cup {ns}
    /\ queries' = Tail(queries)
    /\ pc' = "next"
    /\ UNCHANGED <<watch, now, mood, response, item, trigger, target, turns, evidence>>

End ==
    /\ pc = "list" /\ queries = <<>>
    /\ pc' = "wait"
    /\ UNCHANGED <<watch, now, mood, response, queries, listed, item, trigger, target, turns,
                   unlisted, evidence>>

\* The next ElastiService of the list, or the next namespace.
NextItem ==
    /\ pc = "next"
    /\ \/ /\ listed = {} /\ pc' = "list" /\ item' = AnItem
          /\ UNCHANGED <<listed, turns>>
       \/ /\ \E i \in listed :
                /\ item' = i /\ listed' = listed \ {i}
                /\ turns' = [turns EXCEPT ![i] = @ + 1]
          /\ pc' = "calculate"
    /\ trigger' = 1
    /\ idle' = TRUE /\ omitted' = FALSE /\ checked' = 0
    /\ UNCHANGED <<watch, now, mood, response, queries, target, unlisted>>

\* calculateScaleDirection up to the triggers: an error without triggers,
\* nothing for a young ElastiService, up outside the enabled period.
Calculate ==
    /\ pc = "calculate"
    /\ pc' = IF item.triggers = <<>> \/ now < item.scalableFrom THEN "next"
             ELSE IF item.period # NoPeriod /\ ~isInEnabledPeriod(item.period, now) THEN "keepUp"
             ELSE "health"
    /\ checked' = now
    /\ UNCHANGED <<watch, now, mood, response, queries, listed, item, trigger, target, turns,
                   unlisted, idle, omitted>>

Trigger == item.triggers[trigger]

\* The scaler cannot be made, or must not ask this server.
NoScaler ==
    /\ pc = "health"
    /\ ~Trigger.valid \/ ~AddressAllowed(Trigger)
    /\ pc' = "next"
    /\ UNCHANGED <<watch, now, mood, response, queries, listed, item, trigger, target, turns,
                   unlisted, evidence>>

\* Mutant: an unhealthy trigger ends the list.
CheckHealthReturns(a) ==
    /\ pc = "health"
    /\ Trigger.valid /\ AddressAllowed(Trigger)
    /\ Settled(item) => a = Answer("1", Number(1))
    /\ response' = Decode(a)
    /\ LET v == executePromQuery(a) IN
        pc' = IF v = Panicked THEN "crashed" ELSE IF IsHealthy(v) THEN "metric" ELSE "list"
    /\ idle' = (idle /\ a = Answer("1", Number(1))) /\ omitted' = (omitted \/ Omits(a))
    /\ UNCHANGED <<watch, now, mood, queries, listed, item, trigger, target, turns, unlisted, checked>>

\* IsHealthy: the uptime query.  An error and "no" both leave the target
\* alone.
CheckHealth(a) ==
    /\ pc = "health"
    /\ Trigger.valid /\ AddressAllowed(Trigger)
    /\ Settled(item) => a = Answer("1", Number(1))
    /\ response' = Decode(a)
    /\ LET v == executePromQuery(a) IN
        pc' = IF v = Panicked THEN "crashed" ELSE IF IsHealthy(v) THEN "metric" ELSE "next"
    /\ idle' = (idle /\ a = Answer("1", Number(1))) /\ omitted' = (omitted \/ Omits(a))
    /\ UNCHANGED <<watch, now, mood, queries, listed, item, trigger, target, turns, unlisted, checked>>

\* ShouldScaleToZero: an error ends the handling of the item, a busy trigger
\* means up, an idle one hands over to the next, the last one means down.
CheckMetric(a) ==
    /\ pc = "metric"
    /\ Settled(item) => a = Answer("1", Number(IF mood = "idle" THEN 0 ELSE Trigger.threshold))
    /\ response' = Decode(a)
    /\ LET v == executePromQuery(a)
           down == ShouldScaleToZero(v, Trigger.threshold)
           last == trigger = Len(item.triggers)
       IN  /\ pc' = CASE v = Failed -> "next"
                      [] v = Panicked -> "crashed"
                      [] v \notin {Failed, Panicked} /\ ~down -> "up"
                      [] down -> IF last THEN "down" ELSE "health"
           /\ trigger' = IF down /\ ~last THEN trigger + 1 ELSE trigger
    /\ idle' = (idle /\ \E n \in Metrics : a = Answer("1", Number(n)) /\ n < Trigger.threshold)
    /\ omitted' = (omitted \/ Omits(a))
    /\ UNCHANGED <<watch, now, mood, queries, listed, item, target, turns, unlisted, checked>>

\* handleScaleFromZero or handleScaleToZero; whatever comes of it, the round
\* goes on.
Act ==
    /\ pc \in {"up", "keepUp", "down"}
    /\ target' = [target EXCEPT ![item] = IF pc = "down" THEN "down" ELSE "up"]
    /\ pc' = "next"
    /\ UNCHANGED <<watch, now, mood, response, queries, listed, item, trigger, turns, unlisted, evidence>>

Poller ==
    \/ Begin \/ End \/ NextItem \/ Calculate \/ NoScaler \/ Act
    \/ \E ok \in BOOLEAN : List(ok)
    \/ \E a \in Answers : CheckHealth(a) \/ CheckMetric(a)

\* Nothing recovers a panic of the poller's goroutine: the operator is gone,
\* and Kubernetes starts it again.
Restart ==
    /\ pc = "crashed"
    /\ pc' = "wait" /\ queries' = <<>> /\ listed' = {}
    /\ response' = Answer("0", Unusable)
    /\ item' = AnItem /\ trigger' = 1
    /\ turns' = [i \in Items |-> 0] /\ unlisted' = {}
    /\ idle' = TRUE /\ omitted' = FALSE /\ checked' = 0
    /\ UNCHANGED <<watch, now, mood, target>>

\* Time passes; only Calculate reads the clock.
Advance ==
    /\ now < Horizon /\ pc \in {"wait", "calculate"}
    /\ now' = now + 1
    /\ UNCHANGED <<watch, mood, response, round, target, turns, unlisted, evidence>>

Settle ==
    /\ mood = "odd" /\ mood' \in {"idle", "busy"}
    /\ UNCHANGED <<watch, now, response, round, target, turns, unlisted, evidence>>

Next == Poller \/ Restart \/ Advance \/ Settle

Spec == Init /\ [][Next]_vars

\* The goroutine of the poller runs, its calls have timeouts, and a container
\* that has crashed is started again.
FairSpec == Spec /\ WF_vars(Poller \/ Restart)

-----------------------------------------------------------------------------
\* The types; between two queries a trigger is one of the ElastiService.
TypeOK ==
    /\ watch \in Watches /\ now \in 0 .. Horizon /\ mood \in {"odd", "idle", "busy"}
    /\ response.results \in {"0", "1", "2"}
    /\ response.value.kind \in
         {"unusable", "null", "nan", "number"} \cup IF pc = "crashed" THEN {"other"} ELSE {}
    /\ pc \in {"wait", "list", "next", "calculate", "health", "metric", "up", "keepUp", "down",
               "crashed"}
    /\ queries \in Seq(Queries) /\ listed \subseteq Items /\ item \in Items
    /\ pc \in {"health", "metric"} => trigger \in DOMAIN item.triggers
    /\ target \in [Items -> {"up", "down"}]
    /\ turns \in [Items -> Nat] /\ unlisted \subseteq Queries
    /\ idle \in BOOLEAN /\ omitted \in BOOLEAN /\ checked \in 0 .. Horizon

\* A round handles every ElastiService in scope once, unless its namespace
\* could not be listed, and none that is out of scope: neither errors of
\* others nor a namespace named twice change that ("one bad namespace can't
\* stall scaling for the rest", scale_handler.go:148).
OnceInScope ==
    \A i \in Items :
        /\ turns[i] <= IF InScope(i) THEN 1 ELSE 0
        /\ pc = "list" /\ queries = <<>> /\ InScope(i) /\ QueryFor(i) \notin unlisted
             => turns[i] = 1

\* A target is scaled to zero only if Prometheus has, in this round and for
\* this ElastiService, reported every trigger healthy and below its
\* threshold, or has left a value out (the scalers share promQueryResponse).
DownOnlyIfIdle == pc = "down" => idle \/ omitted

\* The reference for the enabled period: some trigger, however long ago, was
\* less than the duration ago.
Enabled(p, t) == \E x \in scheduleOf(p) : x <= t /\ t < x + durationOf(p)

\* The triggers are asked, and a target is scaled to zero, exactly if the
\* enabled period held when it was checked.
PeriodRespected ==
    item.period # NoPeriod =>
        /\ pc \in {"health", "metric", "up", "down"} => Enabled(item.period, checked)
        /\ pc = "keepUp" => ~Enabled(item.period, checked)

\* A regular ElastiService whose triggers stay idle ends up scaled to zero for
\* good and one whose triggers stay busy ends up scaled up, whether or not
\* other namespaces can be listed, and whatever Prometheus answers for the
\* others, unless the operator crashes over these answers again and again:
\* a sample that is no string panics in executePromQuery
\* (prometheus_scaler.go:232), and the round of all others is lost with it.
OthersDoNotMatter ==
    <>[](pc # "crashed") =>
      \A i \in Regular :
        /\ mood = "idle" ~> [](target[i] = "down")
        /\ mood = "busy" ~> [](target[i] = "up")
=============================================================================
