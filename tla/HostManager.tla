---------------------------- MODULE HostManager ----------------------------
(***************************************************************************)
(* The host manager of the resolver (resolver/internal/hostmanager) as the *)
(* request handler uses it: GetHost, the traffic check of                  *)
(* handleAnyRequest, ScheduleDisableTrafficForHost after a proxied         *)
(* request, and the two timers that switch the traffic of a host off and   *)
(* on again.                                                               *)
(*                                                                         *)
(* Host names do not interact, so one is modelled.  Its entry in the hosts *)
(* map is a pointer: every cache miss allocates a Host and stores it, so   *)
(* concurrent misses replace each other's entry.  A request allocates at   *)
(* most one Host and starts at most one timer, so both are named after the *)
(* request.  The map operations are atomic; the fields of a Host are       *)
(* plain booleans that goroutines read and write without a lock.           *)
(***************************************************************************)
EXTENDS Naturals, FiniteSets

CONSTANTS
  Requests,   \* the requests for the host
  NoHost      \* no entry in the hosts map

ASSUME NoHostAssumption == NoHost \notin Requests

VARIABLES
  entry,       \* hosts[hostName]: a Host or NoHost
  allowed,     \* Host.TrafficAllowed
  scheduled,   \* Host.TrafficDisableScheduled
  pc,          \* where each request is
  host,        \* the Host each request holds
  timer,       \* where the timer started by each request is
  seen,        \* the Host each timer callback holds
  ripe         \* the armed timers that may fire: see Ripen

vars == <<entry, allowed, scheduled, pc, host, timer, seen, ripe>>
hostVars == <<entry, allowed, scheduled>>
timerVars == <<timer, seen>>

(* Places inside a run of instructions that takes microseconds. *)
BusyPC == {"miss", "schedSet", "schedStore"}
BusyTimer == {"clear", "disable", "disableSet", "enableSet"}

PCs == {"new", "miss", "check", "proxy", "refused", "schedule", "schedSet",
        "schedStore", "done"}
TimerPCs == {"off", "grace", "pause"} \cup BusyTimer

Init ==
  /\ entry = NoHost
  /\ allowed = [r \in Requests |-> TRUE]
  /\ scheduled = [r \in Requests |-> FALSE]
  /\ pc = [r \in Requests |-> "new"]
  /\ host = [r \in Requests |-> NoHost]
  /\ timer = [r \in Requests |-> "off"]
  /\ seen = [r \in Requests |-> NoHost]
  /\ ripe = {}

Goto(r, l) == pc' = [pc EXCEPT ![r] = l]
TimerGoto(t, l) == timer' = [timer EXCEPT ![t] = l]

Busy == \E r \in Requests : pc[r] \in BusyPC \/ timer[r] \in BusyTimer

Armed == {t \in Requests : timer[t] \in {"grace", "pause"}}

(* The timers run for seconds, the sections named above for microseconds:  *)
(* between the arming and the firing of a timer there is a moment when no  *)
(* goroutine is inside one.                                                *)
Ripen == ripe' = (IF Busy' THEN ripe ELSE Requests) \cap Armed'

-----------------------------------------------------------------------------
(* GetHost loads the entry. *)
GetHostLoad(r) ==
  /\ pc[r] = "new"
  /\ host' = [host EXCEPT ![r] = entry]
  /\ Goto(r, IF entry = NoHost THEN "miss" ELSE "check")
  /\ UNCHANGED <<hostVars, timerVars>>

(* A miss: GetHost parses the host name, allocates a Host whose traffic is *)
(* allowed and stores it, over whatever is there by now.                   *)
GetHostStore(r) ==
  /\ pc[r] = "miss"
  /\ entry' = r
  /\ host' = [host EXCEPT ![r] = r]
  /\ Goto(r, "check")
  /\ UNCHANGED <<allowed, scheduled, timer, seen>>

(* handleAnyRequest: a request that matches a probe response is answered   *)
(* at once; traffic that was switched off is refused with a 408.           *)
CheckTraffic(r) ==
  /\ pc[r] = "check"
  /\ \E probe \in BOOLEAN :
       Goto(r, IF probe THEN "done"
               ELSE IF allowed[host[r]] THEN "proxy" ELSE "refused")
  /\ UNCHANGED <<hostVars, host, timerVars>>

(* The throttler ran the resolve callback: either the request was proxied, *)
(* and the disabling of traffic is scheduled, or it failed.                *)
ProxyEnds(r) ==
  /\ pc[r] = "proxy"
  /\ \E l \in {"schedule", "done"} : Goto(r, l)
  /\ UNCHANGED <<hostVars, host, timerVars>>

(* ScheduleDisableTrafficForHost loads the Host and reads its flag. *)
ScheduleLoad(r) ==
  /\ pc[r] = "schedule"
  /\ host' = [host EXCEPT ![r] = entry]
  /\ Goto(r, IF scheduled[entry] THEN "done" ELSE "schedSet")
  /\ UNCHANGED <<hostVars, timerVars>>

(* It sets the flag... *)
ScheduleSet(r) ==
  /\ pc[r] = "schedSet"
  /\ scheduled' = [scheduled EXCEPT ![host[r]] = TRUE]
  /\ Goto(r, "schedStore")
  /\ UNCHANGED <<entry, allowed, host, timerVars>>

(* ...stores the Host and starts the grace timer. *)
ScheduleStore(r) ==
  /\ pc[r] = "schedStore"
  /\ entry' = host[r]
  /\ TimerGoto(r, "grace")
  /\ Goto(r, "done")
  /\ UNCHANGED <<allowed, scheduled, host, seen>>

-----------------------------------------------------------------------------
(* The grace timer fires and clears the flag. *)
GraceFires(t) ==
  /\ timer[t] = "grace"
  /\ t \in ripe
  /\ seen' = [seen EXCEPT ![t] = entry]
  /\ scheduled' = [scheduled EXCEPT ![entry] = FALSE]
  /\ TimerGoto(t, "clear")
  /\ UNCHANGED <<entry, allowed, pc, host>>

(* It stores the Host back. *)
ClearStore(t) ==
  /\ timer[t] = "clear"
  /\ entry' = seen[t]
  /\ TimerGoto(t, "disable")
  /\ UNCHANGED <<allowed, scheduled, pc, host, seen>>

(* disableTrafficForHost loads the Host and reads whether traffic is       *)
(* allowed.                                                                *)
DisableLoad(t) ==
  /\ timer[t] = "disable"
  /\ seen' = [seen EXCEPT ![t] = entry]
  /\ TimerGoto(t, IF allowed[entry] THEN "disableSet" ELSE "off")
  /\ UNCHANGED <<hostVars, pc, host>>

(* It switches traffic off, stores the Host and starts the timer that      *)
(* switches it on.                                                         *)
DisableSet(t) ==
  /\ timer[t] = "disableSet"
  /\ allowed' = [allowed EXCEPT ![seen[t]] = FALSE]
  /\ entry' = seen[t]
  /\ TimerGoto(t, "pause")
  /\ UNCHANGED <<scheduled, pc, host, seen>>

(* Mutant: the condition of enableTrafficForHost is inverted. *)
EnableLoadInverted(t) ==
  /\ timer[t] = "pause"
  /\ t \in ripe
  /\ seen' = [seen EXCEPT ![t] = entry]
  /\ TimerGoto(t, IF allowed[entry] THEN "enableSet" ELSE "off")
  /\ UNCHANGED <<hostVars, pc, host>>

(* That timer fires: enableTrafficForHost loads the Host and reads whether *)
(* traffic is off.                                                         *)
EnableLoad(t) ==
  /\ timer[t] = "pause"
  /\ t \in ripe
  /\ seen' = [seen EXCEPT ![t] = entry]
  /\ TimerGoto(t, IF allowed[entry] THEN "off" ELSE "enableSet")
  /\ UNCHANGED <<hostVars, pc, host>>

(* It switches traffic on and stores the Host. *)
EnableSet(t) ==
  /\ timer[t] = "enableSet"
  /\ allowed' = [allowed EXCEPT ![seen[t]] = TRUE]
  /\ entry' = seen[t]
  /\ TimerGoto(t, "off")
  /\ UNCHANGED <<scheduled, pc, host, seen>>

RequestStep(r) ==
  \/ GetHostLoad(r) \/ GetHostStore(r) \/ CheckTraffic(r) \/ ProxyEnds(r)
  \/ ScheduleLoad(r) \/ ScheduleSet(r) \/ ScheduleStore(r)

TimerStep(t) ==
  \/ GraceFires(t) \/ ClearStore(t) \/ DisableLoad(t) \/ DisableSet(t)
  \/ EnableLoad(t) \/ EnableSet(t)

Next == (\E r \in Requests : RequestStep(r) \/ TimerStep(r)) /\ Ripen

Spec == Init /\ [][Next]_vars

(* Goroutines run and timers fire; requests need not come. *)
Fairness ==
  \A r \in Requests :
    /\ WF_vars(TimerStep(r) /\ Ripen)
    /\ WF_vars(RequestStep(r) /\ pc[r] # "new" /\ Ripen)

FairSpec == Spec /\ Fairness

-----------------------------------------------------------------------------
(* The types; past GetHost a request holds a Host. *)
TypeOK ==
  /\ entry \in Requests \cup {NoHost}
  /\ allowed \in [Requests -> BOOLEAN]
  /\ scheduled \in [Requests -> BOOLEAN]
  /\ pc \in [Requests -> PCs]
  /\ host \in [Requests -> Requests \cup {NoHost}]
  /\ \A r \in Requests : pc[r] \notin {"new", "miss"} => host[r] # NoHost
  /\ timer \in [Requests -> TimerPCs]
  /\ seen \in [Requests -> Requests \cup {NoHost}]
  /\ ripe \subseteq Armed

(* Requests for the host are refused. *)
Off == entry # NoHost /\ ~allowed[entry]

(* A host whose traffic is off has a timer under way that switches it on:  *)
(* no interleaving of requests and timers leaves it refusing requests      *)
(* for good.                                                               *)
OffHasTimer ==
  Off => \E t \in Requests : timer[t] \in {"pause", "enableSet"}

(* "only one timer is scheduled per host regardless of how many requests   *)
(* arrive during the delay window".                                        *)
OneGraceTimer ==
  \A s, t \in Requests : timer[s] = "grace" /\ timer[t] = "grace" => s = t

(* Traffic that is switched off is switched on again.                      *)
TrafficReturns == Off ~> ~Off
=============================================================================
