-------------------------- MODULE ScaleHandlerProofs --------------------------
(***************************************************************************)
(* Proofs about the scaling of a target, for any number of triggers,       *)
(* cooldown, bounds and with or without KEDA: the mutex of Scale, the      *)
(* cooldown and the deletion of an ElastiService whose target is at 0.     *)
(***************************************************************************)
EXTENDS ScaleHandler, TLAPS

Updating == {"update", "updateUp", "updateUpFailed"}

(* Where each actor may be: the poller alone asks triggers and scales      *)
(* down, the finalizer alone goes on after a failure, and nobody pauses    *)
(* without KEDA.                                                           *)
Roles ==
  /\ pc["poller"] \in {"idle", "calculate", "trigger", "cooldown", "pause", "touch", "unpause",
                       "get", "getUp", "update", "updateUp"}
  /\ pc["server"] \in {"idle", "touch", "unpause", "getUp", "updateUp"}
  /\ pc["finalizer"] \in {"idle", "unpause", "getUp", "getUpFailed", "updateUp", "updateUpFailed",
                          "remove", "removeFailed"}
  /\ pc["poller"] = "trigger" => trigger \in 1..Triggers
  /\ pc["poller"] = "pause" => Keda
  /\ paused => Keda

(* Until another actor touches it, lastScaledUpTime is the one the poller  *)
(* has listed, and past the cooldown check that one has expired.  It is    *)
(* the time of the last scale-up, or an earlier one if that is unrecorded. *)
Cooldown ==
  /\ ~raced /\ pc["poller"] \in {"calculate", "trigger", "cooldown", "pause", "get", "update"}
       => age = snapAge
  /\ pc["poller"] \in {"pause", "get", "update"} => snapAge = resolveCooldownPeriod
  /\ upAge <= age
  /\ ~unrecorded => upAge = age

(* The progress of a finalizer that found the target at rest at 0 and is   *)
(* left alone: once KEDA is not paused nothing takes replicas away, so     *)
(* that replicas that are there stay.                                      *)
Restored ==
  rested =>
    /\ pc["poller"] = "idle" /\ pc["server"] = "idle"
    /\ pc["finalizer"] = "unpause" => /\ status = 0 \/ spec > 0
                                      /\ paused => spec = 0 /\ status = 0
    /\ pc["finalizer"] \in {"getUp", "updateUp"} => ~paused /\ (status = 0 \/ spec > 0)
    /\ pc["finalizer"] = "remove" => ~paused /\ spec > 0
    /\ es = "gone" => ~paused /\ spec > 0 /\ pc["finalizer"] = "idle"

(* The inductive invariant. *)
ScaleInv == TypeOK /\ Roles /\ Cooldown /\ Restored

(* The cooldown and the replicas of a scale-up are positive numbers. *)
LEMMA Numbers ==
  /\ resolveCooldownPeriod \in Nat /\ resolveCooldownPeriod > 0
  /\ minReplicas \in Nat /\ minReplicas > 0
  /\ Triggers \in Nat /\ RoundTicks \in Nat /\ MaxReplicas \in Nat /\ MaxFaults \in Nat
  /\ Actors = {"poller", "server", "finalizer"}
BY ScaleAssumption DEF resolveCooldownPeriod, minReplicas, Actors

(* Every step keeps the types, and the mutex is held where it should be. *)
LEMMA TypesNext == TypeOK /\ Roles /\ [Next]_vars => TypeOK'
<1> SUFFICES ASSUME TypeOK, Roles, [Next]_vars PROVE TypeOK'
  BY Zenon
<1> USE Numbers DEF kube, env, clock, scaling, notes
<1>0. CASE UNCHANGED vars
  BY <1>0 DEF vars, TypeOK
<1>1. ASSUME NEW ok \in BOOLEAN, List(ok) PROVE TypeOK'
  <2>1. pc' \in [Actors -> Places]
    BY <1>1 DEF List, Goto, Calls, Count, TypeOK, Roles, Places
  <2>2. faults' \in 0..MaxFaults
    BY <1>1 DEF List, Goto, Calls, Count, TypeOK
  <2>3. \A b \in Actors : pc'[b] \in {"update", "updateUp", "updateUpFailed"} <=> lock' = b
    BY <1>1 DEF List, Goto, Calls, Count, TypeOK, Roles, Places
  <2>4. raced' \in BOOLEAN /\ rested' \in BOOLEAN
    BY <1>1, ZenonT(40) DEF List, TypeOK
  <2>5. snapAge' \in 0..resolveCooldownPeriod /\ ticked' \in 0..RoundTicks
    BY <1>1 DEF List, TypeOK
  <2> QED
    BY <1>1, <2>1, <2>2, <2>3, <2>4, <2>5 DEF List, TypeOK
<1>2. ASSUME NEW ok \in BOOLEAN, PauseKeda(ok) PROVE TypeOK'
  BY <1>2 DEF PauseKeda, Goto, Calls, Count, TypeOK, Roles, Places
<1>3. ASSUME NEW a \in Actors, NEW ok \in BOOLEAN, Touch(a, ok) PROVE TypeOK'
  BY <1>3 DEF Touch, Goto, Calls, Count, TypeOK, Roles, Places
<1>4. ASSUME NEW a \in Actors, NEW ok \in BOOLEAN, Unpause(a, ok) PROVE TypeOK'
  BY <1>4 DEF Unpause, Goto, Calls, Count, TypeOK, Roles, Places
<1>5. ASSUME NEW a \in Actors, NEW ok \in BOOLEAN, ScaleGet(a, ok) PROVE TypeOK'
  <2>1. pc' \in [Actors -> Places]
    BY <1>5 DEF ScaleGet, Goto, Calls, Count, AfterScale, Desired, Down,
       NoScaleRequired, TypeOK, Roles, Places
  <2>2. faults' \in 0..MaxFaults
    BY <1>5 DEF ScaleGet, Goto, Calls, Count, AfterScale, Desired, Down,
       NoScaleRequired, TypeOK
  <2>3. \A b \in Actors : pc'[b] \in {"update", "updateUp", "updateUpFailed"} <=> lock' = b
    BY <1>5 DEF ScaleGet, Goto, Calls, Count, AfterScale, Desired, Down,
       NoScaleRequired, TypeOK, Roles, Places
  <2>4. lock' \in Actors \cup {"free"} /\ fresh' \in BOOLEAN /\ spec' \in Nat
    BY <1>5, ZenonT(40) DEF ScaleGet, Goto, Calls, Count, AfterScale, Desired, Down,
       NoScaleRequired, TypeOK
  <2> QED
    BY <1>5, <2>1, <2>2, <2>3, <2>4 DEF ScaleGet, TypeOK
<1>6. ASSUME NEW a \in Actors, NEW ok \in BOOLEAN, ScaleUpdate(a, ok) PROVE TypeOK'
  <2>1. pc' \in [Actors -> Places]
    BY <1>6, Zenon DEF ScaleUpdate, Goto, Calls, Count, AfterScale, TypeOK, Roles, Places
  <2>2. faults' \in 0..MaxFaults
    BY <1>6 DEF ScaleUpdate, Goto, Calls, Count, AfterScale, TypeOK
  <2>3. \A b \in Actors : pc'[b] \in {"update", "updateUp", "updateUpFailed"} <=> lock' = b
    BY <1>6 DEF ScaleUpdate, Goto, Calls, Count, AfterScale, TypeOK, Roles, Places
  <2>4. lock' \in Actors \cup {"free"} /\ fresh' \in BOOLEAN /\ spec' \in Nat
    BY <1>6, ZenonT(40) DEF ScaleUpdate, Goto, Calls, Count, AfterScale, TypeOK
  <2> QED
    BY <1>6, <2>1, <2>2, <2>3, <2>4, Zenon DEF ScaleUpdate, TypeOK
<1>7. CASE Calculate
  BY <1>7 DEF Calculate, Goto, TypeOK, Roles, Places
<1>8. CASE AskTrigger
  BY <1>8, SMTT(40) DEF AskTrigger, Goto, TypeOK, Roles, Places, Verdicts
<1>9. CASE CheckCooldown
  BY <1>9 DEF CheckCooldown, Goto, TypeOK, Roles, Places
<1>10. CASE Notify
  <2>1. pc' \in [Actors -> Places]
    BY <1>10, Zenon DEF Notify, Goto, TypeOK, Places
  <2>2. \A b \in Actors : pc'[b] \in {"update", "updateUp", "updateUpFailed"} <=> lock' = b
    BY <1>10, Zenon DEF Notify, Goto, TypeOK, Places
  <2> QED
    BY <1>10, <2>1, <2>2, ZenonT(40) DEF Notify, TypeOK
<1>11. CASE Finalize
  BY <1>11 DEF Finalize, Goto, TypeOK, Roles, Places
<1>12. CASE RemoveCRD
  <2>1. pc' \in [Actors -> Places]
    BY <1>12, Zenon DEF RemoveCRD, Goto, TypeOK, Places
  <2>2. \A b \in Actors : pc'[b] \in {"update", "updateUp", "updateUpFailed"} <=> lock' = b
    BY <1>12, Zenon DEF RemoveCRD, Goto, TypeOK, Places
  <2> QED
    BY <1>12, <2>1, <2>2, ZenonT(40) DEF RemoveCRD, TypeOK
<1>13. CASE Converge
  BY <1>13, ZenonT(40) DEF Converge, TypeOK
<1>14. CASE KedaHolds
  BY <1>14, ZenonT(40) DEF KedaHolds, TypeOK
<1>15. CASE Autoscale
  <2>1. PICK n \in 1..MaxReplicas : spec' = n
    BY <1>15, Zenon DEF Autoscale
  <2>2. spec' \in Nat
    BY <2>1
  <2> QED
    BY <1>15, <2>2, ZenonT(40) DEF Autoscale, TypeOK
<1>16. CASE Tick
  <2>1. {age', esAge', snapAge', upAge'} \subseteq 0..resolveCooldownPeriod
    BY <1>16, SMTT(40) DEF Tick, Older, TypeOK
  <2>2. ticked' \in 0..RoundTicks
    BY <1>16 DEF Tick, TypeOK
  <2> QED
    BY <1>16, <2>1, <2>2, ZenonT(40) DEF Tick, TypeOK
<1>17. CASE TriggersChange
  BY <1>17 DEF TriggersChange, TypeOK
<1>18. CASE PeriodChanges
  BY <1>18 DEF PeriodChanges, TypeOK
<1>19. CASE RequestWaits
  BY <1>19 DEF RequestWaits, TypeOK
<1>20. CASE RequestsServed
  BY <1>20, ZenonT(40) DEF RequestsServed, TypeOK
<1>21. CASE Delete
  BY <1>21 DEF Delete, TypeOK
<1> QED
  BY <1>0, <1>1, <1>2, <1>3, <1>4, <1>5, <1>6, <1>7, <1>8, <1>9, <1>10, <1>11,
     <1>12, <1>13, <1>14, <1>15, <1>16, <1>17, <1>18, <1>19, <1>20, <1>21, Zenon
     DEF Next, Poller, Server, Finalizer, Environment, CallStep, Actors

(* Every actor keeps to its places. *)
LEMMA RolesNext == TypeOK /\ Roles /\ [Next]_vars => Roles'
<1> SUFFICES ASSUME TypeOK, Roles, [Next]_vars PROVE Roles'
  BY Zenon
<1> USE Numbers DEF kube, env, clock, scaling, notes
<1>0. CASE UNCHANGED vars
  BY <1>0 DEF vars, Roles
<1>1. ASSUME NEW ok \in BOOLEAN, List(ok) PROVE Roles'
  BY <1>1 DEF List, Goto, Calls, Count, TypeOK, Roles, Verdicts
<1>2. ASSUME NEW ok \in BOOLEAN, PauseKeda(ok) PROVE Roles'
  BY <1>2 DEF PauseKeda, Goto, Calls, Count, Roles
<1>3. ASSUME NEW a \in Actors, NEW ok \in BOOLEAN, Touch(a, ok) PROVE Roles'
  BY <1>3 DEF Touch, Goto, Calls, Count, Roles
<1>4. ASSUME NEW a \in Actors, NEW ok \in BOOLEAN, Unpause(a, ok) PROVE Roles'
  BY <1>4, Zenon DEF Unpause, Goto, Calls, Count, TypeOK, Roles
<1>5. ASSUME NEW a \in Actors, NEW ok \in BOOLEAN, ScaleGet(a, ok) PROVE Roles'
  BY <1>5 DEF ScaleGet, Goto, Calls, Count, AfterScale, Desired, Down,
     NoScaleRequired, TypeOK, Roles, Verdicts
<1>6. ASSUME NEW a \in Actors, NEW ok \in BOOLEAN, ScaleUpdate(a, ok) PROVE Roles'
  BY <1>6, Zenon DEF ScaleUpdate, Goto, Calls, Count, AfterScale, TypeOK, Roles, Verdicts
<1>7. CASE Calculate
  BY <1>7 DEF Calculate, Goto, Roles
<1>8. CASE AskTrigger
  BY <1>8, SMTT(40) DEF AskTrigger, Goto, TypeOK, Roles, Verdicts
<1>9. CASE CheckCooldown
  BY <1>9 DEF CheckCooldown, Goto, Roles
<1>10. CASE Notify
  BY <1>10, Zenon DEF Notify, Goto, TypeOK, Roles, Verdicts
<1>11. CASE Finalize
  BY <1>11 DEF Finalize, Goto, Roles
<1>12. CASE RemoveCRD
  BY <1>12, Zenon DEF RemoveCRD, Goto, TypeOK, Roles, Verdicts
<1>13. CASE Converge
  BY <1>13 DEF Converge, Roles
<1>14. CASE KedaHolds
  BY <1>14, Zenon DEF KedaHolds, Roles
<1>15. CASE Autoscale
  BY <1>15 DEF Autoscale, TypeOK, Roles, Verdicts
<1>16. CASE Tick
  BY <1>16 DEF Tick, Older, Roles
<1>17. CASE TriggersChange
  BY <1>17 DEF TriggersChange, Roles
<1>18. CASE PeriodChanges
  BY <1>18 DEF PeriodChanges, Roles
<1>19. CASE RequestWaits
  BY <1>19 DEF RequestWaits, Roles
<1>20. CASE RequestsServed
  BY <1>20 DEF RequestsServed, Roles
<1>21. CASE Delete
  BY <1>21 DEF Delete, Roles
<1> QED
  BY <1>0, <1>1, <1>2, <1>3, <1>4, <1>5, <1>6, <1>7, <1>8, <1>9, <1>10, <1>11,
     <1>12, <1>13, <1>14, <1>15, <1>16, <1>17, <1>18, <1>19, <1>20, <1>21, Zenon
     DEF Next, Poller, Server, Finalizer, Environment, CallStep, Actors

(* Both ages grow alike until another actor scales up. *)
LEMMA CooldownNext == TypeOK /\ Roles /\ Cooldown /\ [Next]_vars => Cooldown'
<1> SUFFICES ASSUME TypeOK, Roles, Cooldown, [Next]_vars PROVE Cooldown'
  BY Zenon
<1> USE Numbers DEF kube, env, clock, scaling, notes
<1>0. CASE UNCHANGED vars
  BY <1>0, Zenon DEF vars, TypeOK, Cooldown
<1>1. ASSUME NEW ok \in BOOLEAN, List(ok) PROVE Cooldown'
  BY <1>1, Zenon DEF List, Goto, Calls, Count, TypeOK, Roles, Cooldown
<1>2. ASSUME NEW ok \in BOOLEAN, PauseKeda(ok) PROVE Cooldown'
  BY <1>2, Zenon DEF PauseKeda, Goto, Calls, Count, TypeOK, Cooldown
<1>3. ASSUME NEW a \in Actors, NEW ok \in BOOLEAN, Touch(a, ok) PROVE Cooldown'
  <2>1. upAge' = 0 /\ age' \in Nat /\ (~unrecorded' => age' = 0)
    <3>1. (age' = 0 \/ age' = age) /\ upAge' = 0 /\ (~unrecorded' => age' = 0)
      BY <1>3, Zenon DEF Touch
    <3>2. age \in Nat
      BY DEF TypeOK
    <3> QED
      BY <3>1, <3>2
  <2>2. upAge' <= age' /\ (~unrecorded' => upAge' = age')
    BY <2>1
  <2> QED
    BY <1>3, <2>2, Zenon DEF Touch, Goto, TypeOK, Cooldown
<1>4. ASSUME NEW a \in Actors, NEW ok \in BOOLEAN, Unpause(a, ok) PROVE Cooldown'
  BY <1>4, Zenon DEF Unpause, Goto, Calls, Count, TypeOK, Cooldown
<1>5. ASSUME NEW a \in Actors, NEW ok \in BOOLEAN, ScaleGet(a, ok) PROVE Cooldown'
  BY <1>5 DEF ScaleGet, Goto, Calls, Count, AfterScale, Desired, Down,
     NoScaleRequired, TypeOK, Roles, Cooldown
<1>6. ASSUME NEW a \in Actors, NEW ok \in BOOLEAN, ScaleUpdate(a, ok) PROVE Cooldown'
  BY <1>6, Zenon DEF ScaleUpdate, Goto, Calls, Count, AfterScale, TypeOK, Roles, Cooldown
<1>7. CASE Calculate
  BY <1>7, Zenon DEF Calculate, Goto, TypeOK, Cooldown
<1>8. CASE AskTrigger
  BY <1>8, SMTT(40) DEF AskTrigger, Goto, TypeOK, Roles, Cooldown, Verdicts
<1>9. CASE CheckCooldown
  BY <1>9 DEF CheckCooldown, Goto, TypeOK, Cooldown
<1>10. CASE Notify
  BY <1>10, Zenon DEF Notify, Goto, TypeOK, Roles, Cooldown
<1>11. CASE Finalize
  BY <1>11, Zenon DEF Finalize, Goto, TypeOK, Cooldown
<1>12. CASE RemoveCRD
  BY <1>12, Zenon DEF RemoveCRD, Goto, TypeOK, Roles, Cooldown
<1>13. CASE Converge
  BY <1>13, Zenon DEF Converge, TypeOK, Cooldown
<1>14. CASE KedaHolds
  BY <1>14, Zenon DEF KedaHolds, TypeOK, Cooldown
<1>15. CASE Autoscale
  BY <1>15, Zenon DEF Autoscale, TypeOK, Roles, Cooldown
<1>16. CASE Tick
  BY <1>16 DEF Tick, Older, TypeOK, Cooldown
<1>17. CASE TriggersChange
  BY <1>17, Zenon DEF TriggersChange, TypeOK, Cooldown
<1>18. CASE PeriodChanges
  BY <1>18, Zenon DEF PeriodChanges, TypeOK, Cooldown
<1>19. CASE RequestWaits
  BY <1>19, Zenon DEF RequestWaits, TypeOK, Cooldown
<1>20. CASE RequestsServed
  BY <1>20, Zenon DEF RequestsServed, TypeOK, Cooldown
<1>21. CASE Delete
  BY <1>21, Zenon DEF Delete, TypeOK, Cooldown
<1> QED
  BY <1>0, <1>1, <1>2, <1>3, <1>4, <1>5, <1>6, <1>7, <1>8, <1>9, <1>10, <1>11,
     <1>12, <1>13, <1>14, <1>15, <1>16, <1>17, <1>18, <1>19, <1>20, <1>21, Zenon
     DEF Next, Poller, Server, Finalizer, Environment, CallStep, Actors

(* Nothing takes the replicas of a restored target away. *)
LEMMA RestoredNext == TypeOK /\ Roles /\ Restored /\ [Next]_vars => Restored'
<1> SUFFICES ASSUME TypeOK, Roles, Restored, [Next]_vars PROVE Restored'
  BY Zenon
<1> USE Numbers DEF kube, env, clock, scaling, notes
<1>0. CASE UNCHANGED vars
  BY <1>0, Zenon DEF vars, TypeOK, Restored
<1>1. ASSUME NEW ok \in BOOLEAN, List(ok) PROVE Restored'
  BY <1>1, ZenonT(40) DEF List, Goto, Calls, Count, TypeOK, Roles, Restored
<1>2. ASSUME NEW ok \in BOOLEAN, PauseKeda(ok) PROVE Restored'
  BY <1>2, Zenon DEF PauseKeda, Goto, Calls, Count, TypeOK, Restored
<1>3. ASSUME NEW a \in Actors, NEW ok \in BOOLEAN, Touch(a, ok) PROVE Restored'
  BY <1>3, Zenon DEF Touch, Goto, Calls, Count, TypeOK, Roles, Restored
<1>4. ASSUME NEW a \in Actors, NEW ok \in BOOLEAN, Unpause(a, ok) PROVE Restored'
  BY <1>4, ZenonT(40) DEF Unpause, Goto, Calls, Count, TypeOK, Restored
<1>5. ASSUME NEW a \in Actors, NEW ok \in BOOLEAN, ScaleGet(a, ok) PROVE Restored'
  BY <1>5 DEF ScaleGet, Goto, Calls, Count, AfterScale, Desired, Down,
     NoScaleRequired, TypeOK, Roles, Restored
<1>6. ASSUME NEW a \in Actors, NEW ok \in BOOLEAN, ScaleUpdate(a, ok) PROVE Restored'
  BY <1>6, Zenon DEF ScaleUpdate, Goto, Calls, Count, AfterScale, TypeOK, Roles, Restored
<1>7. CASE Calculate
  BY <1>7, Zenon DEF Calculate, Goto, TypeOK, Restored
<1>8. CASE AskTrigger
  BY <1>8, Zenon DEF AskTrigger, Goto, TypeOK, Roles, Restored
<1>9. CASE CheckCooldown
  BY <1>9, Zenon DEF CheckCooldown, Goto, TypeOK, Restored
<1>10. CASE Notify
  BY <1>10, Zenon DEF Notify, Goto, TypeOK, Roles, Restored
<1>11. CASE Finalize
  BY <1>11, ZenonT(40) DEF Finalize, Goto, TypeOK, Roles, Restored
<1>12. CASE RemoveCRD
  BY <1>12, Zenon DEF RemoveCRD, Goto, TypeOK, Roles, Restored
<1>13. CASE Converge
  BY <1>13 DEF Converge, TypeOK, Restored
<1>14. CASE KedaHolds
  BY <1>14, Zenon DEF KedaHolds, TypeOK, Restored
<1>15. CASE Autoscale
  BY <1>15 DEF Autoscale, TypeOK, Roles, Restored
<1>16. CASE Tick
  BY <1>16, Zenon DEF Tick, Older, TypeOK, Restored
<1>17. CASE TriggersChange
  BY <1>17, Zenon DEF TriggersChange, TypeOK, Restored
<1>18. CASE PeriodChanges
  BY <1>18, Zenon DEF PeriodChanges, TypeOK, Restored
<1>19. CASE RequestWaits
  BY <1>19, Zenon DEF RequestWaits, TypeOK, Restored
<1>20. CASE RequestsServed
  BY <1>20, Zenon DEF RequestsServed, TypeOK, Restored
<1>21. CASE Delete
  BY <1>21, Zenon DEF Delete, TypeOK, Restored
<1> QED
  BY <1>0, <1>1, <1>2, <1>3, <1>4, <1>5, <1>6, <1>7, <1>8, <1>9, <1>10, <1>11,
     <1>12, <1>13, <1>14, <1>15, <1>16, <1>17, <1>18, <1>19, <1>20, <1>21, Zenon
     DEF Next, Poller, Server, Finalizer, Environment, CallStep, Actors

(* The inductive invariant holds from the start on. *)
THEOREM ScaleInvariant == Spec => []ScaleInv
<1>1. Init => ScaleInv
  <2> SUFFICES ASSUME Init PROVE ScaleInv
    BY Zenon
  <2> USE Numbers
  <2>a. pc \in [Actors -> Places] /\ \A a \in Actors : pc[a] = "idle"
    BY Zenon DEF Init, Places
  <2>b. verdict \in [1..Triggers -> Verdicts]
    BY Zenon DEF Init, Verdicts
  <2>c. /\ {age, esAge, snapAge, upAge} \subseteq 0..resolveCooldownPeriod
        /\ ticked \in 0..RoundTicks /\ trigger \in 1..(Triggers + 1) /\ faults \in 0..MaxFaults
    BY DEF Init
  <2>d. lock = "free" /\ lock \notin Actors
    BY Zenon DEF Init
  <2>1. TypeOK
    BY <2>a, <2>b, <2>c, <2>d, ZenonT(40) DEF Init, TypeOK
  <2>2. upAge = age /\ upAge <= age
    BY DEF Init
  <2> QED
    BY <2>1, <2>2, Zenon DEF Init, ScaleInv, Roles, Cooldown, Restored
<1>2. ScaleInv /\ [Next]_vars => ScaleInv'
  BY TypesNext, RolesNext, CooldownNext, RestoredNext, Zenon DEF ScaleInv
<1> QED
  BY <1>1, <1>2, PTL DEF Spec

(* The mutex of Scale is held exactly between its read and its update, and *)
(* the types: for every number of triggers and failures, with and without  *)
(* KEDA.                                                                   *)
THEOREM ScaleTypes == Spec => []TypeOK
<1>1. ScaleInv => TypeOK
  BY Zenon DEF ScaleInv
<1> QED
  BY <1>1, ScaleInvariant, PTL

(* handleScaleToZero scales down within the cooldown after the last        *)
(* scale-up began only if that scale-up came after the poller's listing,   *)
(* or if lastScaledUpTime could not be updated when it began: for every    *)
(* cooldown, however slow the poller is and whatever else fails.           *)
THEOREM ScaleHonoursCooldown == Spec => CooldownUnlessRacedOrUnrecorded
<1>1. ScaleInv => (PollerScalesDown => upAge = resolveCooldownPeriod \/ raced \/ unrecorded)
  BY Zenon DEF ScaleInv, PollerScalesDown, Cooldown
<1> QED
  BY <1>1, ScaleInvariant, PTL DEF CooldownUnlessRacedOrUnrecorded

(* finalizeCRD restores a target that was at rest at 0, unless the poller  *)
(* or the scale server overlaps it: once the ElastiService is gone the     *)
(* target is asked to be up and KEDA is not paused, whatever calls have    *)
(* failed on the way.                                                      *)
THEOREM ScaleRestoresDeleted == Spec => []DeletedAtRestIsUp
<1>1. ScaleInv => DeletedAtRestIsUp
  BY Zenon DEF ScaleInv, Restored, DeletedAtRestIsUp
<1> QED
  BY <1>1, ScaleInvariant, PTL
=============================================================================
