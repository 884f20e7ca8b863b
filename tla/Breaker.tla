------------------------------ MODULE Breaker ------------------------------
(***************************************************************************)
(* The breaker of resolver/internal/throttler (breaker.go): Breaker.Maybe  *)
(* admits a call when one of QueueDepth + MaxConcurrency in-flight slots   *)
(* is free, makes it wait for the semaphore, runs its thunk and gives      *)
(* both back.  The semaphore is module Semaphore, composed by sharing its  *)
(* actions: a call enters acquire in the step that takes its slot, and     *)
(* gives the slot back once its use of the semaphore is over.              *)
(***************************************************************************)
EXTENDS Semaphore

CONSTANT QueueDepth   \* BreakerParams.QueueDepth; MaxCapacity is MaxConcurrency

ASSUME QueueDepthAssumption == QueueDepth \in Nat

(* NewBreaker: queue depth plus maximal concurrency. *)
totalSlots == QueueDepth + MaxCapacity

VARIABLES
  inFlight,   \* the atomic counter of slots taken
  at,         \* where each call is in Maybe
  cur         \* the inFlight that each call loaded last

slotVars == <<inFlight, at, cur>>
vars == <<semVars, slotVars>>

Places == {"new", "load", "slotCAS", "inside", "giveBack", "rejected", "returned"}

Move(c, p) == at' = [at EXCEPT ![c] = p]

(* The loaded counter is dead after the compare-and-swap. *)
ForgetSlot(c) == cur' = [cur EXCEPT ![c] = 0]

Init ==
  /\ SemInit
  /\ inFlight = 0
  /\ at = [c \in Calls |-> "new"]
  /\ cur = [c \in Calls |-> 0]

(* Throttler.Try calls Maybe. *)
Enter(c) ==
  /\ at[c] = "new"
  /\ Move(c, "load")
  /\ UNCHANGED <<semVars, inFlight, cur>>

(* tryAcquireInFlightSlot loads the counter; Maybe returns                 *)
(* ErrRequestQueueFull when every slot is taken.                           *)
SlotLoad(c) ==
  /\ at[c] = "load"
  /\ cur' = [cur EXCEPT ![c] = inFlight]
  /\ Move(c, IF inFlight >= totalSlots THEN "rejected" ELSE "slotCAS")
  /\ UNCHANGED <<semVars, inFlight>>

(* The compare-and-swap of tryAcquireInFlightSlot: on success Maybe goes   *)
(* on to sem.acquire, otherwise the counter is loaded again.               *)
SlotCAS(c) ==
  /\ at[c] = "slotCAS"
  /\ ForgetSlot(c)
  /\ \/ /\ inFlight = cur[c]
        /\ inFlight' = inFlight + 1
        /\ Move(c, "inside")
        /\ Start(c)
     \/ /\ inFlight # cur[c]
        /\ Move(c, "load")
        /\ UNCHANGED <<semVars, inFlight>>

(* The call runs sem.acquire, its thunk and sem.release. *)
UseSemaphore(c) ==
  /\ Finish(c) \/ SemStep(c)
  /\ UNCHANGED slotVars

(* The deferred releaseInFlightSlot loads the counter. *)
GiveBackLoad(c) ==
  /\ at[c] = "inside"
  /\ pc[c] = "done"
  /\ cur' = [cur EXCEPT ![c] = inFlight]
  /\ Move(c, "giveBack")
  /\ UNCHANGED <<semVars, inFlight>>

(* Mutant: a plain store instead of a compare-and-swap. *)
GiveBackStore(c) ==
  /\ at[c] = "giveBack"
  /\ inFlight' = cur[c] - 1
  /\ Move(c, "returned")
  /\ ForgetSlot(c)
  /\ UNCHANGED semVars

(* releaseInFlightSlot tries its compare-and-swap once and returns         *)
(* whatever the outcome.                                                   *)
GiveBackCAS(c) ==
  /\ at[c] = "giveBack"
  /\ inFlight' = IF inFlight = cur[c] THEN inFlight - 1 ELSE inFlight
  /\ Move(c, "returned")
  /\ ForgetSlot(c)
  /\ UNCHANGED semVars

Next ==
  \E c \in Calls : \/ Enter(c) \/ SlotLoad(c) \/ SlotCAS(c)
                   \/ UseSemaphore(c) \/ GiveBackLoad(c) \/ GiveBackCAS(c)

Spec == Init /\ [][Next]_vars

(* What the goroutine of a call does by itself: all but entering Maybe and *)
(* seeing its context end, which are left to the environment.              *)
Progress(c) ==
  \/ SlotLoad(c) \/ SlotCAS(c) \/ (UseSemaphore(c) /\ ~AcquireCancel(c))
  \/ GiveBackLoad(c) \/ GiveBackCAS(c)

(* Goroutines run and thunks return. *)
FairSpec == Spec /\ \A c \in Calls : WF_vars(Progress(c))

-----------------------------------------------------------------------------
(* Calls between taking a slot and giving it back. *)
Inside == {c \in Calls : at[c] \in {"inside", "giveBack"}}

(* The types of the slot counter, the places and the semaphore. *)
TypeOK ==
  /\ SemTypeOK
  /\ inFlight \in Nat
  /\ at \in [Calls -> Places]
  /\ cur \in [Calls -> Nat]

(* The counter never misses a call that is inside, however the loads and   *)
(* compare-and-swaps interleave, so it admits at most totalSlots calls.    *)
AdmissionBound ==
  /\ Cardinality(Inside) <= inFlight
  /\ inFlight <= totalSlots

(* A call is turned away only when as many calls as there are slots are    *)
(* inside: "request queue is full! This request is dropped".               *)
RejectedOnlyWhenFull ==
  [][\A c \in Calls : at[c] # "rejected" /\ at'[c] = "rejected"
                        => Cardinality(Inside) = totalSlots]_vars

(* At most MaxConcurrency thunks run at once: "Breaker enforces a          *)
(* concurrency limit on the execution of a function.  Function call        *)
(* attempts beyond the limit of the max-concurrency are failed             *)
(* immediately."  It is false when InitialCapacity exceeds MaxConcurrency. *)
ConcurrencyLimit == Cardinality(Holders) <= MaxCapacity

(* Every call of Maybe returns although pokes are dropped: each call is    *)
(* made at most once, so that in the end none is on its way.               *)
EveryCallReturns ==
  <>[](\A c \in Calls : at[c] \in {"new", "rejected", "returned"})

(* The breaker uses the semaphore as its specification demands.            *)
ImplementsSemaphore == SemSpec
=============================================================================
