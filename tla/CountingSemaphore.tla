------------------------- MODULE CountingSemaphore -------------------------
(***************************************************************************)
(* What the semaphore of resolver/internal/throttler promises its caller,  *)
(* without its lock-free state word, its wake-up channel or its retries:   *)
(* at most Capacity calls hold it at once, a call that waits may give up   *)
(* when its context ends, and each call holds it at most once.             *)
(***************************************************************************)
EXTENDS Naturals

CONSTANTS
  Calls,      \* calls of Breaker.Maybe that reach sem.acquire
  Capacity    \* how many of them may hold the semaphore at once

VARIABLES
  free,    \* units of capacity nobody holds
  phase    \* what each call is doing

absVars == <<free, phase>>

Init ==
  /\ free = Capacity
  /\ phase = [c \in Calls |-> "idle"]

Become(c, p) == phase' = [phase EXCEPT ![c] = p]

(* The call enters acquire. *)
Request(c) ==
  /\ phase[c] = "idle"
  /\ Become(c, "waiting")
  /\ UNCHANGED free

(* acquire returns nil. *)
Acquire(c) ==
  /\ phase[c] = "waiting"
  /\ free > 0
  /\ free' = free - 1
  /\ Become(c, "holding")

(* acquire returns the error of its context. *)
GiveUp(c) ==
  /\ phase[c] = "waiting"
  /\ Become(c, "done")
  /\ UNCHANGED free

(* release gives the unit of capacity back. *)
Release(c) ==
  /\ phase[c] = "holding"
  /\ free' = free + 1
  /\ Become(c, "done")

Next == \E c \in Calls : Request(c) \/ Acquire(c) \/ GiveUp(c) \/ Release(c)

Spec == Init /\ [][Next]_absVars
=============================================================================
