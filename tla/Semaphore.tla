----------------------------- MODULE Semaphore -----------------------------
(***************************************************************************)
(* The lock-free counting semaphore of resolver/internal/throttler         *)
(* (semaphore.go).  Its state word packs (capacity, in); a buffered        *)
(* channel carries wake-ups ("pokes").  One action is one atomic access:   *)
(* a load, a compare-and-swap, a receive from or a non-blocking send to    *)
(* the channel.                                                            *)
(*                                                                         *)
(* updateCapacity is called only by newSemaphore, before any call can      *)
(* see the semaphore, so it is part of Init and capacity never changes     *)
(* afterwards.  in stays far below 2^32, so the packing loses nothing.     *)
(* The capacity may exceed the size of the channel: the defaults of the    *)
(* resolver are 100 over 10, those of the chart 500 over 100.              *)
(***************************************************************************)
EXTENDS Integers, FiniteSets

CONSTANTS
  Calls,            \* the acquire/release pairs that use the semaphore
  MaxCapacity,      \* newSemaphore's maxCapacity: the size of the channel
  InitialCapacity   \* newSemaphore's initialCapacity: the capacity

ASSUME CallsAssumption == IsFiniteSet(Calls)
ASSUME CapacityAssumption ==
  /\ MaxCapacity \in Nat \ {0}   \* an unbuffered channel is not a counter
  /\ InitialCapacity \in Nat

VARIABLES
  in,      \* lower half of the state word: units of capacity taken
  queue,   \* pokes buffered in the channel
  pc,      \* where each call is
  old      \* the in that each call loaded last

semVars == <<in, queue, pc, old>>

(* The upper half of the state word, fixed by newSemaphore. *)
capacity == InitialCapacity

PCs == {"idle", "acquire", "acqCAS", "wait", "held", "release", "relCAS",
        "poke", "done", "panic"}

Goto(c, l) == pc' = [pc EXCEPT ![c] = l]

(* The loaded word is dead after the compare-and-swap. *)
Forget(c) == old' = [old EXCEPT ![c] = 0]

(* A non-blocking send on the channel: dropped when the buffer is full. *)
PokedQueue == IF queue < MaxCapacity THEN queue + 1 ELSE queue

-----------------------------------------------------------------------------
(* What the channel can announce of the capacity. *)
Announceable == IF InitialCapacity < MaxCapacity THEN InitialCapacity ELSE MaxCapacity

(* newSemaphore followed by updateCapacity(initialCapacity): the capacity  *)
(* grows from 0, and one poke is sent per unit, the surplus dropped.       *)
SemInit ==
  /\ in = 0
  /\ queue = Announceable
  /\ pc = [c \in Calls |-> "idle"]
  /\ old = [c \in Calls |-> 0]

(* The caller enters acquire. *)
Start(c) ==
  /\ pc[c] = "idle"
  /\ Goto(c, "acquire")
  /\ UNCHANGED <<in, queue, old>>

(* acquire loads the state word; without spare capacity it goes on to the  *)
(* select, otherwise to the compare-and-swap.                              *)
AcquireLoad(c) ==
  /\ pc[c] = "acquire"
  /\ old' = [old EXCEPT ![c] = in]
  /\ Goto(c, IF in >= capacity THEN "wait" ELSE "acqCAS")
  /\ UNCHANGED <<in, queue>>

(* The select receives a poke; acquire starts over. *)
AcquireWake(c) ==
  /\ pc[c] = "wait"
  /\ queue > 0
  /\ queue' = queue - 1
  /\ Goto(c, "acquire")
  /\ UNCHANGED <<in, old>>

(* The select sees the context done; acquire returns its error. *)
AcquireCancel(c) ==
  /\ pc[c] = "wait"
  /\ Goto(c, "done")
  /\ UNCHANGED <<in, queue, old>>

(* Mutant: a plain store instead of a compare-and-swap. *)
AcquireStore(c) ==
  /\ pc[c] = "acqCAS"
  /\ in' = old[c] + 1
  /\ Goto(c, "held")
  /\ Forget(c)
  /\ UNCHANGED queue

(* The compare-and-swap of acquire: it succeeds if the word is still the   *)
(* loaded one, and starts over otherwise.                                  *)
AcquireCAS(c) ==
  /\ pc[c] = "acqCAS"
  /\ in' = IF in = old[c] THEN in + 1 ELSE in
  /\ Goto(c, IF in = old[c] THEN "held" ELSE "acquire")
  /\ Forget(c)
  /\ UNCHANGED queue

(* The thunk of the caller returns and its deferred release starts. *)
Finish(c) ==
  /\ pc[c] = "held"
  /\ Goto(c, "release")
  /\ UNCHANGED <<in, queue, old>>

(* release loads the state word and panics when nothing is taken. *)
ReleaseLoad(c) ==
  /\ pc[c] = "release"
  /\ old' = [old EXCEPT ![c] = in]
  /\ Goto(c, IF in = 0 THEN "panic" ELSE "relCAS")
  /\ UNCHANGED <<in, queue>>

(* The compare-and-swap of release; a success is followed by a poke if     *)
(* there is spare capacity.                                                *)
ReleaseCAS(c) ==
  /\ pc[c] = "relCAS"
  /\ in' = IF in = old[c] THEN in - 1 ELSE in
  /\ Goto(c, IF in # old[c] THEN "release"
             ELSE IF in - 1 < capacity THEN "poke" ELSE "done")
  /\ Forget(c)
  /\ UNCHANGED queue

(* Mutant: release does not poke. *)
ReleasePokeForgotten(c) ==
  /\ pc[c] = "poke"
  /\ Goto(c, "done")
  /\ UNCHANGED <<in, queue, old>>

(* The non-blocking send that wakes a waiter. *)
ReleasePoke(c) ==
  /\ pc[c] = "poke"
  /\ queue' = PokedQueue
  /\ Goto(c, "done")
  /\ UNCHANGED <<in, old>>

(* The steps inside acquire and release, and those the caller decides. *)
SemStep(c) ==
  \/ AcquireLoad(c) \/ AcquireWake(c) \/ AcquireCancel(c) \/ AcquireCAS(c)
  \/ ReleaseLoad(c) \/ ReleaseCAS(c) \/ ReleasePoke(c)

SemNext == \E c \in Calls : Start(c) \/ Finish(c) \/ SemStep(c)

SemSpec == SemInit /\ [][SemNext]_semVars

-----------------------------------------------------------------------------
(* Calls that own a unit of capacity. *)
Holders == {c \in Calls : pc[c] \in {"held", "release", "relCAS"}}

(* Calls that will look at the state word again, or send a poke, without   *)
(* needing anyone to wake them.                                            *)
Active == {c \in Calls : pc[c] \in {"acquire", "acqCAS", "poke"}}

(* The types; the channel never holds more signals than its buffer. *)
SemTypeOK ==
  /\ in \in Nat
  /\ queue \in 0..MaxCapacity
  /\ pc \in [Calls -> PCs]
  /\ old \in [Calls -> Nat]

(* The state word counts the holders exactly, whatever the interleaving of *)
(* the load and compare-and-swap pairs of acquire and release.             *)
InCountsHolders == in = Cardinality(Holders)

(* No more calls run than the capacity of the semaphore allows.            *)
WithinCapacity == Cardinality(Holders) <= InitialCapacity

(* acquire and release are paired: release never finds the count at zero   *)
(* (the panic of release is unreachable).                                  *)
NeverPanics == \A c \in Calls : pc[c] # "panic"

(* Dropped pokes never idle the semaphore below the size of its channel:   *)
(* as many units as the channel can announce are held, announced by a      *)
(* buffered poke, or about to be looked at by a call that needs no poke.   *)
(* It is what is true of the comment in release on dropped pokes when the  *)
(* capacity exceeds the channel, as it does by default.                    *)
CapacityInUse == queue + Cardinality(Active) + Cardinality(Holders) >= Announceable

(* A call in the select always has a poke to receive, a call that will     *)
(* look at the state word or poke, or a holder whose release will poke.    *)
WaiterHasWaker ==
  \A c \in Calls : pc[c] = "wait" => queue > 0 \/ Active # {} \/ Holders # {}

(* No lost wake-up: a call never sits in the select while capacity is free *)
(* and nothing is left that could wake it.  The comment in release says    *)
(* so: "we have enough wakeups to wake up as many goroutines as this       *)
(* semaphore can take, which is guaranteed to be enough".  It is false     *)
(* when the capacity exceeds the size of the channel.                      *)
NoLostWakeup ==
  \A c \in Calls :
    pc[c] = "wait" /\ in < InitialCapacity => queue > 0 \/ Active # {}

(* The semaphore implements CountingSemaphore: a unit is acquired by the   *)
(* successful compare-and-swap of acquire and given back by that of        *)
(* release.                                                                *)
PhaseOf(l) ==
  CASE l = "idle" -> "idle"
    [] l \in {"acquire", "acqCAS", "wait"} -> "waiting"
    [] l \in {"held", "release", "relCAS", "panic"} -> "holding"
    [] l \in {"poke", "done"} -> "done"

Abs == INSTANCE CountingSemaphore
         WITH Capacity <- InitialCapacity, free <- InitialCapacity - in,
              phase <- [c \in Calls |-> PhaseOf(pc[c])]

(* Every behaviour of the lock-free code is one of the counting semaphore. *)
ImplementsCountingSemaphore == Abs!Spec
=============================================================================
