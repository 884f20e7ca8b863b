--------------------------- MODULE BreakerProofs ---------------------------
(***************************************************************************)
(* Proofs about the breaker and the lock-free semaphore in it, for any     *)
(* finite set of calls and any limits.  The theorems of the first part are *)
(* about the semaphore alone (SemSpec).  The slots are independent of it,  *)
(* so the breaker inherits them through the refinement BreakerRefinement.  *)
(* The last part is about Throttler.Try, whose attempts the breaker limits.*)
(***************************************************************************)
EXTENDS Breaker, Throttler, FiniteSetTheorems, TLAPS

(* The number of calls whose label is in L. *)
CountIn(f, L) == Cardinality({x \in Calls : f[x] \in L})

(* Moving one call to a label changes the count of calls in a set of       *)
(* labels by one at most: up if the call enters the set, down if it leaves.*)
LEMMA CountMove ==
  ASSUME NEW f, NEW g, NEW L, NEW c \in Calls,
         \A x \in Calls : x # c => g[x] = f[x]
  PROVE  /\ CountIn(f, L) \in Nat
         /\ f[c] \in L => CountIn(f, L) > 0
         /\ CountIn(g, L) =
              IF f[c] \in L
              THEN IF g[c] \in L THEN CountIn(f, L) ELSE CountIn(f, L) - 1
              ELSE IF g[c] \in L THEN CountIn(f, L) + 1 ELSE CountIn(f, L)
<1> DEFINE A == {x \in Calls : f[x] \in L}
           B == {x \in Calls : g[x] \in L}
<1>0. CountIn(f, L) = Cardinality(A) /\ CountIn(g, L) = Cardinality(B)
  BY Zenon DEF CountIn
<1>1. IsFiniteSet(A) /\ Cardinality(A) \in Nat
  BY CallsAssumption, FS_Subset, FS_CardinalityType, Zenon
<1>2. f[c] \in L => Cardinality(A) > 0
  <2>1. f[c] \in L => A # {}
    BY Zenon
  <2> HIDE DEF A
  <2> QED
    BY <1>1, <2>1, FS_EmptySet
<1>3. c \in A <=> f[c] \in L
  BY Zenon
<1>4. g[c] \in L => B = A \cup {c}
  BY Zenon
<1>5. g[c] \notin L => B = A \ {c}
  BY Zenon
<1> HIDE DEF A, B
<1>6. Cardinality(A \cup {c}) = IF c \in A THEN Cardinality(A) ELSE Cardinality(A) + 1
  BY <1>1, FS_AddElement, ZenonT(40)
<1>7. Cardinality(A \ {c}) = IF c \in A THEN Cardinality(A) - 1 ELSE Cardinality(A)
  BY <1>1, FS_RemoveElement, ZenonT(40)
<1>8. Cardinality(B) = IF f[c] \in L
                      THEN IF g[c] \in L THEN Cardinality(A) ELSE Cardinality(A) - 1
                      ELSE IF g[c] \in L THEN Cardinality(A) + 1 ELSE Cardinality(A)
  BY <1>3, <1>4, <1>5, <1>6, <1>7, Zenon
<1> QED
  BY <1>0, <1>1, <1>2, <1>8, Zenon

(* No call is counted in the initial state.                                *)
LEMMA CountNone ==
  ASSUME NEW f, NEW L, \A x \in Calls : f[x] \notin L
  PROVE  CountIn(f, L) = 0
<1>1. {x \in Calls : f[x] \in L} = {}
  BY Zenon
<1> QED
  BY <1>1, FS_EmptySet, Zenon DEF CountIn

HolderPCs == {"held", "release", "relCAS"}
ActivePCs == {"acquire", "acqCAS", "poke"}

(* The properties in terms of CountIn. *)
LEMMA Counts ==
  /\ Cardinality(Holders) = CountIn(pc, HolderPCs)
  /\ Cardinality(Active) = CountIn(pc, ActivePCs)
BY Zenon DEF Holders, Active, CountIn, HolderPCs, ActivePCs

-----------------------------------------------------------------------------
(* The inductive invariant: the type, the exact count of holders, and the  *)
(* fact that a call is at the compare-and-swap of acquire only with a      *)
(* loaded count below the capacity.                                        *)
LoadedBelowCapacity ==
  \A c \in Calls : pc[c] = "acqCAS" => old[c] < InitialCapacity

SemInv ==
  /\ SemTypeOK
  /\ in = CountIn(pc, HolderPCs)
  /\ in <= InitialCapacity
  /\ NeverPanics
  /\ LoadedBelowCapacity

(* The inductive invariant holds initially. *)
LEMMA SemInvInit == SemInit => SemInv
<1> SUFFICES ASSUME SemInit PROVE SemInv
  BY Zenon
<1>1. CountIn(pc, HolderPCs) = 0
  BY CountNone, Zenon DEF SemInit, HolderPCs
<1> QED
  BY <1>1, CapacityAssumption
  DEF SemInit, Announceable, SemInv, SemTypeOK, NeverPanics, LoadedBelowCapacity, PCs

(* Every step of acquire and release preserves the inductive invariant. *)
LEMMA SemInvNext == SemInv /\ [SemNext]_semVars => SemInv'
<1> SUFFICES ASSUME SemInv, [SemNext]_semVars PROVE SemInv'
  BY Zenon
<1> USE CapacityAssumption
<1>1. CASE UNCHANGED semVars
  BY <1>1, Zenon DEF SemInv, SemTypeOK, NeverPanics, LoadedBelowCapacity, semVars, CountIn
<1>2. CASE \E c \in Calls : Start(c) \/ Finish(c) \/ SemStep(c)
  <2> PICK c \in Calls : Start(c) \/ Finish(c) \/ SemStep(c)
    BY <1>2, Zenon
  <2> DEFINE Count(f) == CountIn(f, HolderPCs)
  <2>0. /\ pc \in [Calls -> PCs] /\ old \in [Calls -> Nat] /\ in \in Nat
        /\ queue \in 0..MaxCapacity /\ in = Count(pc) /\ in <= InitialCapacity
        /\ NeverPanics /\ LoadedBelowCapacity
    BY Zenon DEF SemInv, SemTypeOK
  <2>M. \A x \in Calls : x # c => pc'[x] = pc[x]
    BY <2>0, Zenon DEF Start, Finish, SemStep, AcquireLoad, AcquireWake, AcquireCancel,
       AcquireCAS, ReleaseLoad, ReleaseCAS, ReleasePoke, Goto
  <2>C. /\ pc[c] \in HolderPCs => in > 0
        /\ Count(pc') = IF pc[c] \in HolderPCs
                         THEN IF pc'[c] \in HolderPCs THEN in ELSE in - 1
                         ELSE IF pc'[c] \in HolderPCs THEN in + 1 ELSE in
    BY <2>0, <2>M, CountMove, ZenonT(40)
  <2> HIDE DEF Count
  <2>1. CASE Start(c)
    <3>1. Count(pc') = in
      BY <2>0, <2>1, <2>C, Zenon DEF Start, Goto, PCs, HolderPCs
    <3> QED
      BY <2>0, <2>1, <3>1, Zenon DEF Start, Goto, SemInv, SemTypeOK, NeverPanics,
         LoadedBelowCapacity, PCs, Count
  <2>2. CASE Finish(c)
    <3>1. Count(pc') = in
      BY <2>0, <2>2, <2>C, Zenon DEF Finish, Goto, PCs, HolderPCs
    <3> QED
      BY <2>0, <2>2, <3>1, Zenon DEF Finish, Goto, SemInv, SemTypeOK, NeverPanics,
         LoadedBelowCapacity, PCs, Count
  <2>3. CASE AcquireLoad(c)
    <3>1. Count(pc') = in
      BY <2>0, <2>3, <2>C, Zenon DEF AcquireLoad, Goto, PCs, HolderPCs
    <3> QED
      BY <2>0, <2>3, <3>1 DEF AcquireLoad, Goto, SemInv, SemTypeOK, NeverPanics,
         LoadedBelowCapacity, PCs, Count, capacity
  <2>4. CASE AcquireWake(c)
    <3>1. Count(pc') = in
      BY <2>0, <2>4, <2>C, Zenon DEF AcquireWake, Goto, PCs, HolderPCs
    <3> QED
      BY <2>0, <2>4, <3>1 DEF AcquireWake, Goto, SemInv, SemTypeOK, NeverPanics,
         LoadedBelowCapacity, PCs, Count
  <2>5. CASE AcquireCancel(c)
    <3>1. Count(pc') = in
      BY <2>0, <2>5, <2>C, Zenon DEF AcquireCancel, Goto, PCs, HolderPCs
    <3> QED
      BY <2>0, <2>5, <3>1, Zenon DEF AcquireCancel, Goto, SemInv, SemTypeOK, NeverPanics,
         LoadedBelowCapacity, PCs, Count
  <2>6. CASE AcquireCAS(c)
    <3>1. Count(pc') = IF in = old[c] THEN in + 1 ELSE in
      BY <2>0, <2>6, <2>C, Zenon DEF AcquireCAS, Goto, PCs, HolderPCs
    <3>2. old[c] < InitialCapacity
      BY <2>0, <2>6, Zenon DEF AcquireCAS, LoadedBelowCapacity
    <3> QED
      BY <2>0, <2>6, <3>1, <3>2 DEF AcquireCAS, Goto, Forget, SemInv, SemTypeOK,
         NeverPanics, LoadedBelowCapacity, PCs, Count
  <2>7. CASE ReleaseLoad(c)
    <3>1. in > 0
      BY <2>0, <2>7, <2>C, Zenon DEF ReleaseLoad, PCs, HolderPCs
    <3>2. Count(pc') = in
      BY <2>7, <2>C, <3>1, <2>0 DEF ReleaseLoad, Goto, PCs, HolderPCs
    <3> QED
      BY <2>0, <2>7, <3>1, <3>2 DEF ReleaseLoad, Goto, SemInv, SemTypeOK,
         NeverPanics, LoadedBelowCapacity, PCs, Count
  <2>8. CASE ReleaseCAS(c)
    <3>1. in > 0
      BY <2>0, <2>8, <2>C, Zenon DEF ReleaseCAS, PCs, HolderPCs
    <3>2. Count(pc') = IF in = old[c] THEN in - 1 ELSE in
      BY <2>8, <2>C, <2>0, Zenon DEF ReleaseCAS, Goto, PCs, HolderPCs
    <3> QED
      BY <2>0, <2>8, <3>1, <3>2 DEF ReleaseCAS, Goto, Forget, SemInv, SemTypeOK,
         NeverPanics, LoadedBelowCapacity, PCs, Count
  <2>9. CASE ReleasePoke(c)
    <3>1. Count(pc') = in
      BY <2>0, <2>9, <2>C, Zenon DEF ReleasePoke, Goto, PCs, HolderPCs
    <3>2. queue' \in 0..MaxCapacity
      BY <2>0, <2>9 DEF ReleasePoke, PokedQueue
    <3> QED
      BY <2>0, <2>9, <3>1, <3>2, Zenon DEF ReleasePoke, Goto, SemInv, SemTypeOK,
         NeverPanics, LoadedBelowCapacity, PCs, Count
  <2> QED
    BY <2>1, <2>2, <2>3, <2>4, <2>5, <2>6, <2>7, <2>8, <2>9, Zenon DEF SemStep
<1> QED
  BY <1>1, <1>2, Zenon DEF SemNext

(* The inductive invariant holds in every reachable state. *)
LEMMA SemInvHolds == SemSpec => []SemInv
BY SemInvInit, SemInvNext, PTL DEF SemSpec

(* The type invariant of the semaphore.                                    *)
THEOREM SemTypeCorrect == SemSpec => []SemTypeOK
<1>1. SemInv => SemTypeOK
  BY Zenon DEF SemInv
<1> QED
  BY <1>1, SemInvHolds, PTL

(* The state word of the semaphore is exact: it counts the calls that hold *)
(* a unit.                                                                 *)
THEOREM SemCountExact == SemSpec => []InCountsHolders
<1>1. SemInv => InCountsHolders
  BY Counts, Zenon DEF SemInv, InCountsHolders
<1> QED
  BY <1>1, SemInvHolds, PTL

(* Mutual exclusion up to the capacity, whatever the number of calls.      *)
THEOREM SemMutualExclusion == SemSpec => []WithinCapacity
<1>1. SemInv => WithinCapacity
  BY Counts, Zenon DEF SemInv, WithinCapacity
<1> QED
  BY <1>1, SemInvHolds, PTL

(* The panic of release, "release and acquire are not paired", is          *)
(* unreachable.                                                            *)
THEOREM SemNoPanic == SemSpec => []NeverPanics
<1>1. SemInv => NeverPanics
  BY Zenon DEF SemInv
<1> QED
  BY <1>1, SemInvHolds, PTL

-----------------------------------------------------------------------------
(* Dropped pokes, whether or not the channel can buffer one poke per unit  *)
(* of capacity.  Since in counts the holders, the units in use, announced  *)
(* or looked at are those of InUse, which is inductive relative to SemInv: *)
(* a call goes to the select only when all of the capacity is held, and a  *)
(* poke is dropped only when the channel is full.                          *)
InUse == queue + CountIn(pc, ActivePCs) + in >= Announceable

(* newSemaphore announces what the channel can announce. *)
LEMMA InUseInit == SemInit => InUse
<1> SUFFICES ASSUME SemInit PROVE InUse
  BY Zenon
<1>1. CountIn(pc, ActivePCs) = 0
  BY CountNone, Zenon DEF SemInit, ActivePCs
<1> QED
  BY <1>1, CapacityAssumption DEF SemInit, InUse, Announceable

(* Every step of acquire and release keeps as many units in use. *)
LEMMA InUseNext == SemInv /\ InUse /\ [SemNext]_semVars => InUse'
<1> SUFFICES ASSUME SemInv, InUse, [SemNext]_semVars PROVE InUse'
  BY Zenon
<1> USE CapacityAssumption
<1>1. CASE UNCHANGED semVars
  BY <1>1, Zenon DEF InUse, semVars, CountIn
<1>2. CASE \E c \in Calls : Start(c) \/ Finish(c) \/ SemStep(c)
  <2> PICK c \in Calls : Start(c) \/ Finish(c) \/ SemStep(c)
    BY <1>2, Zenon
  <2> DEFINE n == CountIn(pc, ActivePCs)
             m == CountIn(pc', ActivePCs)
  <2>0. /\ pc \in [Calls -> PCs] /\ old \in [Calls -> Nat] /\ in \in Nat
        /\ queue \in 0..MaxCapacity /\ in <= InitialCapacity
        /\ queue + n + in >= Announceable
    BY Zenon DEF SemInv, SemTypeOK, InUse
  <2>M. \A x \in Calls : x # c => pc'[x] = pc[x]
    BY <2>0, Zenon DEF Start, Finish, SemStep, AcquireLoad, AcquireWake, AcquireCancel,
       AcquireCAS, ReleaseLoad, ReleaseCAS, ReleasePoke, Goto
  <2>C. /\ n \in Nat
        /\ pc[c] \in ActivePCs => n > 0
        /\ m = IF pc[c] \in ActivePCs
               THEN IF pc'[c] \in ActivePCs THEN n ELSE n - 1
               ELSE IF pc'[c] \in ActivePCs THEN n + 1 ELSE n
    BY <2>0, <2>M, CountMove, ZenonT(40)
  <2>G. SUFFICES queue' + m + in' >= Announceable
    BY Zenon DEF InUse, Announceable
  <2> HIDE DEF n, m
  <2>1. CASE Start(c)
    BY <2>0, <2>C, <2>1 DEF Start, Goto, ActivePCs, Announceable
  <2>2. CASE Finish(c)
    BY <2>0, <2>C, <2>2, Zenon DEF Finish, Goto, ActivePCs
  <2>3. CASE AcquireLoad(c)
    BY <2>0, <2>C, <2>3 DEF AcquireLoad, Goto, ActivePCs, capacity, Announceable
  <2>4. CASE AcquireWake(c)
    BY <2>0, <2>C, <2>4 DEF AcquireWake, Goto, ActivePCs
  <2>5. CASE AcquireCancel(c)
    BY <2>0, <2>C, <2>5, Zenon DEF AcquireCancel, Goto, ActivePCs
  <2>6. CASE AcquireCAS(c)
    BY <2>0, <2>C, <2>6 DEF AcquireCAS, Goto, ActivePCs
  <2>7. CASE ReleaseLoad(c)
    BY <2>0, <2>C, <2>7, Zenon DEF ReleaseLoad, Goto, ActivePCs
  <2>8. CASE ReleaseCAS(c)
    BY <2>0, <2>C, <2>8 DEF ReleaseCAS, Goto, ActivePCs, capacity
  <2>9. CASE ReleasePoke(c)
    BY <2>0, <2>C, <2>9 DEF ReleasePoke, Goto, ActivePCs, PokedQueue, Announceable
  <2> QED
    BY <2>1, <2>2, <2>3, <2>4, <2>5, <2>6, <2>7, <2>8, <2>9 DEF SemStep
<1> QED
  BY <1>1, <1>2, Zenon DEF SemNext

(* Of the units that the channel can announce each is held, announced or   *)
(* looked at, for every capacity and every size of the channel: what is    *)
(* true of the comment in release on dropped pokes.                        *)
THEOREM SemCapacityInUse == SemSpec => []CapacityInUse
<1>1. SemInv /\ InUse => CapacityInUse
  BY Counts, Zenon DEF SemInv, InUse, CapacityInUse
<1>2. SemSpec => []InUse
  BY InUseInit, InUseNext, SemInvHolds, PTL DEF SemSpec
<1> QED
  BY <1>1, <1>2, SemInvHolds, PTL

(* Hence nobody waits for nothing in a semaphore with any capacity, also   *)
(* when wake-ups are lost because the capacity exceeds the channel.        *)
THEOREM SemWaiterHasWaker ==
  ASSUME InitialCapacity > 0
  PROVE  SemSpec => []WaiterHasWaker
<1>1. SemInv /\ CapacityInUse => WaiterHasWaker
  <2>1. /\ Active = {} => Cardinality(Active) = 0
        /\ Holders = {} => Cardinality(Holders) = 0
    BY FS_EmptySet, Zenon
  <2>2. Announceable \in Nat /\ Announceable > 0
    BY CapacityAssumption DEF Announceable
  <2> QED
    BY <2>1, <2>2 DEF SemInv, SemTypeOK, CapacityInUse, WaiterHasWaker
<1> QED
  BY <1>1, SemInvHolds, SemCapacityInUse, PTL

-----------------------------------------------------------------------------
(* The lock-free semaphore implements the counting semaphore: Request is   *)
(* Start, Acquire and Release are the successful compare-and-swaps, GiveUp *)
(* is the cancellation, and every other step stutters.                     *)
THEOREM SemRefinement == SemSpec => ImplementsCountingSemaphore
<1> DEFINE ph == [c \in Calls |-> PhaseOf(pc[c])]
<1>1. SemInit => Abs!Init
  BY CapacityAssumption DEF SemInit, Abs!Init, PhaseOf
<1>2. SemInv /\ [SemNext]_semVars => [Abs!Next]_Abs!absVars
  <2> SUFFICES ASSUME SemInv, [SemNext]_semVars PROVE [Abs!Next]_Abs!absVars
    BY Zenon
  <2>0. pc \in [Calls -> PCs] /\ in \in Nat
    BY Zenon DEF SemInv, SemTypeOK
  <2>1. CASE UNCHANGED semVars
    BY <2>1, Zenon DEF semVars, Abs!absVars
  <2>2. CASE \E c \in Calls : Start(c) \/ Finish(c) \/ SemStep(c)
    <3> PICK c \in Calls : Start(c) \/ Finish(c) \/ SemStep(c)
      BY <2>2, Zenon
    <3>P. ASSUME NEW l, Goto(c, l)
          PROVE  [x \in Calls |-> PhaseOf(pc'[x])] = [ph EXCEPT ![c] = PhaseOf(l)]
      BY <2>0, <3>P, ZenonT(40) DEF Goto
    <3>B. ASSUME NEW l, Goto(c, l) PROVE Abs!Become(c, PhaseOf(l))
      BY <3>B, <3>P, Zenon DEF Abs!Become
    <3>S. ASSUME NEW l, Goto(c, l), PhaseOf(l) = PhaseOf(pc[c]), in' = in
          PROVE  UNCHANGED Abs!absVars
      BY <2>0, <3>S, <3>P, ZenonT(40) DEF Abs!absVars
    <3>1. CASE Start(c)
      <4>1. Abs!Become(c, "waiting")
        BY <3>1, <3>B, Zenon DEF Start, PhaseOf
      <4>2. Abs!Request(c)
        BY <3>1, <4>1, Zenon DEF Start, Abs!Request, PhaseOf
      <4> QED
        BY <4>2, Zenon DEF Abs!Next
    <3>2. CASE Finish(c)
      BY <3>2, <3>S, Zenon DEF Finish, PhaseOf
    <3>3. CASE AcquireLoad(c)
      BY <3>3, <3>S, Zenon DEF AcquireLoad, PhaseOf
    <3>4. CASE AcquireWake(c)
      BY <3>4, <3>S, Zenon DEF AcquireWake, PhaseOf
    <3>5. CASE AcquireCancel(c)
      <4>1. Abs!Become(c, "done")
        BY <3>5, <3>B, Zenon DEF AcquireCancel, PhaseOf
      <4>2. Abs!GiveUp(c)
        BY <3>5, <4>1, Zenon DEF AcquireCancel, Abs!GiveUp, PhaseOf
      <4> QED
        BY <4>2, Zenon DEF Abs!Next
    <3>6. CASE AcquireCAS(c)
      <4>1. CASE in # old[c]
        BY <3>6, <4>1, <3>S, Zenon DEF AcquireCAS, PhaseOf
      <4>2. CASE in = old[c]
        <5>1. pc[c] = "acqCAS" /\ Goto(c, "held") /\ in' = in + 1
          BY <3>6, <4>2, Zenon DEF AcquireCAS
        <5>2. in < InitialCapacity
          BY <5>1, <4>2, Zenon DEF SemInv, LoadedBelowCapacity
        <5>3. Abs!Become(c, "holding")
          BY <5>1, <3>B, Zenon DEF PhaseOf
        <5>4. Abs!Acquire(c)
          BY <2>0, <5>1, <5>2, <5>3, CapacityAssumption DEF Abs!Acquire, PhaseOf
        <5> QED
          BY <5>4, Zenon DEF Abs!Next
      <4> QED
        BY <4>1, <4>2, Zenon
    <3>7. CASE ReleaseLoad(c)
      BY <3>7, <3>S, Zenon DEF ReleaseLoad, PhaseOf
    <3>8. CASE ReleaseCAS(c)
      <4>1. CASE in # old[c]
        BY <3>8, <4>1, <3>S, Zenon DEF ReleaseCAS, PhaseOf
      <4>2. CASE in = old[c]
        <5>1. pc[c] = "relCAS" /\ in' = in - 1 /\ \E l \in {"poke", "done"} : Goto(c, l)
          BY <3>8, <4>2, Zenon DEF ReleaseCAS
        <5>2. Abs!Become(c, "done")
          BY <5>1, <3>B, Zenon DEF PhaseOf
        <5>3. Abs!Release(c)
          BY <2>0, <5>1, <5>2, CapacityAssumption DEF Abs!Release, PhaseOf
        <5> QED
          BY <5>3, Zenon DEF Abs!Next
      <4> QED
        BY <4>1, <4>2, Zenon
    <3>9. CASE ReleasePoke(c)
      BY <3>9, <3>S, Zenon DEF ReleasePoke, PhaseOf
    <3> QED
      BY <3>1, <3>2, <3>3, <3>4, <3>5, <3>6, <3>7, <3>8, <3>9, Zenon DEF SemStep
  <2> QED
    BY <2>1, <2>2, Zenon DEF SemNext
<1> QED
  BY <1>1, <1>2, SemInvHolds, PTL DEF SemSpec, ImplementsCountingSemaphore, Abs!Spec

-----------------------------------------------------------------------------
(* The breaker uses the semaphore as the specification of the semaphore    *)
(* demands, so that what is proved of the semaphore holds inside it.       *)
THEOREM BreakerRefinement == Spec => ImplementsSemaphore
<1>1. Init => SemInit
  BY Zenon DEF Init
<1>2. [Next]_vars => [SemNext]_semVars
  <2> SUFFICES ASSUME [Next]_vars PROVE [SemNext]_semVars
    BY Zenon
  <2>1. CASE UNCHANGED vars
    BY <2>1, Zenon DEF vars
  <2>2. ASSUME NEW c \in Calls,
               \/ Enter(c) \/ SlotLoad(c) \/ SlotCAS(c)
               \/ UseSemaphore(c) \/ GiveBackLoad(c) \/ GiveBackCAS(c)
        PROVE  [SemNext]_semVars
    BY <2>2, Zenon DEF Enter, SlotLoad, SlotCAS, UseSemaphore, GiveBackLoad, GiveBackCAS, SemNext
  <2> QED
    BY <2>1, <2>2, Zenon DEF Next
<1> QED
  BY <1>1, <1>2, PTL DEF Spec, SemSpec, ImplementsSemaphore

InsidePlaces == {"inside", "giveBack"}

(* The inductive invariant on the slots: a call reaches the                *)
(* compare-and-swap of tryAcquireInFlightSlot only with a loaded count     *)
(* below the limit, and the counter covers the calls inside.               *)
SlotInv ==
  /\ inFlight \in Nat
  /\ at \in [Calls -> Places]
  /\ cur \in [Calls -> Nat]
  /\ CountIn(at, InsidePlaces) <= inFlight
  /\ inFlight <= totalSlots
  /\ \A c \in Calls : at[c] = "slotCAS" => cur[c] < totalSlots

(* The slot invariant holds initially. *)
LEMMA SlotInvInit == Init => SlotInv
<1> SUFFICES ASSUME Init PROVE SlotInv
  BY Zenon
<1>1. CountIn(at, InsidePlaces) = 0
  BY CountNone, Zenon DEF Init, InsidePlaces
<1> QED
  BY <1>1, CapacityAssumption, QueueDepthAssumption
  DEF Init, SlotInv, Places, totalSlots

(* Every step of tryAcquireInFlightSlot, releaseInFlightSlot and the        *)
(* semaphore preserves the slot invariant.                                 *)
LEMMA SlotInvNext == SlotInv /\ [Next]_vars => SlotInv'
<1> SUFFICES ASSUME SlotInv, [Next]_vars PROVE SlotInv'
  BY Zenon
<1>T. totalSlots \in Nat
  BY CapacityAssumption, QueueDepthAssumption DEF totalSlots
<1>1. CASE UNCHANGED slotVars
  BY <1>1, Zenon DEF SlotInv, slotVars, CountIn
<1>2. ASSUME NEW c \in Calls,
             Enter(c) \/ SlotLoad(c) \/ SlotCAS(c) \/ GiveBackLoad(c) \/ GiveBackCAS(c)
      PROVE  SlotInv'
  <2> DEFINE n == CountIn(at, InsidePlaces)
             m == CountIn(at', InsidePlaces)
  <2>0. /\ inFlight \in Nat /\ at \in [Calls -> Places] /\ cur \in [Calls -> Nat]
        /\ n <= inFlight /\ inFlight <= totalSlots
        /\ \A x \in Calls : at[x] = "slotCAS" => cur[x] < totalSlots
    BY Zenon DEF SlotInv
  <2>M. \A x \in Calls : x # c => at'[x] = at[x]
    BY <2>0, <1>2, Zenon DEF Enter, SlotLoad, SlotCAS, GiveBackLoad, GiveBackCAS, Move
  <2>C. /\ n \in Nat
        /\ at[c] \in InsidePlaces => n > 0
        /\ m = IF at[c] \in InsidePlaces
               THEN IF at'[c] \in InsidePlaces THEN n ELSE n - 1
               ELSE IF at'[c] \in InsidePlaces THEN n + 1 ELSE n
    BY <2>0, <2>M, CountMove, ZenonT(40)
  <2>G. SUFFICES /\ inFlight' \in Nat
                 /\ at' \in [Calls -> Places]
                 /\ cur' \in [Calls -> Nat]
                 /\ m <= inFlight'
                 /\ inFlight' <= totalSlots
                 /\ \A x \in Calls : at'[x] = "slotCAS" => cur'[x] < totalSlots
    BY Zenon DEF SlotInv, totalSlots
  <2> HIDE DEF n, m
  <2>1. CASE Enter(c)
    BY <2>0, <2>C, <2>1, Zenon DEF Enter, Move, Places, InsidePlaces
  <2>2. CASE SlotLoad(c)
    BY <2>0, <2>C, <2>2, <1>T DEF SlotLoad, Move, Places, InsidePlaces
  <2>3. CASE SlotCAS(c)
    BY <2>0, <2>C, <2>3, <1>T DEF SlotCAS, Move, ForgetSlot, Places, InsidePlaces
  <2>4. CASE GiveBackLoad(c)
    BY <2>0, <2>C, <2>4, Zenon DEF GiveBackLoad, Move, Places, InsidePlaces
  <2>5. CASE GiveBackCAS(c)
    BY <2>0, <2>C, <2>5, <1>T DEF GiveBackCAS, Move, ForgetSlot, Places, InsidePlaces
  <2> QED
    BY <1>2, <2>1, <2>2, <2>3, <2>4, <2>5, Zenon
<1>3. ASSUME NEW c \in Calls, UseSemaphore(c)
      PROVE  UNCHANGED slotVars
  BY <1>3, Zenon DEF UseSemaphore
<1> QED
  BY <1>1, <1>2, <1>3, Zenon DEF Next, vars

(* The slot invariant holds in every reachable state. *)
LEMMA SlotInvHolds == Spec => []SlotInv
BY SlotInvInit, SlotInvNext, PTL DEF Spec

(* The type invariant of the breaker.                                      *)
THEOREM BreakerTypeCorrect == Spec => []TypeOK
<1>1. SemTypeOK /\ SlotInv => TypeOK
  BY Zenon DEF SlotInv, TypeOK
<1> QED
  BY <1>1, SlotInvHolds, BreakerRefinement, SemTypeCorrect, PTL DEF ImplementsSemaphore

(* Admission control holds in spite of the single attempt of               *)
(* releaseInFlightSlot: a failed attempt only makes the counter too large. *)
THEOREM BreakerAdmission == Spec => []AdmissionBound
<1>1. Cardinality(Inside) = CountIn(at, InsidePlaces)
  BY Zenon DEF Inside, CountIn, InsidePlaces
<1>2. SlotInv => AdmissionBound
  BY <1>1, Zenon DEF SlotInv, AdmissionBound
<1> QED
  BY <1>2, SlotInvHolds, PTL

(* What limits the concurrency of the breaker: the capacity of its         *)
(* semaphore, which need not be MaxConcurrency, and the slots.             *)
THEOREM BreakerConcurrency ==
  Spec => [](WithinCapacity /\ Cardinality(Inside) <= totalSlots)
<1>1. SlotInv => Cardinality(Inside) <= totalSlots
  <2>1. Cardinality(Inside) = CountIn(at, InsidePlaces)
    BY Zenon DEF Inside, CountIn, InsidePlaces
  <2>2. totalSlots \in Nat
    BY CapacityAssumption, QueueDepthAssumption DEF totalSlots
  <2>3. CountIn(at, InsidePlaces) \in Nat
    BY CallsAssumption, FS_Subset, FS_CardinalityType, Zenon DEF CountIn
  <2> QED
    BY <2>1, <2>2, <2>3 DEF SlotInv
<1> QED
  BY <1>1, SlotInvHolds, SemMutualExclusion, BreakerRefinement, PTL DEF ImplementsSemaphore

-----------------------------------------------------------------------------
(* Throttler.Try, which makes its attempts inside the breaker.  The        *)
(* throttler's model has the breaker as two counters.                      *)

TryPCs == {"new", "increment", "try", "acquire", "check", "list", "resolve",
        "select", "sleep", "release", "leave", "decrement", "done"}

(* The labels at which the request has not been passed to the target and   *)
(* has no answer yet.                                                      *)
Before == {"new", "increment", "try", "acquire", "check", "list", "resolve", "sleep"}

(* The inductive invariant.  A request is tried again only as long as it   *)
(* was not proxied; during an attempt the error is clear until the attempt *)
(* has an outcome; and when Try is about to return, the error it returns   *)
(* is the one of the last attempt.                                         *)
RequestInv(r) ==
  /\ reenqueue[r] => proxied[r] = 0
  /\ tryPc[r] \in Before => reenqueue[r]
  /\ tryPc[r] \in Before \cup {"select", "release"} => answer[r] = "pending"
  /\ tryPc[r] \in {"acquire", "check", "list", "resolve"} => tryErr[r] = "none"
  /\ tryPc[r] = "select" /\ ~reenqueue[r] => tryErr[r] \in {"none", "resolve"} /\ proxied[r] = 1
  /\ tryPc[r] = "release" /\ ~reenqueue[r] =>
       \/ tryErr[r] \in {"none", "resolve"} /\ proxied[r] = 1
       \/ tryErr[r] = "deadline" /\ expired[r]
  /\ answer[r] \in {"none", "resolve"} => proxied[r] = 1
  /\ answer[r] = "deadline" => expired[r]
  /\ answer[r] # "notReady"

TryTypes ==
  /\ tryPc \in [Requests -> TryPCs]
  /\ tryErr \in [Requests -> Errors]
  /\ reenqueue \in [Requests -> BOOLEAN]
  /\ expired \in [Requests -> BOOLEAN]
  /\ proxied \in [Requests -> {0, 1}]
  /\ answer \in [Requests -> Errors \cup {"pending", "queueFull"}]

TryInv == TryTypes /\ \A r \in Requests : RequestInv(r)

(* No request has been tried. *)
LEMMA TryInit == ThrottlerInit => TryInv
BY DEF ThrottlerInit, TryInv, TryTypes, RequestInv, Before, Errors, TryPCs

(* A step of one request keeps its own part of the invariant, and leaves   *)
(* the others alone.                                                       *)
LEMMA TryNext == TryInv /\ [ThrottlerNext]_throttlerVars => TryInv'
<1> SUFFICES ASSUME TryInv, [ThrottlerNext]_throttlerVars PROVE TryInv'
  BY Zenon
<1>1. CASE UNCHANGED throttlerVars
  BY <1>1 DEF throttlerVars, TryInv, TryTypes, RequestInv
<1>2. ASSUME NEW r \in Requests, TryStep(r) \/ Expire(r) PROVE TryInv'
  <2> USE DEF Before, Errors, TryPCs, TryGoto, Set, tryVars
  <2>0. TryTypes /\ RequestInv(r) /\ \A x \in Requests : RequestInv(x)
    BY Zenon DEF TryInv
  <2>P. SUFFICES TryTypes' /\ RequestInv(r)' /\ \A x \in Requests \ {r} : RequestInv(x)'
    BY Zenon DEF TryInv
  <2>1. CASE Arrive(r)
    BY <2>0, <2>1 DEF Arrive, LoadSize, TryTypes, RequestInv
  <2>2. CASE Increment(r)
    BY <2>0, <2>2 DEF Increment, StoreSize, TryTypes, RequestInv
  <2>3. CASE Attempt(r)
    BY <2>0, <2>3 DEF Attempt, TryTypes, RequestInv
  <2>4. CASE Acquire(r)
    BY <2>0, <2>4 DEF Acquire, TryTypes, RequestInv
  <2>5. CASE AcquireTimeout(r)
    BY <2>0, <2>5 DEF AcquireTimeout, TryTypes, RequestInv
  <2>6. CASE Check(r)
    BY <2>0, <2>6 DEF Check, TryTypes, RequestInv
  <2>7. CASE List(r)
    BY <2>0, <2>7 DEF List, TryTypes, RequestInv
  <2>8. CASE Resolve(r)
    <3>0. proxied[r] = 0
      BY <2>0, <2>8, Zenon DEF Resolve, RequestInv
    <3>a. PICK e \in {"none", "resolve"} : tryErr' = [tryErr EXCEPT ![r] = e]
      BY <2>0, <2>8, ZenonT(40) DEF Resolve, RequestInv
    <3>b. proxied' = [proxied EXCEPT ![r] = 1]
      BY <2>8, <3>0 DEF Resolve
    <3>c. /\ tryPc' = [tryPc EXCEPT ![r] = "select"]
          /\ reenqueue' = [reenqueue EXCEPT ![r] = FALSE]
          /\ UNCHANGED <<expired, answer>> /\ answer[r] = "pending"
      BY <2>0, <2>8, Zenon DEF Resolve, RequestInv
    <3>1. TryTypes'
      <4>1. proxied' \in [Requests -> {0, 1}]
        BY <2>0, <3>b, Zenon DEF TryTypes
      <4>2. /\ tryErr' \in [Requests -> Errors]
            /\ tryPc' \in [Requests -> TryPCs]
        BY <2>0, <3>a, <3>c, Zenon DEF TryTypes
      <4>3. /\ reenqueue' \in [Requests -> BOOLEAN]
            /\ expired' \in [Requests -> BOOLEAN]
            /\ answer' \in [Requests -> Errors \cup {"pending", "queueFull"}]
        BY <2>0, <3>c, Zenon DEF TryTypes
      <4> QED
        BY <4>1, <4>2, <4>3, Zenon DEF TryTypes
    <3>2. RequestInv(r)'
      BY <2>0, <3>a, <3>b, <3>c DEF TryTypes, RequestInv
    <3>3. ASSUME NEW x \in Requests \ {r} PROVE RequestInv(x)'
      BY <2>0, <2>8 DEF Resolve, TryTypes, RequestInv
    <3> QED
      BY <3>1, <3>2, <3>3, Zenon
  <2>9. CASE Select(r)
    <3>1. TryTypes'
      BY <2>0, <2>9, ZenonT(40) DEF Select, TryTypes
    <3>2. RequestInv(r)'
      BY <2>0, <2>9 DEF Select, TryTypes, RequestInv
    <3>3. ASSUME NEW x \in Requests \ {r} PROVE RequestInv(x)'
      <4>1. /\ tryPc'[x] = tryPc[x] /\ tryErr'[x] = tryErr[x] /\ reenqueue'[x] = reenqueue[x]
            /\ proxied'[x] = proxied[x] /\ expired'[x] = expired[x] /\ answer'[x] = answer[x]
        BY <2>0, <2>9 DEF Select, TryTypes
      <4> QED
        BY <2>0, <4>1 DEF RequestInv
    <3> QED
      BY <3>1, <3>2, <3>3, Zenon
  <2>10. CASE Wake(r)
    BY <2>0, <2>10 DEF Wake, TryTypes, RequestInv
  <2>11. CASE Release(r)
    BY <2>0, <2>11 DEF Release, TryTypes, RequestInv
  <2>12. CASE Leave(r)
    BY <2>0, <2>12 DEF Leave, LoadSize, TryTypes, RequestInv
  <2>13. CASE Decrement(r)
    BY <2>0, <2>13 DEF Decrement, StoreSize, TryTypes, RequestInv
  <2>14. CASE Expire(r)
    BY <2>0, <2>14 DEF Expire, TryTypes, RequestInv
  <2> QED
    BY <1>2, <2>1, <2>2, <2>3, <2>4, <2>5, <2>6, <2>7, <2>8, <2>9, <2>10, <2>11, <2>12,
       <2>13, <2>14, Zenon DEF TryStep
<1>3. ASSUME NEW s \in Services, ForgetReady(s) \/ Toggle(s) PROVE TryInv'
  BY <1>3 DEF ForgetReady, Toggle, tryVars, TryInv, TryTypes, RequestInv
<1> QED
  BY <1>1, <1>2, <1>3, Zenon DEF ThrottlerNext

(* The invariant of Try holds in every reachable state. *)
LEMMA TryInvHolds == ThrottlerSpec => []TryInv
BY TryInit, TryNext, PTL DEF ThrottlerSpec

(* However often a request is tried, the target sees it at most once.      *)
THEOREM ThrottlerProxiesOnce == ThrottlerSpec => []ProxiedOnce
<1>1. TryInv => ProxiedOnce
  <2> SUFFICES ASSUME TryInv, NEW r \in Requests PROVE proxied[r] <= 1
    BY ZenonT(40) DEF ProxiedOnce
  <2>1. proxied[r] \in {0, 1}
    BY Zenon DEF TryInv, TryTypes
  <2> QED
    BY <2>1
<1> QED
  BY <1>1, TryInvHolds, PTL

(* Try returns nil, or the error of resolve, only for a request that was   *)
(* proxied, a deadline error only after the deadline, and never that the   *)
(* service was not ready.                                                  *)
THEOREM ThrottlerAnswers == ThrottlerSpec => []AnswerIsTrue
<1>1. TryInv => AnswerIsTrue
  BY ZenonT(40) DEF TryInv, RequestInv, AnswerIsTrue
<1> QED
  BY <1>1, TryInvHolds, PTL

-----------------------------------------------------------------------------
(* Every ready service has a timer, and a timer that fires takes the       *)
(* service out of the map.                                                 *)
ReadyInv ==
  /\ serviceReadyMap \subseteq Services
  /\ readyTimers \in [Services -> Nat]
  /\ ReadyExpires

(* A service is remembered as ready no longer than a timer runs, however   *)
(* many requests found it ready at the same time.                          *)
THEOREM ThrottlerForgetsReady == ThrottlerSpec => []ReadyExpires
<1>1. ThrottlerInit => ReadyInv
  BY DEF ThrottlerInit, ReadyInv, ReadyExpires
<1>2. ReadyInv /\ [ThrottlerNext]_throttlerVars => ReadyInv'
  <2> SUFFICES ASSUME ReadyInv, [ThrottlerNext]_throttlerVars PROVE ReadyInv'
    BY Zenon
  <2> USE DEF ReadyInv, ReadyExpires
  <2>1. CASE UNCHANGED readyVars
    BY <2>1, Zenon DEF readyVars
  <2>2. ASSUME NEW r \in Requests, List(r) PROVE ReadyInv'
    <3> DEFINE s == Service(r)
    <3>1. s \in Services
      BY ThrottlerAssumption, Zenon
    <3>2. \/ UNCHANGED readyVars
          \/ /\ serviceReadyMap' = serviceReadyMap \cup {s}
             /\ readyTimers' = [readyTimers EXCEPT ![s] = readyTimers[s] + 1]
      BY <2>2, Zenon DEF List, Set
    <3> QED
      BY <3>1, <3>2, <2>1
  <2>3. ASSUME NEW s \in Services, ForgetReady(s) PROVE ReadyInv'
    BY <2>3 DEF ForgetReady, Set
  <2>4. ASSUME NEW r \in Requests, TryStep(r), ~List(r)
        PROVE  UNCHANGED readyVars
    BY <2>4, ZenonT(40)
       DEF TryStep, Arrive, Increment, Leave,
           Decrement, LoadSize, StoreSize, Attempt,
           Acquire, AcquireTimeout, Check, Resolve,
           Select, Wake, Release
  <2>5. ASSUME NEW r \in Requests, Expire(r) PROVE UNCHANGED readyVars
    BY <2>5, Zenon DEF Expire
  <2>6. ASSUME NEW s \in Services, Toggle(s) PROVE UNCHANGED readyVars
    BY <2>6, Zenon DEF Toggle
  <2>7. CASE UNCHANGED throttlerVars
    BY <2>7, Zenon DEF throttlerVars, readyVars
  <2> QED
    BY <2>1, <2>2, <2>3, <2>4, <2>5, <2>6, <2>7, Zenon DEF ThrottlerNext
<1>3. ReadyInv => ReadyExpires
  BY Zenon DEF ReadyInv
<1> QED
  BY <1>1, <1>2, <1>3, PTL DEF ThrottlerSpec
=============================================================================
