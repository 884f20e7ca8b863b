\* Four calls, capacity 2 over a channel of size 1, as shipped: the capacity exceeds the
\* channel.  Two calls hold, two wait, pokes are dropped, contexts end, both counters are
\* raced on; with a slot leaked before, three calls fill the breaker and the fourth is rejected.
CONSTANTS
  Calls = {c1, c2, c3, c4}
  MaxCapacity = 1
  InitialCapacity = 2
  QueueDepth = 3
SPECIFICATION MCFairSpec
INVARIANTS AdmissionBound CapacityInUse
PROPERTIES ImplementsCountingSemaphore EveryCallReturns
\* all calls are eventually over
CHECK_DEADLOCK FALSE
