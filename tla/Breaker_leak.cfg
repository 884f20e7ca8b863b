\* Three calls, two slots, one unit of concurrency: queueing, rejection and races on both counters.
CONSTANTS
  Calls = {c1, c2, c3}
  MaxCapacity = 1
  InitialCapacity = 1
  QueueDepth = 1
SPECIFICATION Spec
PROPERTY RejectedOnlyWhenFull
CHECK_DEADLOCK FALSE
