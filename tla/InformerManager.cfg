\* Two scale targets to choose from, one service, three changes and one failure.
CONSTANTS
  Refs = {a, b}
  Services = {s}
  Ids = {1, 2, 3}
  None = None
  MaxEdits = 3
  MaxFaults = 1
SPECIFICATION MCFairSpec
INVARIANTS RunningIsRegistered OnlyPublicPanics GoneTargetUnwatched
PROPERTIES TargetWatched PrivateFollows
\* an ElastiService that is gone may stay so
CHECK_DEADLOCK FALSE
