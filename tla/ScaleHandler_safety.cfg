\* Every actor with one API failure, a deletion, and a poller that may be slow.
CONSTANTS
  Triggers = 1
  MinTargetReplicas = 0
  CooldownPeriod = 2
  DefaultCooldownPeriod = 2
  Keda = TRUE
  Deletable = TRUE
  RoundTicks = 2
  MaxReplicas = 1
  MaxFaults = 1
SPECIFICATION Spec
INVARIANT DeletedAtRestIsUp
PROPERTY CooldownUnlessRacedOrUnrecorded
