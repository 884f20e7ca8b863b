CONSTANTS
  Triggers = 1
  MinTargetReplicas = 0
  CooldownPeriod = 3
  DefaultCooldownPeriod = 3
  Keda = TRUE
  Deletable = FALSE
  RoundTicks = 1
  MaxReplicas = 1
  MaxFaults = 1
SPECIFICATION FairSpec
PROPERTIES DemandServed IdleScalesToZero BusyIsUp
