\* Two sessions and the pollers share the switch, whatever fails, under fairness.
SPECIFICATION FairSpec
CONSTANTS
  None = None
  s1 = s1
  s2 = s2
  c1 = c1
  c2 = c2
  Sessions <- MCSessions
  Configs <- MCConfigs
  FirstConfigs <- FirstConfig
  PortCount = 2
  FaultKinds <- AllFaultKinds
  MaxFaults = 1
  MaxAsked = 2
\* A daemon that has been stopped stops.
CHECK_DEADLOCK FALSE
INVARIANTS
  TypeOK
  StateNotBehindSessions
PROPERTIES
  ImplementsSharedSwitch
  StateNeverRegresses
  DetailsKept
  EveryCommandEnds
  EveryPortDetailed
  SnmpCatchesUp
