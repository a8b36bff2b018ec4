\* The pollers replace the tree of OIDs while a manager walks it.
SPECIFICATION FairSpec
CONSTANTS
  None = None
  PortCount = 2
  CounterLimit = 2
  MaxRepetitions = 2
  FaultKinds <- AllFaultKinds
  BusyPorts = {2}
  MaxPackets = 3
  MaxFaults = 1
INVARIANTS
  TypeOK
  WalkFindsAll
  HealthyIsCurrent
PROPERTIES
  CountersNeverRegress
  WalkEnds
  EventuallyExact
