\* VIOLATION: the address of a DHCP lease is part of the verified hash.
SPECIFICATION Spec
CONSTANTS
  None = None
  p1 = p1
  p2 = p2
  g1 = g1
  auto = auto
  off = off
  a1 = a1
  a2 = a2
  nowhere = nowhere
  Vids <- MCVids
  PortIds <- MCPorts
  HwPorts <- MCPorts
  Groups <- MCGroups
  LagMembers <- MCLagMembers
  LagMin = 2
  LagMax = 2
  MaxVlans = 3
  Names = {"", "long"}
  LongNames = {"long"}
  Settings = {auto, off}
  Supported <- MCSupported
  DefaultSettings = auto
  Addresses <- MCAddresses
  WellFormed = {a1, a2}
  InitialUrl = a1
  MaxAttempts = 3
  Candidates <- DhcpCandidates
  DeviceConfigs <- FlatAndAside
  FaultKinds = {}
  MaxFaults = 0
  MaxAsked = 2
  Operations = {"commit"}
\* The system stops once every operation has been asked for and has ended.
CHECK_DEADLOCK FALSE
INVARIANTS
  FailureIsPartial
