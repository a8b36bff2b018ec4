\* Every sequence of lines for the VLANs of two ports, or for everything else.
SPECIFICATION Spec
CONSTANTS
  None = None
  p1 = p1
  p2 = p2
  g1 = g1
  auto = auto
  off = off
  odd = odd
  a1 = a1
  Vids <- MCVids
  PortIds <- BothPorts
  HwPorts <- BothPorts
  Groups <- MCGroups
  LagMembers <- MCLagMembers
  LagMin = 2
  LagMax = 2
  MaxVlans = 2
  Names <- MCNames
  LongNames = {}
  Settings = {auto, odd}
  Supported <- MCSupported
  DefaultSettings = auto
  Addresses = {a1}
  WellFormed = {a1}
  Stripped <- MCStripped
  OddSettings = {odd}
  Running <- MCRunning
  WordGroups <- MCWordGroups
  Texts <- MCTexts
  Commits <- MCRunning
\* A session that is closed stays closed.
CHECK_DEADLOCK FALSE
INVARIANTS
  TypeOK
  RoundTrip
  TypingRestores
  HybridOnlyIfNeeded
  PortLineIsLocal
  RejectedKeepsVlans
  AccessAndTrunkAreValid
  NoStaleContext
  BaseIsRunning
