\* VIOLATION: the detail loop hides that the summary loop has ended.
SPECIFICATION FairSpec
CONSTANTS
  None = None
  s1 = s1
  s2 = s2
  c1 = c1
  c2 = c2
  Sessions <- OneSession
  Configs <- MCConfigs
  FirstConfigs <- FirstConfig
  PortCount = 2
  FaultKinds = {"disk"}
  MaxFaults = 1
  MaxAsked = 0
PROPERTIES
  DeadPollerShows
