\* VIOLATION: a pull makes an old candidate look like a new one.
SPECIFICATION Spec
CONSTANTS
  None = None
  c1 = c1
  c2 = c2
  Configs <- MCConfigs
  Blank = c1
  FaultKinds = {"outside"}
  MaxFaults = 1
  MaxCommands = 3
  MaxEnds = 0
\* The user may stop after the last command.
CHECK_DEADLOCK FALSE
PROPERTIES
  CandidateIsOfThisState
