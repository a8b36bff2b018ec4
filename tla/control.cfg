\* Commands one after the other, whatever fails, and the login session that ends twice.
SPECIFICATION FairSpec
CONSTANTS
  None = None
  c1 = c1
  c2 = c2
  Configs <- MCConfigs
  Blank = c1
  FaultKinds <- AllFaultKinds
  MaxFaults = 3
  MaxCommands = 4
  MaxEnds = 2
\* The user may stop after the last command.
CHECK_DEADLOCK FALSE
INVARIANTS
  TypeOK
PROPERTIES
  ImplementsLink
  DriftIsNoticed
  BackupBeforeWrite
  CommandsEnd
