SPECIFICATION FairSpec
CONSTANTS
  c1 = c1
  c2 = c2
  None = None
  Client <- MCClients
  MaxHosts = 3
  MaxEnsure = 3
  MaxFault = 1
  CanGiveUp = TRUE
INVARIANTS
  TypeOK
  OneServer
  ServerIsRecorded
  SilentIsNotAbsent
PROPERTIES
  ServedFilesStay
  EnsureSucceeds
CHECK_DEADLOCK FALSE
