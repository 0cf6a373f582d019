SPECIFICATION FairSpec
CONSTANTS
  r1 = r1
  r2 = r2
  None = None
  Reader <- MCOneReader
  Cap = 2
  Limit = 2
  SnapSize = 1
  MaxOut = 4
  MaxAttach = 3
  MaxFeed = 1
  MaxDrop = 1
  CanTimeOut = FALSE
INVARIANTS
  QueueIsBounded
  NothingIsRepeated
  PrimaryIsRestored
  SettledIsCurrent
PROPERTIES
  PromiseKept
CHECK_DEADLOCK FALSE
