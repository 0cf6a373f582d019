SPECIFICATION FairSpec
CONSTANTS
  r1 = r1
  None = None
  Reader <- MCOneReader
  Cap = 2
  Limit = 2
  SnapSize = 1
  MaxOut = 4
  MaxAttach = 3
  MaxFeed = 1
  MaxTimeOut = 1
INVARIANTS
  ViewsAreExact
  ChargeIsExact
PROPERTIES
  PromiseKept
CHECK_DEADLOCK FALSE
