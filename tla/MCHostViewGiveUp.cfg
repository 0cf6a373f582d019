SPECIFICATION Spec
CONSTANTS
  r1 = r1
  r2 = r2
  None = None
  Reader <- MCTwoReaders
  Cap = 2
  Limit = 2
  SnapSize = 1
  MaxOut = 2
  MaxAttach = 3
  MaxFeed = 0
  MaxDrop = 1
  CanTimeOut = TRUE
INVARIANTS
  LaggedIsLast
  NothingIsMissed
SYMMETRY Symmetry
CHECK_DEADLOCK FALSE
