SPECIFICATION Spec
CONSTANTS
  p1 = p1
  p2 = p2
  None = None
  Pane <- MCPanes
  Saved <- MCPane
  MaxTask = 2
  MaxFault = 1
INVARIANTS
  TypeOK
  FallbackIsAlone
  EndedIsGone
  BurstStartsOnce
  WaitersAreWoken
PROPERTIES
  OthersAreLeftAlone
  OnlyTheAskedEnd
CHECK_DEADLOCK FALSE
