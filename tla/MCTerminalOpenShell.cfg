SPECIFICATION Spec
CONSTANTS
  p1 = p1
  p2 = p2
  None = None
  Pane <- MCPane
  Saved <- MCPane
  MaxTask = 1
  MaxFault = 0
INVARIANTS
  NoShellBeside
CHECK_DEADLOCK FALSE
