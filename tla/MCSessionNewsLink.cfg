SPECIFICATION MCSpec
CONSTANTS
  view = view
  tabs = tabs
  agent = agent
  None = None
  Link <- MCLink
  Listener <- MCListener
  Program <- MCProgram
  MaxInc = 2
  MaxChange = 2
  MaxDrop = 1
INVARIANT
  LinkTellsTheEnd
CHECK_DEADLOCK FALSE
