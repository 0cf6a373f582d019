SPECIFICATION FairSpec
CONSTANTS
  c1 = c1
  p = p
  q = q
  None = None
  Client <- MCClient
  Id <- MCId
  MaxInc = 2
  MaxHeld = 1
  MaxWorkers = 1
  Grace = 1
  OnDemand = TRUE
  CanStall = TRUE
  CanIgnoreTerm = TRUE
INVARIANTS
  TypeOK
  NoLiveSessionWhileLeaving
  NoProcessForgotten
  AnnouncedIsCurrent
  EventsInOrder
PROPERTIES
  LeavingTakesNothing
  GateIsReleased
  UnusedHostLeaves
  ExitIsPublished
CHECK_DEADLOCK FALSE
