SPECIFICATION FairSpec
CONSTANTS
  view = view
  other = other
  None = None
  Call <- MCCall
  May <- MCMay
  MaxData = 1
  MaxEvent = 1
INVARIANTS
  NoOrphanFrame
  NoAnswerThrownAway
  AnsweredIsServed
PROPERTIES
  GivenUpStreamsEnd
CHECK_DEADLOCK FALSE
