SPECIFICATION FairSpec
CONSTANTS
  mode = mode
  modeChanged = modeChanged
  reset = reset
  Topic <- TwoTopics
  Matches <- OwnOnly
  PairWater = 2
  SubWater = 2
PROPERTIES
  DestructorReturns
CHECK_DEADLOCK FALSE
