SPECIFICATION FairSpec
CONSTANTS
  mode = mode
  modeChanged = modeChanged
  reset = reset
  Topic <- ThreeTopics
  Matches <- OnePrefix
  PairWater = 2
  SubWater = 2
INVARIANTS
  TypeOK
  RacesNeedPrefixes
  DispatchFindsCallback
  NothingAfterDestructor
PROPERTIES
  RegistrationTakesEffect
  ReceiverStops
CHECK_DEADLOCK FALSE
