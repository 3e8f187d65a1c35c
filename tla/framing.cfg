SPECIFICATION WireSpec
CONSTANTS
  add = add
  notify = notify
  count = count
  reset = reset
  Method <- Methods
  Pairings <- SomePairings
  MaxRequests = 5
  temp = temp
  temperature = temperature
  alarm = alarm
  Topic <- AllTopics
  Matches <- Beginnings
  SignalPairings <- ManyPairings
  MaxSignals = 4
INVARIANTS
  WireInv
  HandlersMatch
  NothingSkipped
  CallbacksMatch
  LossIsLocal
CHECK_DEADLOCK FALSE
