SPECIFICATION FairSpec
CONSTANTS
  py = py
  cpp = cpp
  ask = ask
  tell = tell
  nat = nat
  Client <- TwoClients
  CppClient <- OneCpp
  Method <- AllMethods
  Returns <- Kinds
  NativeWrites = {1}
  ServerLang = "cpp"
  Faults = {}
  HighWater = 2
  MaxCalls = 3
  MaxLinks = 3
INVARIANTS
  EarlierCallsRan
PROPERTIES
  EveryCallEnds
  CppOneWayRuns
CHECK_DEADLOCK FALSE
