SPECIFICATION FairSpec
CONSTANTS
  py = py
  cpp = cpp
  ask = ask
  tell = tell
  nat = nat
  Client <- TwoClients
  CppClient <- OneCpp
  Method <- AskTell
  Returns <- AskTellKinds
  NativeWrites = {1}
  ServerLang = "python"
  Faults = {"stop", "break", "raise", "interrupt", "misread"}
  HighWater = 2
  MaxCalls = 3
  MaxLinks = 2
INVARIANTS
  TypeOK
  OrderInv
PROPERTIES
  PyCallsEnd
CHECK_DEADLOCK FALSE
