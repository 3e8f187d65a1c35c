SPECIFICATION Spec
CONSTANTS
  py = py
  cpp = cpp
  ask = ask
  tell = tell
  nat = nat
  Client <- TwoClients
  CppClient <- OneCpp
  Method <- AllMethods
  Returns <- Kinds
  NativeWrites = {0, 1}
  ServerLang = "cpp"
  Faults = {"stop", "break", "raise", "misread"}
  HighWater = 2
  MaxCalls = 3
  MaxLinks = 3
INVARIANTS
  ReplyMatchesCall
  RpcInv
PROPERTIES
  ImplementsContract
CHECK_DEADLOCK FALSE
