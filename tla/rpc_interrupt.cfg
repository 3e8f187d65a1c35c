SPECIFICATION Spec
CONSTANTS
  py = py
  cpp = cpp
  ask = ask
  tell = tell
  nat = nat
  Client <- TwoClients
  CppClient <- OneCpp
  Method <- AskTell
  Returns <- AskTellKinds
  NativeWrites = {1}
  ServerLang = "python"
  Faults = {"interrupt"}
  HighWater = 2
  MaxCalls = 2
  MaxLinks = 2
INVARIANTS
  ReplyMatchesCall
CHECK_DEADLOCK FALSE
