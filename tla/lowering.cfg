SPECIFICATION Spec
CONSTANTS
  active = active
  level = level
  bool = bool
  float = float
  Stem <- Stems
  Type <- Types
  Methods <- SomeMethods
  Signals <- SomeSignals
  Keys <- SomeKeys
INVARIANTS
  OneEntryPerName
  LastPropertyWins
PROPERTIES
  NumbersKept
CHECK_DEADLOCK FALSE
