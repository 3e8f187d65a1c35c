SPECIFICATION FairSpec
CONSTANTS
  qt = qt
  py = py
  level = level
  levelMax = levelMax
  Subscriber <- QtAndPy
  QtClient <- OneQt
  Signals <- LevelSignals
  Matches <- LevelMatches
  Announced <- OnlyLevel
  SubWater = 2
  MaxChanges = 2
  MaxBreaks = 1
INVARIANTS
  TypeOK
  UpToDate
PROPERTIES
  ImplementsRegister
  ClientsConverge
CHECK_DEADLOCK FALSE
