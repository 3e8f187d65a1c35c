SPECIFICATION Generate
CONSTANTS
  Word <- Words
  Keyword <- Keywords
  MainService = "_"
  NamedService <- Dev
  Interfaces <- ManyInterfaces
  Vocabulary <- CppWords
  Descriptions <- SmallDescriptions
  MaxEntities = 3
INVARIANTS
  TypesOK
  NothingHidden
  RefusedForCause
  TopicsDistinct
  NamesResolve
  DefinedOnce
  ClashesForCause
CHECK_DEADLOCK FALSE
