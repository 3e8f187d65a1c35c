SPECIFICATION FairSpec
CONSTANTS
  router = router
  xpub = xpub
  Socket <- BothSockets
  Router = router
  Xpub = xpub
  Programs <- AnyProgram
  MaxArrivals = 3
INVARIANTS
  TypeOK
  NothingForgotten
PROPERTIES
  RequestsHandled
  SubscriptionsHandled
CHECK_DEADLOCK FALSE
