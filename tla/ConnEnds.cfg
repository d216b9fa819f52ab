SPECIFICATION FairSpec
CONSTANTS
  c1 = c1
  a1 = a1
  a2 = a2
  Conn <- OneConn
  Action <- TwoActions
  ConnOf <- BothOnOne
  MaxConnPerIp = 1
  MaxOthers = 2
INVARIANTS
  NothingRemovedInUse
  AccountsExact
  DestroyedAlone
PROPERTIES
  ClosedIsRemoved
  GoawayEnds
  ServerStops
CHECK_DEADLOCK FALSE
