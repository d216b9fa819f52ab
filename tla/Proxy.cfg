SPECIFICATION FairSpec
CONSTANTS
  c1 = c1
  a = a
  b = b
  Conn <- OneClient
  Host <- TwoHosts
  Name <- OwnNames
  MaxRequests = 3
  Bodies = {0, 2}
  MaxDest = 3
  LaterBodies = FALSE
  ConnectFails = {"first", "switch"}
INVARIANTS
  RequestsKept
  ListsAgree
PROPERTIES
  SocketsReleased
  RequestAnswered
CHECK_DEADLOCK FALSE
