SPECIFICATION FairSpec
CONSTANTS
  c1 = c1
  c2 = c2
  a = a
  b = b
  d = d
  Conn <- TwoConns
  Listens <- Pairs
  MaxEdits = 2
INVARIANTS
  ServersSound
PROPERTIES
  ParamsUnused
  ReloadEnds
CHECK_DEADLOCK FALSE
