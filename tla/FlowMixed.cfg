SPECIFICATION FairSpec
CONSTANTS
  s1 = s1
  s3 = s3
  s5 = s5
  h1 = h1
  h2 = h2
  h3 = h3
  Stream <- ThreeStreams
  Handler <- ThreeHandlers
  StreamOf <- OwnStreams
  Kind <- FileCgiError
  Size <- TwoTwoOne
  MaxWindow = 2
  InitialWindow = 2
  WindowSettings = {1}
  Increments = {2}
  BufSize = 2
  TailSize = 1
  MaxRunning = 2
INVARIANTS
  WindowsReserved
  StreamWindowRespected
  EndsOnce
PROPERTIES
  CreditSpec
  HandlersEnd
  ResponsesComplete
CHECK_DEADLOCK FALSE
