SPECIFICATION Spec
CONSTANTS
  Stream <- TwoStreams
  MaxChunks = 2
INVARIANTS
  RequestsStarted
  HeaderBlocksKept
  EndMarkerLast
CHECK_DEADLOCK FALSE
