SPECIFICATION FairSpec
CONSTANTS
  Kinds <- Serial
  MaxRequests = 2
  Pipelined = TRUE
  PrefaceSplit = FALSE
INVARIANTS
  FramingKept
  BodyRead
PROPERTIES
  RequestAnswered
CHECK_DEADLOCK FALSE
