SPECIFICATION FairSpec
CONSTANTS
  c1 = c1
  c2 = c2
  Caller <- TwoCallers
  Period = {1, 3}
  Horizon = 4
  Spurious = TRUE
INVARIANTS
  NoCallbackAfterStop
  WaitsForPeriod
PROPERTIES
  DestructorReturns
CHECK_DEADLOCK FALSE
