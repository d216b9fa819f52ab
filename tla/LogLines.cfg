SPECIFICATION LogFairSpec
CONSTANTS
  t1 = t1
  t2 = t2
  Thread <- TwoThreads
  MaxLines = 5
INVARIANTS
  BacklogSafe
PROPERTIES
  FifoSpec
  LogDestructorReturns
CHECK_DEADLOCK FALSE
