SPECIFICATION RequestSpec
CONSTANTS
  Versions = {1, 2}
  MaxRequests = 2
  AuthSchemes = {"BASIC", "DIGEST"}
  FileSize = {0, 3}
  Locations = {l1, l2}
  Names <- SomeNames
  BrokenPaths <- SomeBroken
  RangeSpecs <- SomeRanges
INVARIANTS
  AnswerEndKnown
  ProtectedNeedsUser
  RangeServed
  PathDecoded
CHECK_DEADLOCK FALSE
