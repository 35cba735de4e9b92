SPECIFICATION Spec
CONSTANTS
  Env = {"s3_error"}
  Calls = {"checkpoint", "enforce_retention"}
  SegmentSizes = {2}
  MaxCommits = 2
  MaxBlocks = 5
  MaxGenerations = 3
  MaxIndex = 3
  MaxSegments = 3
INVARIANTS LatestIsRestorable
CHECK_DEADLOCK FALSE
