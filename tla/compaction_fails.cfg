SPECIFICATION Spec
CONSTANTS
  Env = {"s3_error"}
  Calls = {"compact"}
  SegmentSizes = {2}
  MaxCommits = 3
  MaxBlocks = 5
  MaxGenerations = 2
  MaxIndex = 5
  MaxSegments = 4
INVARIANTS LatestIsRestorable
CHECK_DEADLOCK FALSE
