SPECIFICATION Spec
CONSTANTS
  Env = {"s3_error", "io_error", "cancel"}
  Calls = {"checkpoint", "shutdown", "snapshot"}
  SegmentSizes = {2}
  MaxCommits = 2
  MaxBlocks = 5
  MaxGenerations = 3
  MaxIndex = 2
  MaxSegments = 3
INVARIANTS LatestIsRestorable RestoreIsConsistent
CHECK_DEADLOCK FALSE
