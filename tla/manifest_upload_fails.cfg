SPECIFICATION Spec
CONSTANTS
  Env = {"s3_error"}
  Calls = {}
  SegmentSizes = {2}
  MaxCommits = 3
  MaxBlocks = 6
  MaxGenerations = 2
  MaxIndex = 4
  MaxSegments = 4
INVARIANTS SyncedIsRestorable
CHECK_DEADLOCK FALSE
