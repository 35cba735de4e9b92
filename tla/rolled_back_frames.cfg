SPECIFICATION Spec
CONSTANTS
  Env = {"multi_frame", "rollback"}
  Calls = {}
  SegmentSizes = {2}
  MaxCommits = 2
  MaxBlocks = 5
  MaxGenerations = 2
  MaxIndex = 3
  MaxSegments = 3
INVARIANTS SyncedIsRestorable
CHECK_DEADLOCK FALSE
