SPECIFICATION Spec
CONSTANTS
  Env = {"multi_frame", "rollback", "reader", "crash"}
  Calls = {"checkpoint", "shutdown"}
  SegmentSizes = {2}
  MaxCommits = 2
  MaxBlocks = 5
  MaxGenerations = 3
  MaxIndex = 2
  MaxSegments = 3
INVARIANTS WalPinned RestoreIsConsistent
CHECK_DEADLOCK FALSE
