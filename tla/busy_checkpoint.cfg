SPECIFICATION Spec
CONSTANTS
  Env = {"reader"}
  Calls = {"checkpoint"}
  SegmentSizes = {2}
  MaxCommits = 2
  MaxBlocks = 5
  MaxGenerations = 3
  MaxIndex = 3
  MaxSegments = 3
INVARIANTS SyncedNeverLost
CHECK_DEADLOCK FALSE
