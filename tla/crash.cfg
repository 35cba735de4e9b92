SPECIFICATION Spec
CONSTANTS
  Env = {"crash", "drop", "get_error"}
  Calls = {"checkpoint", "compact", "enforce_retention", "shutdown"}
  SegmentSizes = {2}
  MaxCommits = 3
  MaxBlocks = 6
  MaxGenerations = 3
  MaxIndex = 5
  MaxSegments = 3
INVARIANTS TypeOK LatestIsRestorable RestoreIsConsistent SyncedIsRestorable
  NothingSkipped ManifestDescribesSegments
PROPERTIES CompactionPreserves
CHECK_DEADLOCK FALSE
