SPECIFICATION Spec
CONSTANTS
  Env = {"ext_checkpoint", "reader", "drop"}
  Calls = {"checkpoint", "compact"}
  SegmentSizes = {2}
  MaxCommits = 3
  MaxBlocks = 7
  MaxGenerations = 3
  MaxIndex = 5
  MaxSegments = 3
INVARIANTS LatestIsRestorable ManifestDescribesSegments
PROPERTIES CompactionPreserves SegmentsOfOneWal
CHECK_DEADLOCK FALSE
