SPECIFICATION RestoreSpec
CONSTANTS
  Env = {}
  Calls = {"checkpoint", "compact", "enforce_retention"}
  SegmentSizes = {2}
  MaxCommits = 2
  MaxBlocks = 5
  MaxGenerations = 2
  MaxIndex = 4
  MaxSegments = 3
  RestoreCalls = {"restore", "restore_to_time", "auto_restore"}
  RestoreFaults = {"get_error", "interrupted", "torn_write", "exists_error"}
  MaxRestores = 2
INVARIANTS RestoreTypeOK ManifestsAreRestorable
PROPERTIES HandedOverConsistent RestoreIsNotStale NothingFromTheFuture NothingForgotten
CHECK_DEADLOCK FALSE
