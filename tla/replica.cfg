SPECIFICATION FairSpec
CONSTANTS
  Env = {}
  Calls = {"checkpoint", "compact", "enforce_retention"}
  SegmentSizes = {2, 5}
  MaxCommits = 4
  MaxBlocks = 7
  MaxGenerations = 3
  MaxIndex = 8
  MaxSegments = 4
INVARIANTS SyncedNeverLost
PROPERTIES ImplementsReplica EventuallyBackedUp
