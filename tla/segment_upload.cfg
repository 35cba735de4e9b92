SPECIFICATION Spec
CONSTANTS
  Passphrases = {"ours", "theirs"}
  NoKey = NoKey
  Failed = Failed
  Compressions = {"none", "zstd"}
  OwnKeys = {NoKey, "ours"}
  Accidents = {"none", "lz4"}
  Nothing = Nothing
  MAX_RETRIES = 1
  MaxFaults = 2
  WAL_HEADER_SIZE = 2
  WAL_FRAME_HEADER_SIZE = 1
  PageSize = 2
  MagicSize = 2
  AccidentAt = 4
  ChunkSize = 3
  MaxLen = 11
  MaxIndex = 6
INVARIANTS UploadTypeOK ListedSegmentsExact AckedIsDurable WholeFrames NeverMisread
PROPERTIES EventuallyUploaded
CHECK_DEADLOCK FALSE
