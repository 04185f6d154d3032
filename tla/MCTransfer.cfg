SPECIFICATION LiveSpec
CONSTANTS
  Directions = {"upload", "download"}
  TotalSize = 2
  ChunkSizes = {1, 2}
  Workers = {w1, w2}
  ManifestChCap = 1
  MaxAttempts = 2
  MaxVersion = 2
  MaxLosses = 1
INVARIANTS TypeOK ManifestTruthful SuccessUnlessFailed ProgressHonest
PROPERTIES NothingRecordedIsLost CallEnds
CHECK_DEADLOCK FALSE
