SPECIFICATION Spec
CONSTANTS
  Directions = {"upload", "download"}
  TotalSize = 3
  ChunkSizes = {1, 2}
  Workers = {w1, w2}
  ManifestChCap = 1
  MaxAttempts = 2
  MaxVersion = 2
  MaxLosses = 0
INVARIANTS FailureReported
CHECK_DEADLOCK FALSE
