CONSTANTS
  None = None
  Ids <- ScanIds
  Sizes <- UnitSize
  AllocSizes <- UnitAllocSizes
  Identities <- OneIdentity
  MaxU64 = 3
  MaxEntries = 5
  MaxGaps = 1
  MaxStreams = 0
  PipeCapacity = 1
  MaxU32 = 3
SPECIFICATION PSpec
INVARIANTS OkIsComplete HonestStreamAccepted NoOrphanWorker
PROPERTY ScanSettles
CHECK_DEADLOCK FALSE
