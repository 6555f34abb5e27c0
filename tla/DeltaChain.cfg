SPECIFICATION FairSpec
CONSTANTS
  Capacity = 21
  FileSizes = {2}
  Chunks = {2}
  MaxEmit = 2
  MaxSaves = 3
  THRESHOLD_ZLIB = 0
  THRESHOLD_DELTA = 1
  BlockSize <- MCBlockSize
  EmbeddedBlockSize <- MCBlockSize
  Configs <- ArchiveConfig
  RestartAnytime = TRUE
  SaveAfterFailure = FALSE
  CommitAfterError = FALSE
  CreationFlushed = TRUE
  FlushMayFail = FALSE
  DamageMayHappen = FALSE
INVARIANTS
  ChainAccounting
PROPERTIES
  SavesEnd
