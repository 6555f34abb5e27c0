SPECIFICATION FairSpec
CONSTANTS
  Capacity = 7
  FileSizes = {1}
  Chunks = {1}
  MaxEmit = 0
  MaxSaves = 2
  THRESHOLD_ZLIB = 0
  THRESHOLD_DELTA = 1
  BlockSize <- MCBlockSize
  EmbeddedBlockSize <- MCBlockSize
  Configs <- RawConfig
  RestartAnytime = FALSE
  SaveAfterFailure = TRUE
  CommitAfterError = FALSE
  CreationFlushed = FALSE
  FlushMayFail = TRUE
  DamageMayHappen = TRUE
PROPERTIES
  CheckSound
  ChecksEnd
