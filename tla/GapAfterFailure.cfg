SPECIFICATION Spec
CONSTANTS
  Capacity = 9
  FileSizes = {1}
  Chunks = {1}
  MaxEmit = 0
  MaxSaves = 2
  THRESHOLD_ZLIB = 0
  THRESHOLD_DELTA = 1
  BlockSize <- MCBlockSize
  EmbeddedBlockSize <- MCBlockSize
  Configs <- DefaultConfig
  RestartAnytime = FALSE
  SaveAfterFailure = TRUE
  CommitAfterError = FALSE
  CreationFlushed = TRUE
  FlushMayFail = FALSE
  DamageMayHappen = FALSE
INVARIANTS
  NoFalseAlarm
