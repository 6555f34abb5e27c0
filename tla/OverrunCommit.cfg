SPECIFICATION Spec
CONSTANTS
  Capacity = 17
  FileSizes = {0, 1, 3}
  Chunks = {0, 1, 2}
  MaxEmit = 2
  MaxSaves = 2
  THRESHOLD_ZLIB = 0
  THRESHOLD_DELTA = 1
  BlockSize <- MCBlockSize
  EmbeddedBlockSize <- MCBlockSize
  Configs <- DefaultConfig
  RestartAnytime = FALSE
  SaveAfterFailure = FALSE
  CommitAfterError = TRUE
  CreationFlushed = TRUE
  FlushMayFail = FALSE
  DamageMayHappen = FALSE
INVARIANTS
  WholeFileHashed
