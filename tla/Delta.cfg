SPECIFICATION PairSpec
CONSTANTS
  Alphabet = {0, 1}
  K = 3
  HashMod = 8
  Uninit = Uninit
  MaxSource = 4
  MaxTarget = 6
  BlockSizes = {1, 2, 3}
  CmdMod = 16
  DELTA_BUFFER_SIZE = 2
  MaxFile = 7
  SignatureBlocks = {1, 2, 3, 4}
  MaxSize = 3000
  Byte = 8
  SizeBytes = 3
INVARIANTS
  DeltaPrefix
  NothingMissed
  CommandsReadable
  RestoresUpToTail
  SignaturePrefix
  SignaturePays
  NearlyOptimal
  HeaderReadsBack
  ReadsSmallBytes
