CONSTANTS
  BlockSz = 512
  LowScn <- MCLowScn
  NxtScn <- MCNxtScn
  NoLwn = NoLwn
  NoRec = NoRec
  MaxBlocks = 2
  Lsn <- MCLsn
  Logs <- MCRivalLogs
  ChunkSizes = {1}
SPECIFICATION Spec
INVARIANT
  VoidYields
