CONSTANTS
  BlockSz = 512
  LowScn = 10
  NxtScn = 20
  NoLwn = NoLwn
  MaxBlocks = 6
  Lsn <- MCLsn
  Logs <- MCAnyLogs
  ChunkSizes = {1, 2, 3, 4}
SPECIFICATION SourceSpec
INVARIANTS
  ServedInOrder
  LossExplained
PROPERTY
  ImplementsBlockStream
