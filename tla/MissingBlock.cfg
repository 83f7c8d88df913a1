CONSTANTS
  BlockSz = 64
  LowScn <- MCLowScn
  NxtScn <- MCNxtScn
  NoLwn = NoLwn
  NoRec = NoRec
  MaxRecords = 3
  Lsn <- MCLsn
  Logs <- MCGapLogs
  ChunkSizes = {4}
  ShowLimit = 1000
  NoNab = 0
SPECIFICATION ExtractorSpec
INVARIANT
  MissingReported
