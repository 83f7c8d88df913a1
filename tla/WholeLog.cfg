CONSTANTS
  BlockSz = 64
  LowScn <- MCLowScn
  NxtScn <- MCNxtScn
  NoLwn = NoLwn
  NoRec = NoRec
  MaxRecords = 3
  Lsn <- MCLsn
  Logs <- MCLogs
  ChunkSizes = {2}
  ShowLimit = 1
  NoNab = 0
SPECIFICATION ExtractorSpec
INVARIANTS
  NeverThrows
  NoFalseAlarm
  VerdictOnWhole
PROPERTY
  ImplementsLogReader
