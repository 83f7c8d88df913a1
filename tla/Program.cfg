CONSTANTS
  BlockSz = 512
  LowScn <- MCLowScn
  NxtScn <- MCNxtScn
  NoLwn = NoLwn
  NoRec = NoRec
  MaxBlocks = 3
  Lsn <- MCLsn
  Logs <- MCLogs
  ChunkSizes = {1, 3}
  ReadBlocks = 3
  ShowLimit = 1
  NoNab = 999
  Unclosed = 999
  Sessions <- MCSessions
  NoFile = NoFile
  Dashed <- MCDashed
  UINT32 = 65536
SPECIFICATION ProgramSpec
INVARIANTS
  ProgramTypeOK
  AllAssembled
  NoOverlap
  FairInOrder
  LossOnThrow
  Remaining
  ReportsSkipped
  VerdictSound
  Repeatable
  AsCommanded
PROPERTY
  ProgramTerminates
