CONSTANTS
  BlockSz = 512
  LowScn <- MCLowScn
  NxtScn <- MCNxtScn
  NoLwn = NoLwn
  Blocks <- MCBlocks
SPECIFICATION Spec
INVARIANTS
  Chain
  Tiled
  LimitNeverBinds
  Computes
PROPERTY
  Terminates
