CONSTANTS
  UINT32 = 4096
  Blocks <- MCBlocks
SPECIFICATION Spec
INVARIANTS
  TypeOK
  ColumnsInside
  RowsAsWritten
