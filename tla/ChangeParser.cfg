SPECIFICATION Spec
CONSTANTS
  UINT32 <- MCUINT32
  UINT16 = 65536
  IsLittle = TRUE
  AnyNumber <- MCAnyNumber
  AnyValue <- MCAnyValue
  Changes <- MCChanges
INVARIANTS
  TypeOK
  ReadInOrder
  FieldsInside
  UndefinedOnly
  ColumnsComplete
  IntactRead
  DamageNotMisread
