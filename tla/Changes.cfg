CONSTANTS
  Payloads <- MCPayloads
  MaxCalls = 2
SPECIFICATION Spec
INVARIANTS
  TypeOK
  InRange
  Tiled
  AnswersTold
  Bounded
PROPERTY
  Terminates
