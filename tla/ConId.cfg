CONSTANTS
  Payloads <- MCPayloads
  MaxCalls = 2
SPECIFICATION Spec
INVARIANT
  ConIdOfExtension
