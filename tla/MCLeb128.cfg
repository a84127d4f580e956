SPECIFICATION Spec
CONSTANTS
  GROUP = 7
  WORD = 64
  INT = 32
  Reads <- MCReads
  Payloads <- MCPayloads
INVARIANTS
  TypeOK
  DecodesAgree
CHECK_DEADLOCK FALSE
