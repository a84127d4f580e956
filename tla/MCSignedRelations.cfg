SPECIFICATION Spec
CONSTANTS
  BITS <- MCBits
  Values <- MCValues
  Narrow = {2, 4}
  PRECISION <- MCPrecision
  SCALE <- MCScale
  UNIT <- MCUnit
  ONE = 16
  Operands <- MCOperands
INVARIANTS
  SignedRelationsAgree
CHECK_DEADLOCK FALSE
