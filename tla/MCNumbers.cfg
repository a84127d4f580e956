SPECIFICATION NumericSpec
CONSTANTS
  BITS <- MCBits
  Values <- MCValues
  Narrow = {2, 4}
  PRECISION <- MCPrecision
  SCALE <- MCScale
  UNIT <- MCUnit
  ONE = 16
  Operands <- MCOperands
INVARIANTS
  TypeOK
  IntegersAgree
  TruncationsAgree
  ConversionsAgree
  MinMaxAgrees
CHECK_DEADLOCK FALSE
