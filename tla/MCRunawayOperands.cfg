SPECIFICATION Spec
CONSTANTS
  Modules <- MCRunaway
  STACK_SIZE = 8
  CALLSTACK_SIZE = 4
  BR_TABLE_SIZE = 2
  BITS <- MCBits
  ArgValues = {0, 1, 2, 3}
  NULL = NULL
INVARIANTS
  OperandStackInBounds
