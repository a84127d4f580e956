SPECIFICATION Spec
CONSTANTS
  MaxBody = 7
  Modules <- MCModules
  STACK_SIZE = 6
  CALLSTACK_SIZE = 4
  BR_TABLE_SIZE = 2
  BITS <- MCBits
  ArgValues = {0, 1}
  NULL = NULL
INVARIANTS
  FramesMirrorNesting
  NoUnderflow
  ExactHeight
PROPERTIES
  BlockExitHeight
