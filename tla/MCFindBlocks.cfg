SPECIFICATION Spec
CONSTANTS
  MaxBody = 4
  MaxPairBody = 2
  Inputs <- MCInputs
  BLOCKSTACK_SIZE = 3
INVARIANTS
  TypeOK
  StackHoldsOpenBlocks
  AcceptsExactlyBalanced
  LoadedIsWellNested
CHECK_DEADLOCK FALSE
