SPECIFICATION Spec
CONSTANTS
  MaxBody = 1
  MaxPairBody = 1
  Inputs <- MCInputs
  BLOCKSTACK_SIZE = 3
INVARIANT LoadedFunctionsEnd
CHECK_DEADLOCK FALSE
