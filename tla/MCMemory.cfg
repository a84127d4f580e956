SPECIFICATION LawfulSpec
CONSTANTS
  PAGE_SIZE = 4
  MAX_PAGES = 2
  U32 = 16
  Byte <- MCByte
  Negative <- MCNegative
  FF = 255
  Limits <- MCLimits
  Addresses = {0, 3, 15}
  Offsets = {0, 1}
  Deltas = {0, 1, 2, 15}
  Values <- MCValues
  MAX_INSTRS = 3
INVARIANTS
  TypeOK
  PagesAreAllocated
PROPERTIES
  GrownPagesAreZero
  ImplementsMemory
CHECK_DEADLOCK FALSE
