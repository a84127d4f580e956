SPECIFICATION Spec
CONSTANTS
  PAGE_SIZE = 2
  MAX_PAGES = 2
  U32 = 16
  NIBBLES = 6
  MAX_ENTRIES = 4
  Binaries <- MCBinaries
INVARIANTS
  TypeOK
  InstanceAsSpecified
  StartSeesInstance
  ValidIsAccepted
  ExportsRunThemselves
  MasksTellTypesApart
CHECK_DEADLOCK FALSE
