SPECIFICATION Spec
CONSTANTS
  Word = 2
  Keys <- MCKeys
  Global = 1
  Consoles <- MCConsoles
  Boot <- MCBoot
  Attrs <- MCAttrs
  Values <- MCValues
  BlockSize = 8
  NumBlocks = 4
  LbaSpace = 128
  SizeSpace = 64
  NonVolatile <- MCNonVolatile
  None = None
  NvVars <- MCNvVars
  Loaded <- MCLoaded
  Signature = 77
  Blank = Blank
  Devices = 2
  Vnor = 2
  MaxSets = 3
  MaxFaults = 1
  MaxResets = 1
INVARIANTS
  TypeOK
  PackedIsUnpacked
  LoadedIsComplete
PROPERTY KeepsImages
CHECK_DEADLOCK FALSE
