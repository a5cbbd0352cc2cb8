SPECIFICATION FairSpec
CONSTANTS
  Ordinary = {a, b}
  Filtered = {boot}
  NvFlag = NvVars
  Vals = {v1}
  FlagValue = true
  None = None
  NoHeader = NoHeader
  Header = Header
  ReservedStore = TRUE
  Budget <- MirrorBudget
INVARIANTS
  TypeOK
  QuietImpliesClean
  UntouchedFromImage
  EventSnapshotExact
PROPERTIES
  ChangeReachesDevice
  EventSettles
CHECK_DEADLOCK FALSE
