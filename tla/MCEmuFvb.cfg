SPECIFICATION Spec
CONSTANTS
  BlockSize = 4
  Base = 1
  Space = 12
  Data = {d}
  Reserved = TRUE
  Lbas <- AllLbas
  Offsets <- AllOffsets
  Buffers <- AllBuffers
  EraseLists <- AllLists
  MaxCalls = 2
INVARIANTS
  TypeOK
  FormattedIfValid
PROPERTIES
  FoundVolumeKept
  KeepsBlocksApart
CHECK_DEADLOCK FALSE
