SPECIFICATION Spec
CONSTANTS
  Ordinary = {a}
  Filtered = {}
  NvFlag = NvVars
  Vals = {v1, v2}
  FlagValue = true
  None = None
  NoHeader = NoHeader
  Header = Header
  ReservedStore = FALSE
  Budget <- NewerBudget
PROPERTY LoadKeepsNewerChanges
CHECK_DEADLOCK FALSE
