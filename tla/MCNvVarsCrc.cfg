SPECIFICATION Spec
CONSTANTS
  Ordinary = {a}
  Filtered = {}
  NvFlag = NvVars
  Vals = {v1}
  FlagValue = true
  None = None
  NoHeader = NoHeader
  Header = Header
  ReservedStore = FALSE
  Budget <- TornBudget
INVARIANT LoadSuccessMeansRead
CHECK_DEADLOCK FALSE
