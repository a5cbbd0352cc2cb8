SPECIFICATION Spec
CONSTANTS
  UI = ui
  Menu = menu
  Shell = shell
  VnorOptions = {vnor, partition}
  Disks = {disk}
  UserOptions = {android}
  F2 = f2
  Esc = esc
  Displays = {panel}
  Serial = serial
  Keyboard = keyboard
  ModeLists <- TextModes
  None = none
  ReservedStore = TRUE
  MaxNumber = 8
  Budget <- MCBudget
SYMMETRY Alike
INVARIANTS
  TypeOK
  OffersSettled
PROPERTIES
  UserOptionsKept
CHECK_DEADLOCK FALSE
