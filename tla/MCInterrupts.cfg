SPECIFICATION Spec
CONSTANTS
  Timer = timer
  Block = block
  Drivers = {device}
  Regs = {r1, r2}
  Periods <- OnePeriod
  Levels <- BothLevels
  None = none
  Revision = 2
  MaxIrqs = 2
INVARIANTS
  TypeOK
  HandlersNotNested
  TplDiscipline
  RegisteredWhole
CHECK_DEADLOCK FALSE
