SPECIFICATION FairSpec
CONSTANTS
  Timer = timer
  Block = block
  Drivers = {}
  Regs = {r1}
  Periods <- OnePeriod
  Levels <- CallbackOnly
  None = none
  Revision = 3
  MaxIrqs = 1
PROPERTIES
  WaitEnds
  QueuedRuns
CHECK_DEADLOCK FALSE
