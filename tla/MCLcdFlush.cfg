SPECIFICATION FairSpec
CONSTANTS
  FixedVram = TRUE
  MaxRender = 2
  MaxVram = 2
  MaxDelay = 2
INVARIANTS
  TypeOK
  NothingForgotten
PROPERTIES
  WholeFrames
  DeferredFlushHappens
CHECK_DEADLOCK FALSE
