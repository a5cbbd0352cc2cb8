SPECIFICATION Spec
CONSTANTS
  SecPerMin = 2
  MinPerHour = 2
  HourPerDay = 2
  UintnSpace <- Counter
  Unspecified = Unspecified
  Times <- MCTimes
  Moments <- Starts
  MaxCalls = 2
  MaxTicks = 1
  MaxResets = 1
INVARIANTS
  TypeOK
  RoundTrips
  ReadsBack
PROPERTY KeepsCalendar
CHECK_DEADLOCK FALSE
