CONSTANTS
  MaxCounter = 2
  SecondsPerDay = 2
  MaxClock = 5
  ClockStepsBack = TRUE
SPECIFICATION Spec
INVARIANT UniqueIds
CHECK_DEADLOCK FALSE
