CONSTANTS
  MaxCounter = 2
  SecondsPerDay = 2
  MaxClock = 5
  ClockStepsBack = FALSE
SPECIFICATION Spec
INVARIANTS TypeOK UniqueIds FiveDigits IdsInOrder
CHECK_DEADLOCK FALSE
