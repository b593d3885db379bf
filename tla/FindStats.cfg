CONSTANTS
  NumFragments = 2
  NumTasks <- TwoFragments
  ScanFragments = {1}
  Kinds = {"none"}
  HasDeadline = FALSE
  Faults = {"split"}
  MaxBatches = 1
SPECIFICATION Spec
INVARIANTS FinalStatsCaptured
CHECK_DEADLOCK FALSE
