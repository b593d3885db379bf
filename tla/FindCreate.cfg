CONSTANTS
  NumFragments = 2
  NumTasks <- TwoFragments
  ScanFragments = {1}
  Kinds = {"none"}
  HasDeadline = FALSE
  Faults = {"create"}
  MaxBatches = 1
SPECIFICATION Spec
INVARIANTS CancelReachesEveryTask
CHECK_DEADLOCK FALSE
