CONSTANTS
  NumFragments = 3
  NumTasks <- ThreeFragments
  ScanFragments = {1, 2}
  Kinds = {"none", "pending"}
  HasDeadline = TRUE
  Faults = {"wire", "task", "last", "commit"}
  MaxBatches = 1
SPECIFICATION Spec
INVARIANTS CancelReachesEveryTask
PROPERTIES AbortIsQuiet
CHECK_DEADLOCK FALSE
