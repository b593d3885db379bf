CONSTANTS
  NumFragments = 2
  NumTasks <- TwoFragments
  ScanFragments = {1}
  Kinds = {"pending"}
  HasDeadline = FALSE
  Faults = {"task"}
  MaxBatches = 1
SPECIFICATION Spec
INVARIANTS CommitIsReported
CHECK_DEADLOCK FALSE
