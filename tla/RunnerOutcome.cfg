CONSTANTS
  NumFragments = 2
  NumTasks <- TwoFragments
  ScanFragments = {1}
  Kinds = {"none", "pending"}
  HasDeadline = TRUE
  Faults = {"wire", "last", "commit", "slow"}
  MaxBatches = 1
SPECIFICATION Spec
INVARIANTS FinalStatsCaptured NoInternalError StopIsAttributed CommitIsReported
PROPERTIES FinishedIsFinal
CHECK_DEADLOCK FALSE
