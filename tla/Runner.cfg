CONSTANTS
  NumFragments = 2
  NumTasks <- TwoFragments
  ScanFragments = {1}
  Kinds = {"none", "pending"}
  HasDeadline = TRUE
  Faults = {"create", "wire", "task", "last", "split", "commit", "slow"}
  MaxBatches = 1
SPECIFICATION FairSpec
INVARIANTS TypeOK NoSilentTruncation NoSpontaneousCancel WriteIsResolved
PROPERTIES ImplementsContract StopEndsPull CleanupEnds
CHECK_DEADLOCK FALSE
