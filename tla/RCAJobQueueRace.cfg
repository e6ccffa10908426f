SPECIFICATION Spec
CONSTANTS
  Job = {j1}
  Worker = {w1, w2}
  NoJob = NoJob
  NoWorker = NoWorker
  MaxAttempts = 3
  LeaseTicks = 2
  Skew = 1
  RetryBase = 1
  RetryDelay <- MCRetryDelay
SYMMETRY MCSymmetry
INVARIANTS
  AttemptBudget
  OwnerIsCurrent
  CompletedResultIsCurrent
  CancelHonoured
  EventsTellStatus
PROPERTIES
  CommitsUnderLease
