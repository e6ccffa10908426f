SPECIFICATION FairSpec
CONSTANTS
  Job = {j1}
  Worker = {w1, w2}
  NoJob = NoJob
  NoWorker = NoWorker
  MaxAttempts = 2
  LeaseTicks = 2
  Skew = 0
  RetryBase = 1
  RetryDelay <- MCRetryDelay
PROPERTIES
  JobsEnd
  CancelTakesEffect
  ImplementsLifecycle
