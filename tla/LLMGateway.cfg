SPECIFICATION Spec
CONSTANTS
  MaxRetries = 1
  CallRetries = 1
  OutputAttempts = 2
  Steps = 3
INVARIANTS
  DecisionBudget
  RetryIsEarned
PROPERTIES
  FailFast
CHECK_DEADLOCK FALSE
