SPECIFICATION Spec
CONSTANTS
  MaxSteps = 2
  OutputAttempts = 2
  Allowances = {0, 1, 2, 3}
INVARIANTS
  FallbackAlwaysFits
  FindingIsComplete
PROPERTIES
  ImplementsContract
