SPECIFICATION Spec
CONSTANTS
  Call = {c1, c2, c3}
  ye = ye
  YE = YE
  PE = PE
  TypedId <- MCTypedId
  Normal <- MCNormal
  Free = Free
INVARIANTS
  TwoEngineers
  ToldTheTruth
PROPERTIES
  ImplementsDualControl
SYMMETRY AnyCall
CHECK_DEADLOCK FALSE
