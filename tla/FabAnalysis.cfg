SPECIFICATION AnalysisSpec
CONSTANTS
  Cases <- MCCases
  NelsonLength <- MCNelsonLength
  ChartPoints = 2
  ChartGroups = 2
  BasicBaseline = 2
  RunLength = 3
  TrendLength = 3
  TopK = 4
  LaneMinimum = 1
  CandidateK = 5
  RrfK = 60
CHECK_DEADLOCK FALSE
INVARIANTS
  ExcursionIsOne
  EvidenceHasBasis
  BaselineIsPast
  LimitsHold
  LanesRepresented
