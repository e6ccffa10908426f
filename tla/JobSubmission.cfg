SPECIFICATION SubmissionSpec
CONSTANTS
  Call = {c1, c2, c3}
  Key = {k1}
  NoKey = NoKey
  Request = {r1, r2}
  NoJob = NoJob
  MaxTries = 2
INVARIANTS
  OneJobPerKey
  AnswersAreFaithful
CHECK_DEADLOCK FALSE
