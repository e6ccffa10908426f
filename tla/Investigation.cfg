SPECIFICATION FairSpec
CONSTANTS
  Goals <- MCGoals
  QuestionSets <- MCQuestionSets
  NewQuestions = {"recipe_history"}
  Gaps = {"mechanism", "hypothesis_discrimination"}
  Lanes = {"laneA", "laneB"}
  Proposals = {"supported", "inconclusive"}
  MaxQuestions = 2
  MaxRounds = 1
  MaxNoGain = 2
  OutputAttempts = 2
  MaxSpecialistCalls = 2
INVARIANTS
  WorkIsBounded
  ConclusionIsEarned
  ClosedByEvidence
PROPERTIES
  Ends
