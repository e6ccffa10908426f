\* The plan of Python and 260 plans of a model, over every outcome of the agents.
SPECIFICATION WorkflowSpec
CONSTANT Proposals <- MCProposals
INVARIANTS
  InputsPrecede
  ReportIsConsistent
  FailureIsLocal
CHECK_DEADLOCK FALSE
