SPECIFICATION Spec
CONSTANTS
  Evidence <- MCEvidence
  About <- MCAbout
  Kind <- MCKind
  Cause = {1, 2}
  Wording <- MCWording
  Registers <- MCRegisters
  Citations <- MCCitations
  Denials <- MCDenials
  Lot = {"lotA", "lotB"}
  SourceLot = "lotB"
  None = 0
CHECK_DEADLOCK FALSE
INVARIANTS
  SupportedIsGrounded
  NoLiveRival
  FailureNeverDecides
  KnowledgeNeverDecides
