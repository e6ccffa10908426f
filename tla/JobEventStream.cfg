SPECIFICATION FairSpec
CONSTANTS
  Writer = {worker, api}
  NoWriter = NoWriter
  MaxEvents = 4
  MaxDrops = 2
INVARIANTS
  InOrder
PROPERTIES
  AllArrives
CHECK_DEADLOCK FALSE
