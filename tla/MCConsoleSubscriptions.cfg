SPECIFICATION FairSpec
CONSTANTS
  Streams = {s1}
  Callers = {c1, c2}
  Service = Service
  NoCall = NoCall
CHECK_DEADLOCK FALSE
INVARIANTS
  OwnedThroughWork
  CloseLeavesNothing
  NoCleanupFailureForgotten
PROPERTIES
  FreshAtDisclosure
  EverythingSettles
