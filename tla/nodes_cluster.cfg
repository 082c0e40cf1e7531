SPECIFICATION FairSpec
CONSTANTS
  NumNodes = 2
  NumBackends = 3
  Versions = {1, 2}
  MaxStarts = 3
  MaxDelays = 1
INVARIANTS
  TypeOK
  EveryBackendOnce
PROPERTIES
  OwnersConverge
  RoutesConverge
CHECK_DEADLOCK FALSE
