SPECIFICATION FairSpec
CONSTANTS
  Updateinterval = 2
  WaitTimeout = 2
  MaxTime = 8
INVARIANTS
  TypeOK
  MetWasSeen
PROPERTIES
  WaitEnds
  WorkerEnds
