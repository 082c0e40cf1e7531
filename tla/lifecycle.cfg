SPECIFICATION FairSpec
CONSTANTS
  Modes = {"single", "cluster"}
  Ids = {"a", "b"}
  Multi = {2}
  Subs = {"s"}
  Configs <- AllChanges
  MaxGens = 3
  ClusterGens = 2
  MaxPeers = 4
  MaxMoves = 1
INVARIANTS
  TypeOK
  ConfiguredPeersRun
  GracefulExit
PROPERTIES
  StopReturns
  ShutdownEnds
CHECK_DEADLOCK FALSE
