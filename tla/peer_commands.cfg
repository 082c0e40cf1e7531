SPECIFICATION FairSpec
CONSTANTS
  NumSources = 2
  MaxRestarts = 2
  MaxFaults = 1
  Answers = {"ok", "empty", "garbage", "odd"}
  ObjectCount <- GrowingCount
  Icinga2 = FALSE
  HasLastUpdateColumn = FALSE
  Updateinterval = 1
  IdleInterval = 1
  FullUpdateInterval = 1
  IdleTimeout = 0
  StaleBackendTimeout = 1
  Clients = {"command"}
INVARIANTS
  CommandAtMostOnce
PROPERTIES
  CommandAnswered
  Recovers
  RestartNoticed
