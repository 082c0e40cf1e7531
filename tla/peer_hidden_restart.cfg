SPECIFICATION FairSpec
CONSTANTS
  NumSources = 1
  MaxRestarts = 2
  MaxFaults = 2
  Answers = {"ok"}
  ObjectCount <- SameCount
  Icinga2 = FALSE
  HasLastUpdateColumn = FALSE
  Updateinterval = 1
  IdleInterval = 1
  FullUpdateInterval = 0
  IdleTimeout = 1
  StaleBackendTimeout = 1
  Clients = {}
PROPERTIES
  CacheReflectsSite
