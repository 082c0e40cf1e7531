SPECIFICATION Spec
CONSTANTS
  NumSources = 1
  MaxRestarts = 2
  MaxFaults = 2
  Answers = {"ok", "garbage", "odd", "more"}
  ObjectCount <- FromEmpty
  Icinga2 = FALSE
  HasLastUpdateColumn = FALSE
  Updateinterval = 1
  IdleInterval = 1
  FullUpdateInterval = 0
  IdleTimeout = 0
  StaleBackendTimeout = 1
  Clients = {"get", "query"}
INVARIANTS
  TypeOK
  OfflineHasNoData
  RestartCheckArmed
