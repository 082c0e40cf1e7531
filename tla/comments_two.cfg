SPECIFICATION Spec
CONSTANTS
  Updaters = {"loop", "resume"}
  MaxId = 3
  MaxFailures = 0
  MayReload = TRUE
INVARIANTS
  IndexSound
  ListsFollow
CHECK_DEADLOCK FALSE
