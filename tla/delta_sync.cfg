SPECIFICATION Spec
CONSTANTS
  Rows = {r1, r2}
  UpdateOffset = 1
  Updateinterval = 1
  MinFullScanInterval = 2
  SyncIsExecuting = FALSE
  MaxFilter = 5
  Duration = 1
  Lateness = 2
  Eventful = 2
  MaxTime = 19
  MaxChanges = 2
  MaxFaults = 2
INVARIANTS
  TypeOK
  WindowsFollow
  ScanFollows
SYMMETRY RowSymmetry
CHECK_DEADLOCK FALSE
