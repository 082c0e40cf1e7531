SPECIFICATION FairSpec
CONSTANTS
  Updaters = {"loop"}
  MaxId = 4
  MaxFailures = 2
  MayReload = FALSE
INVARIANTS
  TypeOK
  OneRowPerID
PROPERTIES
  RowsConverge
