SPECIFICATION FairSpec
CONSTANTS
  Nodes = {"n1", "n2", "n3"}
  Me = "n1"
  Rows <- SmallRows
  Other <- SmallOther
  Lower = {2}
  Queries <- AllQueries
  MaxChanges = 1
INVARIANTS
  TypeOK
  
  
PROPERTIES
  ClusterQueryEnds
