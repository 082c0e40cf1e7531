SPECIFICATION Spec
CONSTANTS
  Lower <- SmallLower
  PeerMapOrder <- SmallOrder
  MultiPeers = {"m"}
  Data <- SmallData
  Requests <- SoundRequests
  ServiceAuthorization = "loose"
  GroupAuthorization = "strict"
  MaxFlaps = 1
INVARIANTS
  RowsAreTheSlice
  TotalBeforeLimit
  StatsOverAllRows
