SPECIFICATION HistorySpec
CONSTANTS
  Session = {s1}
  MaxIndex = 3
  Clusters <- HAClusters
  Commands <- ServersOnly
  MayOverlap <- OneAtATime
  UsesNetwork = FALSE
  BYODatastore = FALSE
  TornWrites = TRUE
  MaxFaults = 1
INVARIANTS
  RecordHolds
  SoloInv
  DestroyLeavesNothing
PROPERTIES
  LaunchesFresh
  CommitsLive
  LBServesRecord
