SPECIFICATION FairHistorySpec
CONSTANTS
  Session = {s1}
  MaxIndex = 3
  Clusters <- SmallClusters
  Commands <- AllCommands
  MayOverlap <- OneAtATime
  UsesNetwork = TRUE
  BYODatastore = FALSE
  TornWrites = TRUE
  MaxFaults = 3
INVARIANTS
  TypeOK
  DestroyLeavesNothing
  SoundInv
  RefusesBeforeLaunching
PROPERTIES
  LaunchesFresh
  CommitsLive
  ImplementsMembership
  DestroyRecovers
