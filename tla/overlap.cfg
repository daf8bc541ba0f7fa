SPECIFICATION Spec
CONSTANTS
  Session = {s1, s2}
  MaxIndex = 3
  Clusters <- SmallClusters
  Commands <- AllCommands
  MayOverlap <- AddsOverlap
  UsesNetwork = FALSE
  BYODatastore = FALSE
  TornWrites = TRUE
  MaxFaults = 1
INVARIANTS
  AddsInv
  DestroyInv
  NoGhosts
PROPERTIES
  LaunchesFresh
  CommitsLive
