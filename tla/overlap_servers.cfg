SPECIFICATION Spec
CONSTANTS
  Session = {s1, s2}
  MaxIndex = 3
  Clusters <- BYOClusters
  Commands <- AddsOnly
  MayOverlap <- AddsOverlap
  UsesNetwork = FALSE
  BYODatastore = TRUE
  TornWrites = FALSE
  MaxFaults = 2
INVARIANTS
  AddsInv
  ClaimsDisjoint
