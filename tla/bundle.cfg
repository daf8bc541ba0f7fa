SPECIFICATION Spec
CONSTANTS
  Session = {s1}
  MaxIndex = 3
  Clusters <- HAClusters
  Commands <- ServersOnly
  MayOverlap <- OneAtATime
  UsesNetwork = FALSE
  BYODatastore = FALSE
  TornWrites = FALSE
  MaxFaults = 0
INVARIANTS
  AddServerSharesBundle
