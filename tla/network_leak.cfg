SPECIFICATION Spec
CONSTANTS
  Session = {s1}
  MaxIndex = 1
  Clusters <- OneServer
  Commands <- AllCommands
  MayOverlap <- OneAtATime
  UsesNetwork = TRUE
  BYODatastore = FALSE
  TornWrites = FALSE
  MaxFaults = 1
INVARIANTS
  DestroyRemovesNetwork
