SPECIFICATION NamesSpec
CONSTANTS
  Session = {s1}
  MaxIndex = 3
  Clusters <- SmallClusters
  Commands <- AllCommands
  MayOverlap <- OneAtATime
  UsesNetwork = FALSE
  BYODatastore = FALSE
  TornWrites = FALSE
  MaxFaults = 0
PROPERTIES
  FreedNamesStayFree
