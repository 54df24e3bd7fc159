SPECIFICATION Spec
CONSTANTS
  Bpb <- MCBpb
  Path <- MCPath
  Slash = 9
  RootName <- MCRootName
  PieceLen = 2
  MaxFiles = 4
INVARIANTS
  ClustersDistinct
  WithinClusters
  FreesExact
PROPERTIES
  Durable
  DirsFound
