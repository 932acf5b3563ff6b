SPECIFICATION DataSpec
CONSTANTS
  w1 = w1
  w2 = w2
  Missing = Missing
  HexBase = 2
  WordBytes = 3
  MaxDid = 4
  MaxDepth = 2
  Path <- Paths
  Configs <- Startups
  Worker = {w1, w2}
  CatalogFile <- File
  BrokenFiles <- Broken
  Id <- Ids
  HexDid <- Dids
  Bodies <- RequestBodies
  Batches <- BatchIds
  EcuData <- FirstData
  Nrcs <- Refusals
  MaxFaults = 1
SYMMETRY Symmetry
INVARIANT DataTypeOK
INVARIANT RegistryIsTree
INVARIANT ContextsAreOwned
INVARIANT StatusTellsTheTruth
INVARIANT BatchAnswersEveryId
PROPERTY ImplementsDataStore
CHECK_DEADLOCK FALSE
