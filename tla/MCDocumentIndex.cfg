SPECIFICATION Spec
CONSTANTS
  Documents = {1, 2}
  Chunkings = {"short", "long"}
  ChunksOf <- MCChunksOf
  SourceTypes <- MCSourceTypes
  Indexers = {i1, i2}
  Searchers = {s1}
  Deployments <- MCDeployments
  BatchSize = 2
  TopK = 2
  RouteLimit = 2
  RrfK = 60
  Overwriting = TRUE
  MaxWrites = 2
SYMMETRY MCSymmetry
INVARIANTS
  TypeOK
  ResultsAreCitable
  FusionRespectsRoutes
PROPERTIES
  CompletedRunsAreIndexed
  RetriesAreNotRefused
