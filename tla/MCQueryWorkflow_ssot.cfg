SPECIFICATION Spec
CONSTANTS
  c1 = c1
  c2 = c2
  c3 = c3
  Chunks <- MCChunks
  ConflictingPairs <- MCConflictingPairs
  Queries <- ThreeQueries
  Configurations <- LargestRuns
  MaxCited = 2
INVARIANT
  RefinementFailureRetrieves
