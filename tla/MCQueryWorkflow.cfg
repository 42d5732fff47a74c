SPECIFICATION FairSpec
CONSTANTS
  c1 = c1
  c2 = c2
  c3 = c3
  Chunks <- MCChunks
  ConflictingPairs <- MCConflictingPairs
  Queries <- ThreeQueries
  Configurations <- AllPolicies
  MaxCited = 2
INVARIANTS
  TypeOK
  NoInternalFailure
  AttemptsAreNovel
  OneFallbackPerRun
  GroundedCompletion
  WitnessesSurviveRanking
PROPERTIES
  AbstentionIsFinal
  KeepsPromise
  EveryRunIsAnswered
