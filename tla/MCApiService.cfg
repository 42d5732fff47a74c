SPECIFICATION FairSpec
CONSTANTS
  q1 = q1
  q2 = q2
  e1 = e1
  e2 = e2
  QueryRequests <- TwoQueries
  Submissions <- TwoSubmissions
  HistoryLimit = 1
  MaxEvaluations = 1
INVARIANTS
  TypeOK
  OneWorkAtATime
  RegistryHasRoom
  QueriesAreAccounted
  JobCountersAgree
PROPERTIES
  QueriesAreAnswered
  JobsKeepPromise
  JobsAreFinished
