SPECIFICATION FairSpec
CONSTANTS
  Count = 4
  Concurrency = 3
  StopOnError = FALSE
  NoResult = NoResult
INVARIANTS
  NoneMeansNeverStarted
PROPERTIES
  NothingSentAfterTheEnd
  RunnersEnd
  ImplementsBatch
\* every runner and the call come to an end
CHECK_DEADLOCK FALSE
