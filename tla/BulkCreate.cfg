SPECIFICATION CreateSpec
CONSTANTS
  Count = 3
  Concurrency = 2
  StopOnError = FALSE
  NoResult = NoResult
  s1 = s1
  s2 = s2
  Subjects = {s1, s2}
  Batches <- AnyBatch
  OnDuplicate = "skip"
  Crowded = {s2}
  MaxCalls = 2
INVARIANTS
  ReportIsTrue
PROPERTIES
  RepeatsAreSafe
\* the last permitted call ends
CHECK_DEADLOCK FALSE
