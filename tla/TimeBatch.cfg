SPECIFICATION TimeSpec
CONSTANTS
  act1 = act1  act2 = act2  dev = dev  ops = ops  test = test
  ActivityIds = {act1, act2}
  ActivityNames = {dev, ops, test}
  Gone = Gone  NoList = NoList  Unsaid = Unsaid  Junk = Junk
  MaxBatch = 2
  MaxTimeEvents = 2
  Activities <- TwoActivities
  TimeCalls <- SomeTimeCalls
INVARIANTS
  OneFailureIsOneResult
\* the call has ended
CHECK_DEADLOCK FALSE
