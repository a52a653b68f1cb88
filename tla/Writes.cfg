SPECIFICATION WritesSpec
SYMMETRY Alike
CONSTANTS
  c1 = c1  c2 = c2  inside = inside  outside = outside  link = link  img = img  doc = doc
  Callers = {c1, c2}
  Paths = {inside, outside, link}
  Leads <- LinkLeadsOut
  Allowed = {inside, link}
  NameOf <- OwnNames
  Contents = {img, doc}
  Image = {img}
  Big = {img}
  Part = Part
  NoFile = NoFile
  Backoffs = 2
  Requests <- AnyRequest
  MaxCalls = 1
  MaxEvents = 1
  e1 = e1  e2 = e2
  Editors = {e1, e2}
  NoPage = NoPage
  MaxWikiCalls = 4
  why = why  whyElse = whyElse  hard = hard  Hard = Hard  HARD = HARD
  Easy = Easy  easy = easy  odd = odd  day = day
  Empty = Empty
  Unclassified = Unclassified
  FieldValues = {why, whyElse, hard, Hard, HARD, Easy, easy, odd, day, Empty, Unclassified}
  Folded <- Lower
  Possible <- Listed
  FieldCalls <- SomeFieldCalls
  Had <- SomeHad
  a = a  b = b  c = c  u1 = u1
  Issues = {a, b, c}
  Root = a
  Users = {u1}
  Options <- AnyOption
  Forests <- Trees
  Watchers <- SomeWatchers
  Relations <- SomeRelations
  MaxDepth = 2
  MaxMoves = 1
  i1 = i1  i2 = i2  i3 = i3  i4 = i4
  Linkers = {c1, c2}
  Nodes = {i1, i2, i3, i4}
  Links <- SomeRequests
  Graphs <- Tree
  MaxNodes = 2
  MaxLinks = 1
  act1 = act1  act2 = act2  dev = dev  ops = ops  test = test
  ActivityIds = {act1, act2}
  ActivityNames = {dev, ops, test}
  Gone = Gone  NoList = NoList  Unsaid = Unsaid  Junk = Junk
  MaxBatch = 2
  MaxTimeEvents = 2
  Activities <- TwoActivities
  TimeCalls <- SomeTimeCalls
  q1 = q1  q2 = q2
  Reqs = {q1, q2}
  Method <- ReadAndWrite
  MaxRetries = 2
  RetryAfter <- Headers
  NoHeader = NoHeader
INVARIANTS
  CopiesAreFaithful
  CyclesNeedABlindWalk
  RefusalsAreTrue
  TimeIsBookedAsReported
  AttachAnswerIsTrue
  AnswersShowTheWrite
  PrecedenceIsKept
  GateJudgesThePut
  CorrectionsAreSafe
  NoDuplicateWrite
  OutcomeIsEarned
  WaitIsBounded
PROPERTIES
  LocalFilesAreSafe
  NoBlindOverwrite
\* the calls permitted are used up
CHECK_DEADLOCK FALSE
