SPECIFICATION ReadsSpec
CONSTANTS
  b1 = b1  b2 = b2  n1 = n1  n2 = n2  i1 = i1  i2 = i2
  Items = {1, 2, 3, 4, 5, 6, 7, 8}
  Lists <- SomeLists
  Tools <- AllTools
  PageSize = 2
  MaxEntries = 3
  PageCap = 2
  MaxEvents = 3
  Boards = {b1, b2}
  RowIds = {1, 2, 3}
  LastDay = 3
  Projects <- SomeProjects
  FeedRequests <- SomeFeeds
  MaxPerSource = 2
  MaxChanges = 1
  RefIds = {i1, i2}
  Names = {n1, n2}
  NoName = NoName
  Blank = Blank
  MaxAdmin = 2
  Registries <- SomeRegistries
  Searches <- SomeSearches
  c1 = c1  c2 = c2  web = web  app = app  other = other
  Calls = {c1, c2}
  Ids = {1, 2}
  Idents = {web, app, other}
  Gone = Gone
  NoRow = NoRow
  StartProjects <- AnyStart
  Overlap = TRUE
  Environment = {"edit", "reuse"}
  MaxVersion = 1
  MaxCalls = 3
  Caps = {0, 1, 2, 13, 14, 18, 19, 20, 31, 32, 33, 57, 58, 59, 70, 71, 72, 80, 98, 99}
  MaxDigits = 3
  Texts <- SomeTexts
  Chars <- Length
  Cost <- Escaped
INVARIANTS
  QuietListsAreExact
  PagesCostOnlyChanges
  FeedAgreesWithSources
  NoFilterIsDropped
  ReadsSeeWrites
  SlugBeatsName
  CacheFailsOnlyOnReuse
  CapIsHonoredAndUsed
  SearchHalves
PROPERTIES
  MissingIsTrue
\* the call ends
CHECK_DEADLOCK FALSE
