SPECIFICATION CopySpec
CONSTANTS
  a = a  b = b  c = c  u1 = u1
  Issues = {a, b, c}
  Root = a
  Users = {u1}
  Options <- AnyOption
  Forests <- Trees
  Watchers <- SomeWatchers
  Relations <- SomeRelations
  MaxDepth = 2
  MaxMoves = 1
INVARIANTS
  DirectionIsKept
\* the call ends
CHECK_DEADLOCK FALSE
