SPECIFICATION Spec
CONSTANTS
  c1 = c1  c2 = c2  i1 = i1  i2 = i2  r1 = r1  r2 = r2
  open = open  closed = closed
  Callers = {c1, c2}
  Issues = {i1, i2}
  Roles = {r1, r2}
  NoRole = NoRole
  Statuses = {open, closed}
  Closed = {closed}
  CloseStatus = closed
  NoStatus = NoStatus
  UnknownName = UnknownName
  Workflow <- MCWorkflow
  Requests <- SomeIssueCalls
  Starts <- SomeStarts
  MaxCalls = 2
  MaxEvents = 1
SYMMETRY Interchangeable
INVARIANTS
  LearnedIsTrue
  OutcomeIsTruthful
  GateSawTheHold
PROPERTIES
  ClosingLeavesNotHeld
  BlockedWasForbidden
\* a call budget that is used up ends the behaviour
CHECK_DEADLOCK FALSE
