SPECIFICATION FairSpec
CONSTANTS
  p1 = p1
  p2 = p2
  p3 = p3
  Procs = {p1, p2, p3}
  Nobody = Nobody
  Origins = {0, 1, 2, 3}
INVARIANTS
  StampedIsCurrent
PROPERTIES
  OnlyLaggardsForget
  AloneOpens
