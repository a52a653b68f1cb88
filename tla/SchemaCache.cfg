SPECIFICATION FairSpec
CONSTANTS
  p1 = p1  p2 = p2  alice = alice  bob = bob
  NoRow = NoRow  NoFingerprint = NoFingerprint  Nobody = Nobody  NoTable = NoTable
  Procs = {p1, p2}
  Identities = {alice, bob}
  Tables = {"projects", "custom_fields"}
  Legacy = FALSE
  Reuse = TRUE
INVARIANTS
  LeaksNeedMixedUse
PROPERTIES
  CallEnds
