SPECIFICATION FairSpec
CONSTANTS
  p1 = p1
  p2 = p2
  p3 = p3
  c1 = c1
  None = None
  Posts = {p1, p2, p3}
  Callers = {c1}
  Slots = 2
  AcquireTimeout = 0
  CallTimeout = 1
  ProbeTimeout = 1
  HealthTTL = 2
  NegativeTTL <- MCNegativeTTL
  MaxTime = 3
INVARIANTS
  CallsWithinSlots
  HealthRecent
PROPERTIES
  SlotsComeFree
