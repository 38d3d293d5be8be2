SPECIFICATION Spec
CONSTANTS
  r1 = r1
  r2 = r2
  r3 = r3
  r4 = r4
  None = None
  Requests = {r1, r2, r3, r4}
  Threshold = 2
  Cooldown = 2
  Unbuildable = FALSE
INVARIANTS
  OnlyOneProbe
