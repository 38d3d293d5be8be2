SPECIFICATION Spec
CONSTANTS
  p1 = p1
  p2 = p2
  plain = plain
  signed = signed
  lapsed = lapsed
  w1 = w1
  w2 = w2
  None = None
  Posts = {p1}
  Items = {plain, signed, lapsed}
  Workers = {w1, w2}
  SignedExpiry <- MCSignedExpiry
  FreshTTL = 2
  StaleTTL = 1
  NegativeTTL = 1
  SignedMargin = 1
  LegacyExpiries = {1, 2}
  Durable = TRUE
  ExpiryTies = FALSE
  MaxTime = 3
SYMMETRY WorkerSymmetry
INVARIANTS
  FreshWithinStale
  FreshHonoursSignature
PROPERTIES
  EvictKeepsLive
  ImplementsContract
