SPECIFICATION BackgroundSpec
CONSTANTS
  p1 = p1
  p2 = p2
  plain = plain
  signed = signed
  lapsed = lapsed
  w1 = w1
  w2 = w2
  None = None
  Posts = {p1, p2}
  Items = {plain, signed}
  Workers = {w1}
  SignedExpiry <- MCSignedExpiry
  FreshTTL = 1
  StaleTTL = 2
  NegativeTTL = 1
  SignedMargin = 1
  LegacyExpiries = {1}
  Durable = FALSE
  ExpiryTies = FALSE
  MaxTime = 3
  s1 = s1
  s2 = s2
  s3 = s3
  h1 = h1
  h2 = h2
  h3 = h3
  d1 = d1
  d2 = d2
  d3 = d3
  Scrapes = {s1, s2, s3}
  AuthCalls = {h1, h2, h3}
  DBCalls = {d1, d2, d3}
  QueueSize = 2
  SendAttempts = 2
  StartTime = 2
  LastMinute = 4
  MaxWait = 1
  WindowMinutes = 2
  MinOutage = 2
  MinRate = 3
  RepeatScrape = 2
  AuthStreak = 2
  RepeatAuth = 2
  RepeatDB = 1
INVARIANTS
  EveryEntryExpires
  AlertsRight
  AlertsTold
PROPERTIES
  BackgroundSettles
