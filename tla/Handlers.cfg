SPECIFICATION HandlersSpec
CONSTANTS
  None = None
  a = a
  b = b
  r1 = r1
  r2 = r2
  r3 = r3
  t1 = t1
  t2 = t2
  sd = sd
  hd = hd
  v1 = v1
  v2 = v2
  x = x
  y = y
  z = z
  f1 = f1
  Direct = Direct
  Requests = {r1, r2, r3}
  Threshold = 2
  Cooldown = 2
  Unbuildable = TRUE
  Previews = {r1, r2}
  Kind <- MCKind
  Post <- MCPost
  MaxDetails = 1
  MaxAttempts = 2
  Offloads = {r1, r2}
  OffPosts = {a}
  Stripe <- MCStripe
  Numbers = {1, 2}
  OffItems <- MCOffItems
  SourceCount = 2
  MissTTL = 1
  MaxNow = 2
  Threads = {t1, t2}
  Slots = 1
  Files = {sd, hd}
  Size <- MCSize
  Chunk = 2
  MaxBytes = 5
  MaxResumes = 2
  Ranges <- MCRanges
  Refresh = TRUE
  Viewers = {v1, v2}
  AVMaxAge = 1
  MaxAVTime = 2
  AVSources = 2
  AVLimit = 4
  AVReserve = 1
  AVBodies <- MCBodies
  Proxies <- MCProxies
  BadURLs = {z}
  ProxyAttempts = 3
  HedgeInitial = 1
  ProxyCooldown = 1
  Fetches = {f1}
  MaxProxyTime = 1
INVARIANTS
  HandlersTypeOK
  OpenIffFailing
  ReportedExactlyOnce
  CountersAgree
  NoChainDuringMiss
  AttemptsSuffice
  SourcesBest
  ServedFresh
  ProxiesFirst
PROPERTIES
  RefusedMeansProbed
  EventuallyReported
  ImplementsStream
  HandlersAnswer
