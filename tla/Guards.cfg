SPECIFICATION GuardsSpec
CONSTANTS
  None = None
  a = a
  p1 = p1
  p2 = p2
  Unknown = Unknown
  All = All
  IPs = {a}
  Costs = {"embed"}
  Posts = {p1, p2}
  PerIP <- MCPerIP
  Global <- MCGlobal
  UniquePerIP = 1
  Window = 3
  UniqueWindow = 3
  IdleLimit = 4
  Lag = 1
  MaxTime = 5
  s1 = s1
  s2 = s2
  c1 = c1
  c2 = c2
  a1 = a1
  a2 = a2
  w1 = w1
  w2 = w2
  i1 = i1
  i2 = i2
  i3 = i3
  i4 = i4
  Slots = {s1, s2}
  Callers = {c1, c2}
  Reload = 1
  Cooldown = 1
  MaxVersions = 1
  MaxPoolTime = 1
  Accounts = {a1, a2}
  Writers = {w1, w2}
  Inodes = {i1, i2, i3, i4}
  Askers = {w1, w2}
  PerMinute = 2
  MaxMinute = 2
  MaxRequests = 7
  e1 = e1
  AVSources = 2
  AVLimit = 4
  AVReserve = 1
  AVBodies <- MCBodies
  Malformed = Malformed
  Foreign = Foreign
  Embeds = {e1}
  EmbedItems <- MCEmbedItems
  EmbedKinds <- MCEmbedKinds
  Margin = 2
  MinLife = 1
  NormalTTL = 2
  FallbackTTL = 1
  MaxEmbedTime = 4
  RedirectModes = {"off", "preview_fallback", "telegram_all", "bots_all", "bots_restricted", "telegram_restricted"}
  LegacyItems <- MCLegacyItems
  LegacyRequests <- MCLegacyRequests
SYMMETRY GuardsSymmetry
INVARIANTS
  GuardsTypeOK
  SlidingBudget
  UsedCookieRecent
  BarredNotUsed
  SavedUnlessOverlapping
  MinuteBudget
  EdgeTTLSafe
  JournalAgrees
  SilentOnlyIfSaid
  RecordedOnce
  FailuresHandedOver
PROPERTIES
  CleanupForgetsNothing
