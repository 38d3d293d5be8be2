SPECIFICATION FairSpec
CONSTANTS
  p1 = p1
  c1 = c1
  c2 = c2
  None = None
  Gone = Gone
  Transient = Transient
  Posts = {p1}
  Post = p1
  Callers = {c1, c2}
  Entries = {"GetData", "RefreshDataPreferVideo", "RefreshVideoFromPublicGraphQLPreserveMetadata", "RefreshDataNoAuthPreserveMetadata"}
  Items <- AllItems
  PublicItems <- OnlyReel
  AuthItems <- OnlyThumbnail
  PublicRefresh = TRUE
  PublicNegativeTTL = 1
  SignedExpiry <- Unsigned
  FreshTTL = 1
  StaleTTL = 1
  NegativeTTL = 0
  SignedMargin = 0
  LegacyExpiries = {}
  Durable = TRUE
  ExpiryTies = FALSE
  MaxTime = 1
PROPERTIES
  AllAnswered
