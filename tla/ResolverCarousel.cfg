SPECIFICATION Spec
CONSTANTS
  p1 = p1
  c1 = c1
  c2 = c2
  None = None
  Gone = Gone
  Transient = Transient
  Posts = {p1}
  Post = p1
  Callers = {c1, c2}
  Entries = {"GetData", "GetDataQuiet"}
  Items <- AllItems
  PublicItems <- AnyPublic
  AuthItems <- OnlyThumbnail
  PublicRefresh = TRUE
  PublicNegativeTTL = 1
  SignedExpiry <- Unsigned
  FreshTTL = 1
  StaleTTL = 1
  NegativeTTL = 0
  SignedMargin = 0
  LegacyExpiries = {}
  Durable = TRUE
  ExpiryTies = FALSE
  MaxTime = 1
PROPERTIES
  CarouselNotReplacedByThumbnail
