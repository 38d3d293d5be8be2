SPECIFICATION Spec
CONSTANTS
  p1 = p1
  c1 = c1
  c2 = c2
  None = None
  Gone = Gone
  Transient = Transient
  Posts = {p1}
  Post = p1
  Callers = {c1, c2}
  Entries = {"GetDataPreferVideo", "GetDataPreferVideoQuiet", "RefreshDataFromAuthHelper"}
  Items <- AllItems
  PublicItems <- AnyPublic
  AuthItems <- AnyAuth
  PublicRefresh = TRUE
  PublicNegativeTTL = 0
  SignedExpiry <- Unsigned
  FreshTTL = 1
  StaleTTL = 1
  NegativeTTL = 1
  SignedMargin = 0
  LegacyExpiries = {}
  Durable = TRUE
  ExpiryTies = FALSE
  MaxTime = 1
SYMMETRY CallerSymmetry
INVARIANTS
  StaleSurvivesFailure
  QuietStaysAnonymous
  AnswerNeverPoorer
