SPECIFICATION Spec
CONSTANTS
  None = None
  Nothing = Nothing
  NoValue = NoValue
  StixTypes <- TypesStix
  StixDefault = None
  Shape <- ShapeOf
  Author = "us"
  MaxCount = 4
  MispTypes <- TypesMisp
  MispDefault = None
  RequireToIds = TRUE
  HashedNamespace <- Hashes
  StoreValues = TRUE
  Capacity = 2
  MaxLimit = 5
  Hour = 2
  Day = 4
  HourlyBuckets = 2
  DailyBuckets = 2
  Exposed <- Exposing
  RateLimit = 1
  Alphabet <- Segments
  FreeTextAbove = 1
  Each = Each
  Scene <- Scenes
  Thread = {t1, t2}
  Held <- HeldHere
  PollLimit = 5
  MaxQueries = 5
  MaxRestarts = 1
INVARIANTS FeedRecorded ReportsTrue   RateBounded BrowsedAll
CHECK_DEADLOCK FALSE
