SPECIFICATION FairSpec
CONSTANTS
  MessageIds = {m1, m2}
  SmscIds = {s1}
  NoId = NoId
  MockId = MockId
  NoMessage = NoMessage
  MaxMessages = 2
  PrunePercent = 10
  MaxAttempts = 3
  Routes <- LiveRoutes
  Concurrency = 1
  MaxRetries = 5
  DlrChannel = 1
  QueryLimit = 1
PROPERTIES RequestsAreAnswered EventuallySettled
CHECK_DEADLOCK FALSE
