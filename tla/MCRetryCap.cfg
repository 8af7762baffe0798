SPECIFICATION CapSpec
CONSTANTS
  MessageIds = {m1}
  SmscIds = {s1}
  NoId = NoId
  MockId = MockId
  NoMessage = NoMessage
  MaxMessages = 2
  PrunePercent = 10
  MaxAttempts = 3
  Routes <- CapRoutes
  Concurrency = 1
  MaxRetries = 5
  DlrChannel = 1
  QueryLimit = 1
INVARIANT RetriesAreCapped
CHECK_DEADLOCK FALSE
