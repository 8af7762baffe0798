SPECIFICATION Spec
CONSTANTS
  Requests = {r1}
  Sessions = {s1}
  Nobody = Nobody
  Subscribers <- MCSubscribers
  BusCapacity = 4
  Routes <- MCRoutes
  Concurrency = 1
  OtherTraffic = FALSE
  ResponseChannel = 1
  NoId = NoId
  MockId = MockId
  NoMessage = NoMessage
  MaxMessages = 1
  PrunePercent = 10
  MaxAttempts = 3
INVARIANT FailureIsRecorded
CHECK_DEADLOCK FALSE
