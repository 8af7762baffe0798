SPECIFICATION FairSpec
CONSTANTS
  Requests = {r1, r2}
  Sessions = {s1}
  Nobody = Nobody
  Subscribers <- MCSubscribers
  BusCapacity = 1
  Routes <- LiveRoutes
  Concurrency = 1
  OtherTraffic = FALSE
  ResponseChannel = 1
  NoId = NoId
  MockId = MockId
  NoMessage = NoMessage
  MaxMessages = 1
  PrunePercent = 10
  MaxAttempts = 3
PROPERTIES EveryRequestIsFinished
CHECK_DEADLOCK FALSE
