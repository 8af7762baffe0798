SPECIFICATION Spec
CONSTANTS
  Requests = {r1, r2}
  Sessions = {s1}
  Nobody = Nobody
  Subscribers <- MCSubscribers
  BusCapacity = 2
  Routes <- MCRoutes
  Concurrency = 1
  OtherTraffic = TRUE
  ResponseChannel = 1
  NoId = NoId
  MockId = MockId
  NoMessage = NoMessage
  MaxMessages = 1
  PrunePercent = 10
  MaxAttempts = 3
SYMMETRY MCSymmetry
INVARIANTS TypeOK OnePlaceAtATime SuccessIsBacked
PROPERTIES LostOnlyByOverflow
CHECK_DEADLOCK FALSE
