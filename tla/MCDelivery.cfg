SPECIFICATION Spec
CONSTANTS
  MessageIds = {m1, m2}
  SmscIds = {s1, s2}
  NoId = NoId
  MockId = MockId
  NoMessage = NoMessage
  MaxMessages = 1
  PrunePercent = 10
  MaxAttempts = 3
  Routes <- MCRoutes
  Concurrency = 1
  MaxRetries = 5
  QueryLimit = 1
  DlrChannel = 1
SYMMETRY MCSymmetry
INVARIANTS TypeOK OneSenderAtATime IdentifierIsTheAcceptances OutcomeIsTrue RetryQueueCoversRetrying
PROPERTIES FinalOutcomesStick KeepsPromise
CHECK_DEADLOCK FALSE
