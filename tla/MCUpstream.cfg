SPECIFICATION MCFairSpec
CONSTANTS
    Callers = {c1, c2, c3}
    FailureThreshold = 2
    SuccessThreshold = 2
    MaxConnections = 2
    UnhealthyThreshold = 2
    HealthyThreshold = 2
INVARIANTS NoMissedOpening NoMissedClosing PermitsAccounted
PROPERTIES BreakerIsProbed BreakerProbingEnds CallsEnd DeadEndpointIsRefused HealthFollows
