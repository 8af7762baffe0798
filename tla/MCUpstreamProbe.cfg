SPECIFICATION UpstreamFairSpec
CONSTANTS
    Callers = {c1, c2, c3}
    FailureThreshold = 2
    SuccessThreshold = 2
    MaxConnections = 2
    UnhealthyThreshold = 2
    HealthyThreshold = 2
PROPERTY EndpointIsProbed
