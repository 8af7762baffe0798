----------------------------- MODULE Upstream -----------------------------
(***************************************************************************)
(* How callers reach an SMSC: Cluster::get_connection (cluster/mod.rs),    *)
(* Endpoint (cluster/endpoint.rs), ConnectionPool (cluster/pool.rs) and    *)
(* the HealthChecker (cluster/health.rs), around the circuit breaker of    *)
(* CircuitBreaker.                                                         *)
(*                                                                         *)
(* The cluster has one endpoint, so every load balancer selects it when it *)
(* is healthy.  The callers are the forwarding tasks; each asks for a      *)
(* connection, uses it for one submit_sm and drops it.                     *)
(*                                                                         *)
(* No caller calls Endpoint::return_connection, and nothing calls          *)
(* ConnectionPool::warm: neither is here, and the pool's list of idle      *)
(* connections, which only warm fills, is always empty.  Left out:         *)
(* active_connections, total_requests and connections_created, counters    *)
(* this path does not read, and the end of the health checks at shutdown.  *)
(* Health checks run once start_health_checks has been called, which the   *)
(* server does not do.                                                     *)
(***************************************************************************)
EXTENDS CircuitBreaker, FiniteSets

CONSTANTS
    MaxConnections,      \* PoolConfig.max_connections
    UnhealthyThreshold,  \* failed checks before the endpoint is unhealthy
    HealthyThreshold     \* good checks before it is healthy again

ASSUME UpstreamAssumption ==
    /\ MaxConnections \in Nat \ {0}
    /\ UnhealthyThreshold \in Nat \ {0}
    /\ HealthyThreshold \in Nat \ {0}

VARIABLES
    up,           \* the SMSC accepts connections and answers in time
    checking,     \* start_health_checks has been called
    healthy,      \* Endpoint.healthy, and with it Endpoint.state
    bad_checks,   \* HealthChecker.consecutive_failures
    good_checks,  \* HealthChecker.consecutive_successes
    permits,      \* free permits of the pool's semaphore
    in_use,       \* ConnectionPoolInner.connections_in_use
    ep_pc         \* how far each caller has come in get_connection: outside, between the two
                  \* reads of each is_healthy, asking the breaker, waiting for a permit,
                  \* connecting, using a connection, or recording that it got none

health_vars == <<checking, healthy, bad_checks, good_checks>>
pool_vars == <<permits, in_use>>
vars == <<cb_vars, up, health_vars, pool_vars, ep_pc>>

Holding == {c \in Callers : ep_pc[c] \in {"connecting", "using"}}

Init ==
    /\ with_config
    /\ up \in BOOLEAN
    /\ checking = FALSE /\ healthy = TRUE /\ bad_checks = 0 /\ good_checks = 0
    /\ permits = MaxConnections /\ in_use = 0
    /\ ep_pc = [c \in Callers |-> "out"]

EpGoto(c, s) == ep_pc' = [ep_pc EXCEPT ![c] = s]
---------------------------------------------------------------------------
(* Cluster::get_connection and Endpoint::get_connection *)

\* is_healthy reads the flag, first for the cluster's filter, then in the endpoint ...
ReadsFlag(c) ==
    /\ ep_pc[c] \in {"out", "selected"}
    /\ EpGoto(c, IF ~healthy THEN "out" ELSE IF ep_pc[c] = "out" THEN "filter" ELSE "check")
    /\ UNCHANGED <<cb_vars, up, health_vars, pool_vars>>

\* ... and then asks the breaker whether it is closed.
ReadsCircuit(c) ==
    /\ ep_pc[c] \in {"filter", "check"}
    /\ EpGoto(c, IF cb_state # "Closed" THEN "out"
                 ELSE IF ep_pc[c] = "filter" THEN "selected" ELSE "ask")
    /\ UNCHANGED <<cb_vars, up, health_vars, pool_vars>>

\* The endpoint asks the breaker, which may still refuse.
Asks(c) ==
    /\ \/ ep_pc[c] = "ask" /\ AllowRequest(c)
       \/ ep_pc[c] = "asked" /\ (ShouldAttemptReset(c) \/ TransitionToHalfOpen(c))
    /\ EpGoto(c, IF cb_pc'[c] = "idle" THEN "out" ELSE "asked")
    /\ UNCHANGED <<up, health_vars, pool_vars>>

\* ConnectionPool::get has a permit.
AcquiresPermit(c) ==
    /\ ep_pc[c] = "asked" /\ cb_pc[c] = "granted" /\ permits > 0
    /\ permits' = permits - 1
    /\ EpGoto(c, "connecting")
    /\ UNCHANGED <<cb_vars, up, health_vars, in_use>>

WaitsOn(c) ==
    /\ ep_pc[c] = "asked" /\ cb_pc[c] = "granted" /\ permits = 0
    /\ UNCHANGED vars

\* acquire_timeout passes without one.
AcquireTimesOut(c) ==
    /\ ep_pc[c] = "asked" /\ cb_pc[c] = "granted" /\ permits = 0
    /\ EpGoto(c, "failed")
    /\ UNCHANGED <<cb_vars, up, health_vars, pool_vars>>

\* create_connection succeeds.
Connects(c) ==
    /\ ep_pc[c] = "connecting" /\ up
    /\ in_use' = in_use + 1
    /\ EpGoto(c, "using")
    /\ UNCHANGED <<cb_vars, up, health_vars, permits>>

ConnectFailsKeepsPermit(c) ==
    /\ ep_pc[c] = "connecting" /\ ~up
    /\ EpGoto(c, "failed")
    /\ UNCHANGED <<cb_vars, up, health_vars, pool_vars>>

\* create_connection fails: get returns and its permit is released.
ConnectFails(c) ==
    /\ ep_pc[c] = "connecting" /\ ~up
    /\ permits' = permits + 1
    /\ EpGoto(c, "failed")
    /\ UNCHANGED <<cb_vars, up, health_vars, in_use>>

FailureGoesUnrecorded(c) ==
    /\ ep_pc[c] = "failed"
    /\ Goto(c, "idle") /\ EpGoto(c, "out")
    /\ UNCHANGED <<cb_state, failures, successes, opened_at, up, health_vars, pool_vars>>

\* No connection, whatever the reason: record_failure.
RecordsFailure(c) ==
    /\ ep_pc[c] = "failed"
    /\ RecordFailure(c) \/ AddFailure(c) \/ TransitionToOpen(c)
    /\ EpGoto(c, IF cb_pc'[c] = "idle" THEN "out" ELSE "failed")
    /\ UNCHANGED <<up, health_vars, pool_vars>>

DropKeepsCount(c) ==
    /\ ep_pc[c] = "using"
    /\ permits' = permits + 1
    /\ Goto(c, "idle") /\ EpGoto(c, "out")
    /\ UNCHANGED <<cb_state, failures, successes, opened_at, up, health_vars, in_use>>

\* The submission has ended, by an answer or its timeout: the connection is dropped, and
\* the breaker hears nothing.
Drops(c) ==
    /\ ep_pc[c] = "using"
    /\ permits' = permits + 1 /\ in_use' = in_use - 1
    /\ Goto(c, "idle") /\ EpGoto(c, "out")
    /\ UNCHANGED <<cb_state, failures, successes, opened_at, up, health_vars>>

GetConnection(c) ==
    \/ ReadsFlag(c) \/ ReadsCircuit(c) \/ Asks(c) \/ AcquiresPermit(c) \/ AcquireTimesOut(c)
    \/ Connects(c) \/ ConnectFails(c) \/ RecordsFailure(c) \/ Drops(c)
---------------------------------------------------------------------------
(* Health checks *)

start_health_checks ==
    /\ ~checking
    /\ checking' = TRUE
    /\ UNCHANGED <<cb_vars, up, healthy, bad_checks, good_checks, pool_vars, ep_pc>>

\* The counters are compared with their thresholds only, so they stop there.
Count(n, threshold) == IF n < threshold THEN n + 1 ELSE n

HealthyIsNotRestored ==
    /\ checking
    /\ IF up
       THEN /\ bad_checks' = 0 /\ good_checks' = Count(good_checks, HealthyThreshold)
            /\ healthy' = (healthy /\ good_checks' >= HealthyThreshold)
       ELSE /\ good_checks' = 0 /\ bad_checks' = Count(bad_checks, UnhealthyThreshold)
            /\ healthy' = (healthy /\ bad_checks' < UnhealthyThreshold)
    /\ UNCHANGED <<cb_vars, up, checking, pool_vars, ep_pc>>

\* perform_health_check connects, counts and, at a threshold, sets the state.
PerformHealthCheck ==
    /\ checking
    /\ IF up
       THEN /\ bad_checks' = 0 /\ good_checks' = Count(good_checks, HealthyThreshold)
            /\ healthy' = (healthy \/ good_checks' >= HealthyThreshold)
       ELSE /\ good_checks' = 0 /\ bad_checks' = Count(bad_checks, UnhealthyThreshold)
            /\ healthy' = (healthy /\ bad_checks' < UnhealthyThreshold)
    /\ UNCHANGED <<cb_vars, up, checking, pool_vars, ep_pc>>

\* The SMSC goes down or comes back.
SmscChanges ==
    /\ up' = ~up
    /\ UNCHANGED <<cb_vars, health_vars, pool_vars, ep_pc>>

Clock == OpenTimeoutPasses /\ UNCHANGED <<up, health_vars, pool_vars, ep_pc>>

UpstreamNext ==
    \/ start_health_checks \/ PerformHealthCheck \/ SmscChanges \/ Clock
    \/ \E c \in Callers : GetConnection(c)

UpstreamSpec == Init /\ [][UpstreamNext]_vars

\* Messages keep coming, the checks' interval ticks, time passes, and a caller goes on
\* from every step but one: Client::connect has no timeout of its own (acquire_timeout
\* bounds the wait for a permit, request_timeout the submission), so a connect to an SMSC
\* that stays silent may last for ever, with its permit.
UpstreamFairSpec ==
    /\ UpstreamSpec
    /\ WF_vars(PerformHealthCheck) /\ WF_vars(Clock)
    /\ \A c \in Callers : WF_vars(ep_pc[c] # "connecting" /\ GetConnection(c))
---------------------------------------------------------------------------
(* Properties *)

\* Every permit is free or held by a caller that connects or uses a connection, and
\* connections_in_use counts the latter: no error path of get keeps a permit.
PermitsAccounted ==
    /\ permits + Cardinality(Holding) = MaxConnections
    /\ in_use = Cardinality({c \in Callers : ep_pc[c] = "using"})

\* A caller waits for nobody but the SMSC: though others hang in their connects for ever
\* and keep all the permits, it gets to its own connect or is turned away.
CallsEnd ==
    \A c \in Callers : ep_pc[c] = "selected" ~> ep_pc[c] \in {"connecting", "using", "out"}

\* The operating system refuses or times out every connect in the end.
ConnectsEnd == \A c \in Callers : []<>(ep_pc[c] # "connecting")

\* Of an SMSC that stays down and whose connects end, is_healthy is false in the end and
\* from then on, with health checks or without: the failures of get_connection alone take
\* the circuit out of Closed, and no caller that passed is_healthy before brings it back.
DeadEndpointIsRefused ==
    ConnectsEnd /\ <>[](~up) => <>[](~healthy \/ cb_state # "Closed")

\* The flag follows the SMSC once it is checked: one that stays down is marked unhealthy,
\* one that stays up healthy, for good, whatever the counters have counted before.
HealthFollows == /\ <>[]up => <>[]healthy
                 /\ <>checking /\ <>[](~up) => <>[](~healthy)

\* Violated: what the breaker's open_timeout promises, "Time to wait before transitioning
\* from open to half-open": it is not left though every connect ends and messages come.
EndpointIsProbed == ConnectsEnd => (cb_state = "Open" ~> cb_state # "Open")
===========================================================================
