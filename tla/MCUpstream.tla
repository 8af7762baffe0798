---------------------------- MODULE MCUpstream ----------------------------
(***************************************************************************)
(* The breaker on a small instance, used in the two ways its code offers:  *)
(* by callers that ask it and record every outcome themselves (the API of  *)
(* circuit_breaker.rs, as its tests use it), and by callers that come      *)
(* through the endpoint (Upstream), which record failures only.  A         *)
(* behaviour is of one kind from its first state to its last.              *)
(***************************************************************************)
EXTENDS Upstream

VARIABLE direct    \* the callers use the breaker themselves

endpoint_vars == <<up, health_vars, pool_vars, ep_pc>>
mc_vars == <<vars, direct>>

\* Behind a breaker that is used directly there is no endpoint to go down.
MCInit == Init /\ direct \in BOOLEAN /\ (direct => up)

Directly(A) == direct /\ A /\ UNCHANGED <<endpoint_vars, direct>>
ThroughEndpoint(A) == ~direct /\ A /\ UNCHANGED direct

MCNext == Directly(Next) \/ ThroughEndpoint(UpstreamNext)

\* The fairness of FairSpec and of UpstreamFairSpec.
MCFairSpec ==
    /\ MCInit /\ [][MCNext]_mc_vars
    /\ WF_mc_vars(Directly(OpenTimeoutPasses))
    /\ WF_mc_vars(ThroughEndpoint(PerformHealthCheck))
    /\ WF_mc_vars(ThroughEndpoint(Clock))
    /\ \A c \in Callers :
        /\ WF_mc_vars(Directly(CallerNext(c)))
        /\ WF_mc_vars(ThroughEndpoint(ep_pc[c] # "connecting" /\ GetConnection(c)))

\* An open circuit is eventually probed or closed again (allow_request after
\* open_timeout), as long as callers keep asking it: the breaker by itself does what the
\* endpoint's is_healthy keeps it from doing (EndpointIsProbed).
BreakerIsProbed == direct => OpenIsProbed

\* Probing ends: outcomes recorded in the half-open state close or reopen the circuit
\* (record_success, record_failure), whichever callers race to record them.
BreakerProbingEnds == direct => ProbingEnds
===========================================================================
