------------------------------ MODULE Balancer ------------------------------
(***************************************************************************)
(* How a cluster chooses among its endpoints: Cluster::get_connection and    *)
(* the strategies of cluster/lb.rs.                                         *)
(*                                                                         *)
(* Endpoints are numbered by their place in the configuration.  A caller     *)
(* lists the healthy ones, lets the strategy choose from its list, and then  *)
(* asks the chosen endpoint for a connection; health may change in between.  *)
(* Loads only grow, because nothing calls Endpoint::return_connection, so    *)
(* reading them one after the other or all at once gives the same bounds.    *)
(***************************************************************************)
EXTENDS Selection, FiniteSetsExt, SequencesExt

CONSTANTS
    Pickers,     \* tasks that call Cluster::get_connection
    Weights,     \* the configured weight of each endpoint
    Span,        \* bound: the counter wraps at Span (2^32 after `as u32`, 2^64 without)
    MaxLoad      \* bound: connections counted per endpoint

ASSUME BalancerAssumption ==
    /\ IsFiniteSet(Pickers)
    /\ Weights \in Seq(Nat)
    /\ Span \in Nat \ {0}
    /\ MaxLoad \in Nat

VARIABLES
    strategy,    \* ClusterConfig.load_balancer
    ticket,      \* the strategy's counter
    up,          \* endpoints that is_healthy() answers for
    load,        \* Endpoint.active_connections
    pick,        \* what each caller does: [at, list, got]
    tally,       \* history: choices of each endpoint from an unchanged list
    chosen,      \* history: choices counted in tally
    level        \* history: the health of no endpoint has changed yet

lb_vars == <<strategy, ticket, up, load, pick, tally, chosen, level>>

Endpoints == DOMAIN Weights
total_weight == Total(Weights)
Counting == {"round_robin", "consistent_hash"}
Strategies == Counting \cup {"weighted", "least_conn", "weighted_least_conn", "random", "p2c"}
NotPicking == [at |-> "idle", list |-> <<>>, got |-> 0]
NoTally == [e \in Endpoints |-> 0]

\* The healthy endpoints, in the order of the configuration.
Healthy == Ascending(up)

\* Cluster::new and the constructors: counters at zero, every endpoint presumed healthy.
BalancerInit ==
    /\ strategy \in Strategies
    /\ ticket = 0
    /\ up = Endpoints
    /\ load = [e \in Endpoints |-> 0]
    /\ pick = [p \in Pickers |-> NotPicking]
    /\ tally = NoTally /\ chosen = 0
    /\ level = TRUE
---------------------------------------------------------------------------
\* RoundRobin, and ConsistentHash::select, whose ring nobody asks.
RoundRobin(list) == {list[1 + (ticket % Len(list))]}

\* The first i weights of the configuration (a list of healthy endpoints is never longer).
Accumulated(i) == RunningTotal(Weights)[i]

\* Weights go by the place in the list of healthy endpoints, the total is that of all.
Weighted(list) ==
    LET reached == {i \in DOMAIN list : ticket % total_weight < Accumulated(i)} IN
    IF reached = {} THEN {list[1]} ELSE {list[Min(reached)]}

WeightFromOne(i) == IF Weights[i] = 0 THEN 1 ELSE Weights[i]

\* min_by and min_by_key return the first of the least.
FirstLeast(list, AtMost(_, _)) ==
    {list[Min({i \in DOMAIN list : \A j \in DOMAIN list : AtMost(i, j)})]}

BusiestConnections(list) == FirstLeast(list, LAMBDA i, j : load[list[i]] >= load[list[j]])

LeastConnections(list) == FirstLeast(list, LAMBDA i, j : load[list[i]] <= load[list[j]])

WeightedLeastConn(list) ==
    FirstLeast(list, LAMBDA i, j : load[list[i]] * WeightFromOne(j) <= load[list[j]] * WeightFromOne(i))

\* The xorshift of Random and of PowerOfTwoChoices may give any number.
Random(list) == Range(list)

PowerOfTwoChoices(list) ==
    IF Len(list) = 1 THEN Range(list)
    ELSE LET n == Len(list) IN
         {LET a == list[1 + i]
              b == list[1 + ((r + i + 1) % n)]
          IN IF load[a] <= load[b] THEN a ELSE b : i \in 0 .. n - 1, r \in 0 .. n - 2}

\* LoadBalancer::select on a list that is not empty: what it may return, 0 for the None
\* of Weighted when the weights are all zero.
MayReturn(list) ==
    CASE strategy \in Counting -> RoundRobin(list)
      [] strategy = "weighted" -> IF total_weight = 0 THEN {0} ELSE Weighted(list)
      [] strategy = "least_conn" -> LeastConnections(list)
      [] strategy = "weighted_least_conn" -> WeightedLeastConn(list)
      [] strategy = "random" -> Random(list)
      [] strategy = "p2c" -> PowerOfTwoChoices(list)

CountTwice == ticket' = IF strategy \in Counting \cup {"weighted"} THEN (ticket + 2) % Span ELSE ticket

\* fetch_add.  The counters of the random strategies only feed the xorshift.
CountUp ==
    ticket' = IF strategy \in Counting \cup {"weighted"} THEN (ticket + 1) % Span ELSE ticket

\* History: choices by the counter are counted until the list or the round changes.
Counted(list, e) ==
    IF list = Healthy /\ ticket' > ticket
    THEN tally' = [tally EXCEPT ![e] = @ + 1] /\ chosen' = chosen + 1
    ELSE tally' = NoTally /\ chosen' = 0
---------------------------------------------------------------------------
\* Cluster::get_connection: the list of healthy endpoints; an empty one ends the call.
ListHealthy(p) ==
    /\ pick[p].at = "idle"
    /\ up # {}
    /\ pick' = [pick EXCEPT ![p] = [at |-> "select", list |-> Healthy, got |-> 0]]
    /\ UNCHANGED <<strategy, ticket, up, load, tally, chosen, level>>

Select(p) ==
    LET list == pick[p].list IN
    /\ pick[p].at = "select"
    /\ \E e \in MayReturn(list) :
          /\ pick' = [pick EXCEPT ![p] = IF e = 0 THEN NotPicking
                                         ELSE [at |-> "connect", list |-> <<>>, got |-> e]]
          /\ IF e = 0 THEN UNCHANGED ticket ELSE CountUp
          /\ Counted(list, e)
    /\ UNCHANGED <<strategy, up, load, level>>

\* Endpoint::get_connection: its own look at the health, then the pool, which may fail.
Connect(p) ==
    LET e == pick[p].got IN
    /\ pick[p].at = "connect"
    /\ pick' = [pick EXCEPT ![p] = NotPicking]
    /\ \/ e \in up /\ load[e] < MaxLoad /\ load' = [load EXCEPT ![e] = @ + 1]
       \/ UNCHANGED load
    /\ UNCHANGED <<strategy, ticket, up, tally, chosen, level>>

\* A health check or the circuit breaker changes what is_healthy answers.
HealthChanges(e) ==
    /\ up' = IF e \in up THEN up \ {e} ELSE up \cup {e}
    /\ tally' = NoTally /\ chosen' = 0
    /\ level' = FALSE
    /\ UNCHANGED <<strategy, ticket, load, pick>>

BalancerNext ==
    \/ \E p \in Pickers : ListHealthy(p) \/ Select(p) \/ Connect(p)
    \/ \E e \in Endpoints : HealthChanges(e)

BalancerSpec == BalancerInit /\ [][BalancerNext]_lb_vars
---------------------------------------------------------------------------
BalancerTypeOK ==
    /\ strategy \in Strategies
    /\ ticket \in 0 .. Span - 1
    /\ up \subseteq Endpoints
    /\ load \in [Endpoints -> 0..MaxLoad]
    /\ \A p \in Pickers : pick[p].at \in {"idle", "select", "connect"}

Rounds(length) == chosen \div length
RoundsBegun(length) == (chosen + length - 1) \div length

\* As long as the list of healthy endpoints stays the same and the counter does not wrap,
\* callers that interleave are spread exactly: in every round of as many choices as there
\* are endpoints each is chosen once (RoundRobin), and with all of them healthy each is
\* chosen as often as its weight in a round of the total (Weighted).
FairShares ==
    /\ strategy = "round_robin" /\ up # {} =>
          \A e \in up : tally[e] \in Rounds(Cardinality(up)) .. RoundsBegun(Cardinality(up))
    /\ strategy = "weighted" /\ up = Endpoints /\ total_weight > 0 =>
          \A e \in up : tally[e] \in (Rounds(total_weight) * Weights[e]) .. (RoundsBegun(total_weight) * Weights[e])

\* While no endpoint has been lost, the strategies that look at the connections keep them
\* in proportion to the weights, up to one for each caller that has chosen and not yet
\* connected (LeastConnections, WeightedLeastConn): failing connections do not add up.
LevelLoads ==
    LET weight(e) == IF strategy = "least_conn" THEN 1 ELSE WeightFromOne(e) IN
    level /\ strategy \in {"least_conn", "weighted_least_conn"} =>
        \A e, f \in Endpoints :
            \/ load[f] = MaxLoad
            \/ load[e] * weight(f) <= load[f] * weight(e) + Cardinality(Pickers) * weight(f)

\* What the strategies promise, under concurrent callers: exact shares by the counter, level
\* loads by the connections.
ChoicesSpread == FairShares /\ LevelLoads
=============================================================================
