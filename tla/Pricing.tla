------------------------------ MODULE Pricing ------------------------------
(***************************************************************************)
(* Cost-based choice of a route (router/pricing.rs): the table of prices,    *)
(* which changes entry by entry, and a selection, which looks the candidates *)
(* up one by one and then takes the first of the best scores.               *)
(*                                                                         *)
(* One country; a network is NoNetwork or a name.  A price is [cost, quality,*)
(* delivery], the last two in percent.  One currency: the code compares costs *)
(* as numbers whatever theirs is.  A cost is not negative, though an i64 may  *)
(* be: LeastCost divides by the cost and one.  Scores are exact fractions    *)
(* <<numerator, denominator>> where the code has f64.                       *)
(***************************************************************************)
EXTENDS Integers, FiniteSets, FiniteSetsExt, Sequences, SequencesExt

CONSTANTS
    Offers,       \* the clusters a route may go to
    Networks,     \* networks of the country, with NoNetwork for none
    NoNetwork,
    Prices,       \* the prices a table may hold
    PriceMap,     \* the map load_from_map is given: sequence of [cluster, network, price],
                  \* network "default" for the default of the cluster
    Revenues      \* what a message may bring, when it is known

Price == [cost : Nat, quality : Nat, delivery : Nat]

ASSUME PricingAssumption ==
    /\ IsFiniteSet(Offers)
    /\ NoNetwork \in Networks
    /\ Prices \subseteq Price
    /\ PriceMap \in Seq([cluster : Offers, network : Networks \cup {"default"}, price : Price])
    /\ Revenues \subseteq Nat

NoRevenue == -1
CostStrategies == {"LeastCost", "QualityFirst", "Balanced", "MaxMargin"}

VARIABLES
    pricing,      \* PricingStore.pricing: set of [cluster, network, price], one per key
    defaults,     \* PricingStore.defaults: set of [cluster, price], one per cluster
    loading,      \* what load_from_map has still to enter
    choosing,     \* the selection: [at, strategy, network, revenue, todo, read, best]
    steady        \* history: no price has changed since the selection began

pr_vars == <<pricing, defaults, loading, choosing, steady>>

DefaultPrice == [cost |-> 10, quality |-> 90, delivery |-> 95]
NotChoosing == [at |-> "idle"]

PricingInit ==
    /\ pricing = {}
    /\ defaults = {}
    /\ loading = PriceMap
    /\ choosing = NotChoosing
    /\ steady = TRUE

EnterPrice(entry) ==
    /\ steady' = FALSE
    /\ IF entry.network = "default"
       THEN /\ defaults' = {d \in defaults : d.cluster # entry.cluster}
                              \cup {[cluster |-> entry.cluster, price |-> entry.price]}
            /\ UNCHANGED pricing
       ELSE /\ pricing' = {p \in pricing : <<p.cluster, p.network>> # <<entry.cluster, entry.network>>}
                             \cup {entry}
            /\ UNCHANGED defaults

\* load_from_map: every entry takes the lock for itself.
LoadFromMap ==
    /\ loading # <<>>
    /\ EnterPrice(Head(loading))
    /\ loading' = Tail(loading)
    /\ UNCHANGED choosing

SetPricing(c, n, price) ==
    /\ loading = <<>>
    /\ EnterPrice([cluster |-> c, network |-> n, price |-> price])
    /\ UNCHANGED <<loading, choosing>>

SetDefault(c, price) ==
    /\ loading = <<>>
    /\ EnterPrice([cluster |-> c, network |-> "default", price |-> price])
    /\ UNCHANGED <<loading, choosing>>

\* get_pricing, or the built-in price: network, country, default of the cluster.
get_pricing(c, n) ==
    LET for(m) == {p \in pricing : p.cluster = c /\ p.network = m}
        own == {d \in defaults : d.cluster = c}
        levels == <<for(n), for(NoNetwork), own, {[price |-> DefaultPrice]}>>
        found == levels[Min({i \in DOMAIN levels : levels[i] # {}})]
    IN (CHOOSE e \in found : TRUE).price
---------------------------------------------------------------------------
LeastCostScore(p) == <<1, p.cost + 1>>

\* RouteCandidate::calculate_score, times 100 or 1000 to keep percents and weights whole.
calculate_score(p) ==
    CASE choosing.strategy = "LeastCost" -> LeastCostScore(p)
      [] choosing.strategy = "QualityFirst" -> <<1000 * p.quality - p.cost, 1>>
      [] choosing.strategy = "Balanced" ->
             <<(4 * p.quality + 3 * p.delivery) * (p.cost + 10) + 3000, p.cost + 10>>
      [] choosing.strategy = "MaxMargin" ->
             IF choosing.revenue = NoRevenue THEN LeastCostScore(p)
             ELSE <<choosing.revenue - p.cost, 1>>

AtMost(a, b) == a[1] * b[2] <= b[1] * a[2]

BestRankedLast(read) ==
    read[Min({i \in DOMAIN read : \A j \in DOMAIN read :
                  AtMost(calculate_score(read[i].price), calculate_score(read[j].price))})].cluster

\* The sort by falling score is stable: the first candidate of the best score.
BestRanked(read) ==
    read[Min({i \in DOMAIN read : \A j \in DOMAIN read :
                  AtMost(calculate_score(read[j].price), calculate_score(read[i].price))})].cluster
---------------------------------------------------------------------------
\* select_route_with_strategy, entered with some order of the candidates.
BeginSelect(candidates, n, revenue, s) ==
    /\ choosing.at \in {"idle", "done"}
    /\ choosing' = [at |-> "read", strategy |-> s, network |-> n, revenue |-> revenue,
                    todo |-> candidates, read |-> <<>>, best |-> "none"]
    /\ steady' = TRUE
    /\ UNCHANGED <<pricing, defaults, loading>>

\* One turn of the filter_map.
ReadPrice ==
    /\ choosing.at = "read" /\ choosing.todo # <<>>
    /\ LET c == Head(choosing.todo) IN
       choosing' = [choosing EXCEPT
                       !.todo = Tail(@),
                       !.read = Append(@, [cluster |-> c, price |-> get_pricing(c, choosing.network)])]
    /\ UNCHANGED <<pricing, defaults, loading, steady>>

\* The scores, the sort, the first; None for no candidates.
Rank ==
    /\ choosing.at = "read" /\ choosing.todo = <<>>
    /\ choosing' = [choosing EXCEPT !.at = "done",
                                    !.best = IF choosing.read = <<>> THEN "none"
                                             ELSE BestRanked(choosing.read)]
    /\ UNCHANGED <<pricing, defaults, loading, steady>>

PricingNext ==
    \/ LoadFromMap
    \/ \E c \in Offers, p \in Prices : SetDefault(c, p) \/ \E n \in Networks : SetPricing(c, n, p)
    \/ \E candidates \in SetToSeqs(Offers) \cup {<<>>}, n \in Networks, r \in Revenues \cup {NoRevenue},
          s \in CostStrategies : BeginSelect(candidates, n, r, s)
    \/ ReadPrice
    \/ Rank

PricingSpec == PricingInit /\ [][PricingNext]_pr_vars
---------------------------------------------------------------------------
PricingTypeOK ==
    /\ \A p, q \in pricing : p.cluster = q.cluster /\ p.network = q.network => p = q
    /\ \A d, e \in defaults : d.cluster = e.cluster => d = e
    /\ choosing.at \in {"idle", "read", "done"}

\* Whatever the strategy, a selection that no price update met has not passed over an
\* offer that is at once cheaper, better and surer by the prices in force, and under
\* LeastCost nothing cheaper at all, nor nothing of a higher margin under MaxMargin
\* (get_pricing, calculate_score, select_route_with_strategy).
NothingBetterPassedOver ==
    choosing.at = "done" /\ choosing.best # "none" /\ steady =>
        LET price(c) == get_pricing(c, choosing.network)
            got == price(choosing.best)
        IN \A c \in Offers :
              /\ ~ (price(c).cost < got.cost /\ price(c).quality > got.quality
                                             /\ price(c).delivery > got.delivery)
              /\ choosing.strategy \in {"LeastCost", "MaxMargin"} => price(c).cost >= got.cost
===========================================================================
