------------------------------ MODULE Routing ------------------------------
(***************************************************************************)
(* The router: matchers (router/matcher.rs), routes by priority and weighted *)
(* traffic splits (router/router.rs).                                       *)
(*                                                                         *)
(* An optional field is a field the record may lack.  A text is a sequence   *)
(* of digits, a regular expression the set of texts it matches.             *)
(***************************************************************************)
EXTENDS Selection, FiniteSetsExt, SequencesExt

CONSTANTS
    RouteTables,  \* the lists of routes a configuration may hold
    Contexts,     \* the messages to route: MatchContext
    Times,        \* instants: [day, mins]
    SplitSpan     \* bound: a split's counter wraps at SplitSpan (2^32 after `as u32`)

\* What a message may show to the matchers, and what a route may ask for.
MatchContext == {"destination", "source", "sender_id", "system_id", "service_type", "esm_class", "data_coding"}
RouteMatch == MatchContext \cup {"time_window", "prefix", "regex"}

ASSUME RoutingAssumption ==
    /\ SplitSpan \in Nat \ {0}
    /\ \A ctx \in Contexts : "destination" \in DOMAIN ctx /\ DOMAIN ctx \subseteq MatchContext
    /\ \A table \in RouteTables :
          /\ table \in Seq(Range(table))
          /\ \A i \in DOMAIN table :
                /\ table[i].priority \in Int /\ DOMAIN table[i].match \subseteq RouteMatch
                /\ "split" \in DOMAIN table[i] =>
                      /\ table[i].split \in Seq(Range(table[i].split))
                      /\ \A k \in DOMAIN table[i].split : table[i].split[k].weight \in Nat

VARIABLES
    routes,       \* Router.routes: compiled, sorted by priority
    turn,         \* the counter of each route's split
    moment,       \* the time, for the time windows
    routed,       \* history: the clusters each split has chosen since its counter was 0
    verdict       \* history: the last message and what came of it

rt_vars == <<routes, turn, moment, routed, verdict>>

Has(record, field) == field \in DOMAIN record
NoMatcher == [kind |-> "None"]
NoVerdict == [route |-> 0]

Prefix(p) == IF p = <<>> THEN [kind |-> "Any"] ELSE [kind |-> "Prefix", arg |-> p]

\* MatcherKind::from_condition: the first of any, exact, regex and prefix that is given.
from_condition(c) ==
    IF Has(c, "any") /\ c.any THEN [kind |-> "Any"]
    ELSE IF Has(c, "exact") THEN [kind |-> "Exact", arg |-> c.exact]
    ELSE IF Has(c, "regex") THEN [kind |-> "Regex", arg |-> c.regex]
    ELSE IF Has(c, "prefix") THEN Prefix(c.prefix)
    ELSE NoMatcher

\* CompiledMatcher::matches.
Accepts(m, value) ==
    CASE m.kind = "Any" -> TRUE
      [] m.kind = "Prefix" -> IsPrefix(m.arg, value)
      [] m.kind = "Regex" -> value \in m.arg
      [] m.kind = "Exact" -> value = m.arg

\* time_window_matches: the start counts, the end does not; start after end is overnight.
\* An unreadable start or end (-1) never matches.
time_window_matches(w, at) ==
    /\ at.day \in w.days
    /\ w.start >= 0 /\ w.end >= 0
    /\ IF w.start <= w.end THEN at.mins >= w.start /\ at.mins < w.end
       ELSE at.mins >= w.start \/ at.mins < w.end

\* The matchers compile_route builds.  A destination without any of its forms leaves the
\* destination free and hides the older prefix and regex.
Matchers(m) ==
    LET destination ==
            IF Has(m, "destination") THEN from_condition(m.destination)
            ELSE IF Has(m, "prefix") THEN Prefix(m.prefix)
            ELSE IF Has(m, "regex") THEN [kind |-> "Regex", arg |-> m.regex]
            ELSE NoMatcher
        matcher(f) ==
            CASE f = "destination" -> destination
              [] f \in {"source", "sender_id"} ->
                     IF Has(m, f) THEN from_condition(m[f]) ELSE NoMatcher
              [] f = "data_coding" -> IF Has(m, f) THEN [kind |-> "Regex", arg |-> m[f]] ELSE NoMatcher
              [] OTHER -> IF Has(m, f) THEN [kind |-> "Exact", arg |-> m[f]] ELSE NoMatcher
        given == {f \in MatchContext : matcher(f) # NoMatcher}
    IN [f \in given |-> matcher(f)]

\* Matcher::matches_context: every condition, on a field the message must have.
matches_context(r, ctx, at) ==
    /\ \A f \in DOMAIN r.conditions : Has(ctx, f) /\ Accepts(r.conditions[f], ctx[f])
    /\ \A w \in r.windows : time_window_matches(w, at)

\* compile_route, for a configuration that validate has let through: a split or a cluster.
compile_route(c, place) ==
    [name |-> c.name, place |-> place, priority |-> c.priority,
     conditions |-> Matchers(c.match),
     windows |-> IF Has(c.match, "time_window") THEN {c.match.time_window} ELSE {},
     target |-> IF Has(c, "split") THEN [split |-> c.split] ELSE [cluster |-> c.cluster]]

Unsorted(table) == [i \in DOMAIN table |-> compile_route(table[i], i)]

\* Router::new: sort_by_key is stable, so routes of one priority keep their order.
Compiled(table) ==
    LET order == SortByKey([i \in DOMAIN table |-> table[i].priority])
    IN [k \in DOMAIN order |-> compile_route(table[order[k]], order[k])]

Shares(split) == [k \in DOMAIN split |-> split[k].weight]
SharesOf(split, c) == [k \in DOMAIN split |-> IF split[k].cluster = c THEN split[k].weight ELSE 0]
SplitTotal(split) == Total(Shares(split))
Cumulative(split, k) == RunningTotal(Shares(split))[k]
WeightOf(split, c) == Total(SharesOf(split, c))

InclusiveSelect(split, count) ==
    split[Min({k \in DOMAIN split : count % SplitTotal(split) <= Cumulative(split, k)})].cluster

\* WeightedSplit::select, of a split whose total is not zero.
SplitSelect(split, count) ==
    split[Min({k \in DOMAIN split : count % SplitTotal(split) < Cumulative(split, k)})].cluster

Fresh == [r \in DOMAIN routes |-> 0]
NothingSent == [r \in DOMAIN routes |-> <<>>]
---------------------------------------------------------------------------
\* Router::new, at the start and at every reload: counters start again at zero.
NewRouter(table) ==
    /\ routes' = Compiled(table)
    /\ turn' = Fresh'
    /\ routed' = NothingSent'
    /\ verdict' = NoVerdict
    /\ UNCHANGED moment

RoutingInit ==
    /\ \E table \in RouteTables : routes = Compiled(table)
    /\ turn = Fresh
    /\ routed = NothingSent
    /\ verdict = NoVerdict
    /\ moment \in Times

\* route_context: the first route that matches decides, also when its split has no weight
\* and the answer is None.
route_context(ctx) ==
    LET matching == {k \in DOMAIN routes : matches_context(routes[k], ctx, moment)}
        r == IF matching = {} THEN 0 ELSE Min(matching)
    IN /\ verdict' = [route |-> r, ctx |-> ctx, at |-> moment]
       /\ IF r # 0 /\ Has(routes[r].target, "split") /\ SplitTotal(routes[r].target.split) > 0
          THEN LET cluster == SplitSelect(routes[r].target.split, turn[r]) IN
               /\ turn' = [turn EXCEPT ![r] = (@ + 1) % SplitSpan]
               /\ routed' = [routed EXCEPT ![r] = Append(IF turn[r] = 0 THEN <<>> ELSE @, cluster)]
          ELSE UNCHANGED <<turn, routed>>

RouteMessage(ctx) ==
    /\ route_context(ctx)
    /\ UNCHANGED <<routes, moment>>

TimePasses ==
    /\ moment' \in Times \ {moment}
    /\ UNCHANGED <<routes, turn, routed, verdict>>

RoutingNext ==
    \/ \E table \in RouteTables : NewRouter(table)
    \/ \E ctx \in Contexts : RouteMessage(ctx)
    \/ TimePasses

RoutingSpec == RoutingInit /\ [][RoutingNext]_rt_vars
---------------------------------------------------------------------------
RoutingTypeOK ==
    /\ moment \in Times
    /\ \A r \in DOMAIN routes : turn[r] \in 0 .. SplitSpan - 1 /\ Len(routed[r]) <= SplitSpan

\* The route that decides is one that matches the message at that moment, and no matching
\* route has a lower priority number, nor the same one earlier in the configuration; a
\* message none of the routes matches is the only one without a route (Router::new, route_context).
BestRouteDecides ==
    "ctx" \in DOMAIN verdict =>
        LET matching == {k \in DOMAIN routes : matches_context(routes[k], verdict.ctx, verdict.at)} IN
        IF verdict.route = 0 THEN matching = {}
        ELSE LET best == routes[verdict.route] IN
             /\ verdict.route \in matching
             /\ \A k \in matching :
                   \/ best.priority < routes[k].priority
                   \/ best.priority = routes[k].priority /\ best.place <= routes[k].place

\* A split keeps its promise at every moment between two wraps of its counter: after n
\* choices every cluster has had its weight for each whole round, and no cluster more than
\* its weight for each round begun (WeightedSplit::select).
SplitShares ==
    \A r \in DOMAIN routes :
        routed[r] # <<>> =>
            LET split == routes[r].target.split
                n == Len(routed[r])
                had(c) == Cardinality({i \in DOMAIN routed[r] : routed[r][i] = c})
            IN \A k \in DOMAIN split :
                  LET w == WeightOf(split, split[k].cluster)
                      t == SplitTotal(split)
                  IN had(split[k].cluster) \in (n \div t) * w .. ((n + t - 1) \div t) * w

\* A message goes where the table in force says: by the best route, and within a split by its
\* weights, also across reloads of the table and changes of the hour.
RoutedAsConfigured == BestRouteDecides /\ SplitShares
===========================================================================
