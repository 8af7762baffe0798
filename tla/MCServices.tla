----------------------------- MODULE MCServices -----------------------------
(***************************************************************************)
(* The parts that Pipeline and Delivery call and leave open, each on a small *)
(* instance of its own.  They share no state, so one run checks them side by *)
(* side: a behaviour picks a part and moves only that.                      *)
(***************************************************************************)
EXTENDS PersistentStore, Scheduler, EsmeStore, RateLimiter, Balancer, Routing, Pricing,
        Firewall, MessageFilter, Configuration, TLC

CONSTANT Parts      \* the parts a run is about

ASSUME PartsAssumption ==
    Parts \subseteq {"persistent", "scheduler", "esmes", "limiter", "balancer", "routing", "pricing",
                     "firewall", "filter", "configuration"}

VARIABLE part       \* the part that moves

svc_vars == <<part, ps_vars, sc_vars, es_vars, rl_vars, lb_vars, rt_vars, pr_vars, fw_vars, mf_vars, cf_vars>>

\* Every part starts in a state of its own; one that will not move, in a fixed one.
ServicesInit ==
    /\ part \in Parts
    /\ open /\ new /\ EsmeInit /\ RateInit /\ PricingInit
    /\ BalancerInit /\ (part # "balancer" => strategy = "random")
    /\ RoutingInit /\ (part # "routing" => moment = CHOOSE t \in Times : TRUE)
                   /\ (part # "routing" => routes = Compiled(CHOOSE t \in RouteTables : TRUE))
    /\ FirewallInit /\ (part # "firewall" => fw = from_config(CHOOSE c \in FirewallConfigs : ConfigCompiles(c)))
    /\ MessageFilterInit /\ (part # "filter" => filter = CHOOSE c \in FilterConfigs : TRUE)
                         /\ (part # "filter" => hour = CHOOSE h \in Hours : TRUE)
                         /\ (part # "filter" => rules = with_rules(CHOOSE l \in RuleLists : TRUE))
    /\ ConfigurationInit /\ (part # "configuration" => backend = "file" /\ file = "one")

\* Part p moves and the others do not.
Only(p) ==
    /\ part = p /\ UNCHANGED part
    /\ IF p = "persistent" THEN TRUE ELSE UNCHANGED ps_vars
    /\ IF p = "scheduler" THEN TRUE ELSE UNCHANGED sc_vars
    /\ IF p = "esmes" THEN TRUE ELSE UNCHANGED es_vars
    /\ IF p = "limiter" THEN TRUE ELSE UNCHANGED rl_vars
    /\ IF p = "balancer" THEN TRUE ELSE UNCHANGED lb_vars
    /\ IF p = "routing" THEN TRUE ELSE UNCHANGED rt_vars
    /\ IF p = "pricing" THEN TRUE ELSE UNCHANGED pr_vars
    /\ IF p = "firewall" THEN TRUE ELSE UNCHANGED fw_vars
    /\ IF p = "filter" THEN TRUE ELSE UNCHANGED mf_vars
    /\ IF p = "configuration" THEN TRUE ELSE UNCHANGED cf_vars

ServicesNext ==
    \/ part = "persistent" /\ PersistentNext /\ Only("persistent")
    \/ part = "scheduler" /\ SchedulerNext /\ Only("scheduler")
    \/ part = "esmes" /\ EsmeNext /\ Only("esmes")
    \/ part = "limiter" /\ RateNext /\ Only("limiter")
    \/ part = "balancer" /\ BalancerNext /\ Only("balancer")
    \/ part = "routing" /\ RoutingNext /\ Only("routing")
    \/ part = "pricing" /\ PricingNext /\ Only("pricing")
    \/ part = "firewall" /\ FirewallNext /\ Only("firewall")
    \/ part = "filter" /\ MessageFilterNext /\ Only("filter")
    \/ part = "configuration" /\ ConfigurationNext /\ Only("configuration")

ServicesSpec == ServicesInit /\ [][ServicesNext]_svc_vars

\* The variables of the part that moves have their types; those of the others do not change.
ServicesTypeOK ==
    /\ part \in Parts
    /\ part = "persistent" => PersistentTypeOK
    /\ part = "scheduler" => SchedulerTypeOK
    /\ part = "esmes" => EsmeTypeOK
    /\ part = "limiter" => RateTypeOK
    /\ part = "balancer" => BalancerTypeOK
    /\ part = "routing" => RoutingTypeOK
    /\ part = "pricing" => PricingTypeOK
    /\ part = "firewall" => FirewallTypeOK
    /\ part = "filter" => MessageFilterTypeOK
    /\ part = "configuration" => ConfigurationTypeOK
-----------------------------------------------------------------------------
(* Instances *)

\* One schedule that is delivered once, one that is repeated twice, one that ends at 1.
MCPlan == [s \in {"a","b","c"} |-> CASE s = "a" -> [esme |-> "e", at |-> 1, interval |-> 0, max |-> 0, end |-> 9]
  [] s = "b" -> [esme |-> "e", at |-> 0, interval |-> 1, max |-> 2, end |-> 9]
  [] s = "c" -> [esme |-> "f", at |-> 0, interval |-> 1, max |-> 0, end |-> 1]]

\* A daily quota of one; the rest unlimited.
MCQuota == [q \in QuotaKinds |-> IF q = "daily" THEN 1 ELSE 0]

\* A catch-all in front of a split with an empty share and a nightly regex; and a table whose
\* first route has no weight to give; and an empty one.
MCRouteTables ==
  { << [name |-> "a", priority |-> 10, match |-> [prefix |-> <<>>], cluster |-> "x"],
       [name |-> "b", priority |-> 0, match |-> [destination |-> [prefix |-> <<2>>]],
        split |-> <<[cluster |-> "x", weight |-> 2], [cluster |-> "y", weight |-> 0], [cluster |-> "z", weight |-> 1]>>],
       [name |-> "c", priority |-> 0,
        match |-> [destination |-> [regex |-> {<<2,5>>, <<3>>}], source |-> [any |-> TRUE],
                   time_window |-> [days |-> {"Mon"}, start |-> 22, end |-> 6]], cluster |-> "y"] >>,
    << [name |-> "d", priority |-> 1,
        match |-> [destination |-> [any |-> FALSE], prefix |-> <<9>>, source |-> [exact |-> <<1>>],
                   data_coding |-> {0, 8}],
        split |-> <<[cluster |-> "x", weight |-> 0]>>],
       [name |-> "e", priority |-> 5, match |-> [regex |-> {<<3>>}, system_id |-> "s",
                   time_window |-> [days |-> {"Mon", "Tue"}, start |-> 6, end |-> 22]], cluster |-> "y"] >>,
    << >> }
MCContexts == { [destination |-> <<2,5>>, source |-> <<1>>], [destination |-> <<3>>, source |-> <<1>>],
   [destination |-> <<3>>, system_id |-> "s", source |-> <<7>>], [destination |-> <<4>>, source |-> <<1>>, data_coding |-> 8] }
MCTimes == {[day |-> "Mon", mins |-> 6], [day |-> "Mon", mins |-> 23], [day |-> "Tue", mins |-> 3]}

\* A price better than the others in every respect, which may be entered while x has a default price and one for the network n.
MCPrices == {[cost |-> 4, quality |-> 95, delivery |-> 96]}
MCPriceMap == << [cluster |-> "x", network |-> "default", price |-> [cost |-> 12, quality |-> 90, delivery |-> 90]],
  [cluster |-> "x", network |-> "n", price |-> [cost |-> 5, quality |-> 60, delivery |-> 70]] >>

\* A limit, a list, keywords and times over two input chains around an output chain; a
\* firewall that is off; one that does not compile.
Rule(on, conditions, action) == [enabled |-> on, conditions |-> conditions, action |-> action]
Chain(type, priority, policy, given) == [type |-> type, priority |-> priority, policy |-> policy, rules |-> given]
Rate1 == [type |-> "rate", key |-> "system_id", window |-> 2, threshold |-> 1]
Listed == [type |-> "field", on |-> "source", match |-> "List", arg |-> "bad"]
Spam == [type |-> "field", on |-> "content", match |-> "Keywords", arg |-> "bad", case_insensitive |-> TRUE]
Short == [type |-> "field", on |-> "content_length", match |-> "Between", arg |-> <<0, 3>>, negate |-> TRUE]
Sender == [type |-> "field", on |-> "sender_id", match |-> "Prefix", arg |-> <<"a">>]
Night == [type |-> "time", start |-> 2, end |-> 0]
And(parts) == <<[type |-> "and", of |-> [k \in DOMAIN parts |-> k + 1]]>> \o parts
Compounded(type, of) == [type |-> type, of |-> of]
Act(type) == <<[type |-> type]>>
MCFirewallConfigs ==
  { [enabled |-> TRUE, default_policy |-> "Drop", chains |->
      << Chain("Input", 5, "Reject", << Rule(TRUE, And(<<Rate1, Short>>), Act("Quarantine")),
                                        Rule(TRUE, And(<<Listed>>), Act("Log")),
                                        Rule(TRUE, And(<<Compounded("not", <<3>>)>>) \o <<Night>>, Act("Log") \o Act("Accept")) >>),
         Chain("Output", 0, "Drop", << >>),
         Chain("Input", 1, "Accept", << Rule(FALSE, And(<< >>), Act("Drop")),
               Rule(TRUE, And(<<Compounded("or", <<3, 4>>)>>) \o <<Spam, Compounded("and", <<5, 6>>), Sender, [type |-> "days", days |-> {1}]>>, Act("Mark")) >>) >>],
    [enabled |-> FALSE, default_policy |-> "Drop", chains |-> << >>],
    [enabled |-> TRUE, default_policy |-> "Drop", chains |-> <<Chain("Input", 5, "Reject", <<Rule(TRUE, And(<<[type |-> "plugin"]>>), Act("Drop"))>>)>>] }
MCFwMessages == { [source |-> <<"a">>, system_id |-> <<"s">>, content |-> <<"A", "b">>, content_length |-> 4],
                  [source |-> <<"b">>, system_id |-> <<"s">>, content |-> <<"b">>, content_length |-> 1, sender_id |-> <<"a", "b">>] }
MCLower == [l \in {"a", "b", "A"} |-> IF l = "A" THEN "a" ELSE l]
MCListContents == {{}, {<<"a">>}}

\* A filter with every global check and one that is off; rules of every kind, one for an ESME
\* and one that is disabled, or no rules; an ESME with an allow list and a rule that gives only a type of
\* number, one with rules of its own, of which the first lets through what the second blocks.
FRule(priority, type, arg, action) == [enabled |-> TRUE, priority |-> priority, action |-> action, rule |-> <<[type |-> type, arg |-> arg]>>]
FMany(priority, type, parts, action) == [FRule(priority, type, 2 .. Len(parts) + 1, action) EXCEPT !.rule = @ \o parts]
MCFilterConfigs ==
  { [enabled |-> TRUE, default_action |-> "Block", block_premium_rate |-> TRUE, premium_prefixes |-> {<<1, 9>>},
     block_international |-> TRUE, allowed_international |-> {<<2, 5, 8>>}, denied_esm_class |-> {3},
     allowed_data_coding |-> {0, 8}, max_message_length |-> 5, min_message_length |-> 1, max_log_events |-> 1],
    [enabled |-> FALSE, default_action |-> "Block", max_log_events |-> 1] }
MCRuleLists ==
  { << FRule(4, "Keyword", "win", "Block"), FRule(5, "SenderId", "BANK", "Alarm"),
       FMany(9, "All", <<[type |-> "DestinationPrefix", arg |-> <<2>>], [type |-> "TimeWindow", arg |-> [days |-> {"Mon"}, start |-> 22, end |-> 6]]>>, "Quarantine"),
       FMany(1, "Any", <<[type |-> "Protocol", arg |-> [data_coding |-> 8, dest_addr_ton |-> 1]], [type |-> "SourcePrefix", arg |-> <<7>>]>>, "Allow") @@ [esme_id |-> "e"],
       FRule(3, "Pattern", {{"Win", "hi"}}, "Block"), FRule(2, "SourceList", {<<4>>}, "Modify"),
       FRule(0, "DestinationList", {<<Plus, 2, 5, 8, 1>>}, "Log"), [FRule(10, "Keyword", "hi", "Block") EXCEPT !.enabled = FALSE] >>,
    << >> }
Lists == [destination_deny_list |-> {<<6>>}, source_deny_list |-> {}, sender_deny_list |-> {"spam"}]
MCHours == {[day |-> "Mon", time |-> 6], [day |-> "Tue", time |-> 6], [day |-> "Mon", time |-> 12]}
MCEsmeSettings == { Lists @@ [rules |-> << FRule(0, "Protocol", [source_addr_ton |-> 5], "Block") >>, destination_allow_list |-> {<<2>>, <<6>>}],
                    Lists @@ [rules |-> <<FRule(0, "Keyword", "hi", "Allow"), FRule(9, "SenderId", "Bank", "Block")>>, sender_allow_list |-> {"bank", "spam"}, source_allow_list |-> {<<4>>}] }
FMsg(content, sender, dest, source, dc) == [content |-> content, length |-> 4, sender_id |-> sender, destination |-> dest, source |-> source, system_id |-> "e", data_coding |-> dc, esm_class |-> 0]
MCFilterMessages == { FMsg({"Win", "hi"}, "bank", <<2>>, <<4>>, 8), FMsg({"hi"}, "spam", <<Plus, 2, 5, 8, 1>>, <<4>>, 0),
   FMsg({"WIN"}, "spam", <<Plus, 2, 5>>, <<7>>, 0), FMsg({"WIN"}, "bank", <<6>>, <<7>>, 0)  }
MCLowercase == [w \in {"Win", "WIN", "win", "hi", "BANK", "Bank", "bank", "spam"} |->
   CASE w \in {"Win", "WIN"} -> "win" [] w \in {"BANK", "Bank"} -> "bank" [] OTHER -> w]

\* Two configurations that load, one with a route to nowhere and one whose regex is bad.
Cluster(n) == [name |-> n, endpoints |-> 1, mock |-> FALSE]
MCConfigOf == [ c \in Configs |->
   CASE c = "one" -> [listeners |-> <<"l">>, clusters |-> <<Cluster("x")>>, routes |-> <<[cluster |-> "x", regex_ok |-> TRUE]>>]
     [] c = "two" -> [listeners |-> <<"l", "m">>, clusters |-> <<Cluster("x"), [name |-> "y", endpoints |-> 0, mock |-> TRUE]>>,
                      routes |-> <<[split |-> {"x", "y"}, fallback |-> {"y"}, regex_ok |-> TRUE]>>]
     [] c = "badroute" -> [listeners |-> <<"l">>, clusters |-> <<Cluster("x")>>, routes |-> <<[cluster |-> "z", regex_ok |-> TRUE]>>]
     [] c = "badregex" -> [listeners |-> <<"l">>, clusters |-> <<Cluster("x")>>, routes |-> <<[cluster |-> "x", regex_ok |-> FALSE]>>] ]

\* Two endpoints, one twice as heavy.
MCWeights == <<2, 1>>
=============================================================================
