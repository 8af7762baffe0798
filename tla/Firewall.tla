------------------------------ MODULE Firewall ------------------------------
(***************************************************************************)
(* The rule engine of firewall/engine.rs: chains of rules, conditions that   *)
(* look at a message, at shared lists and at shared rate counters, actions   *)
(* and policies.                                                           *)
(*                                                                         *)
(* Messages are evaluated by tasks that interleave: every condition is a     *)
(* step, for it may wait for the lock of the lists; a rate condition is two,   *)
(* for it reads the clock before it waits for the lock of the counters.       *)
(* The conditions of a rule are a list: the first is the conjunction of all,   *)
(* and not, and, or name their parts by their places further down.  An action *)
(* is a list too, of logs and of what the last of them leads to.  A text is a  *)
(* sequence of letters, a regular expression or a network the set it matches,  *)
(* a bit mask the set of its bits.                                          *)
(***************************************************************************)
EXTENDS Selection, FiniteSetsExt, SequencesExt

CONSTANTS
    Inspectors,      \* tasks that call evaluate
    FirewallConfigs, \* FirewallConfig
    FwMessages,      \* EvaluationContext
    ListNames,       \* names of external lists
    ListContents,    \* what a list may hold
    Lower,           \* letter -> lower-case letter
    MaxTime,         \* bound: the clock
    MaxChecks        \* bound: messages evaluated

VARIABLES
    fw,              \* the compiled firewall: [enabled, default_policy, chains]
    lists,           \* CompiledFirewall.lists, by name; an absent list is {}
    rate_limits,     \* CompiledFirewall.rate_limits: rate key -> [count, start]
    time,            \* Instant::now and the wall clock
    walk,            \* where each evaluation is: [at, ctx, chain, rule, answers, now, result]
    unflagged,       \* history: what rate conditions let by: sequence of [key, at, start]
    checks           \* history: evaluations begun

fw_vars == <<fw, lists, rate_limits, time, walk, unflagged, checks>>

NoWalk == [at |-> "idle"]
NotRead == -1                                    \* no reading of the clock in hand
Policy == {"Accept", "Drop", "Reject"}
FinalResults == Policy \cup {"Quarantine"}

\* What a message shows, what a condition may be and what a rule may do.
EvaluationContext == {"source", "destination", "sender_id", "system_id", "content", "content_length",
                      "esm_class", "protocol_id", "data_coding", "client_ip", "tls_enabled"}
Compound == {"not", "and", "or"}
ConditionKinds == {"field", "rate", "time", "days", "plugin"} \cup Compound
MatchKinds == {"Exact", "Prefix", "Suffix", "Contains", "Regex", "List", "Keywords", "Between", "Masked"}
ActionKinds == FinalResults \cup {"Modify", "Log", "Jump", "Return", "RateLimit", "Delay", "Mark", "Plugin"}
ASSUME FirewallAssumption ==
    /\ IsFiniteSet(Inspectors) /\ MaxTime \in Nat
    /\ \A ctx \in FwMessages : DOMAIN ctx \subseteq EvaluationContext
    /\ \A config \in FirewallConfigs :
          /\ config.default_policy \in Policy /\ config.chains \in Seq(Range(config.chains))
          /\ \A k \in DOMAIN config.chains :
                /\ config.chains[k].priority \in Int /\ config.chains[k].policy \in Policy
                /\ config.chains[k].rules \in Seq(Range(config.chains[k].rules))
          /\ \A k \in DOMAIN config.chains : \A r \in Range(config.chains[k].rules) :
                /\ \A n \in DOMAIN r.action : r.action[n].type \in ActionKinds /\ (n < Len(r.action) => r.action[n].type = "Log")
                /\ r.conditions # <<>> /\ r.conditions[1].type = "and"
                /\ \A n \in DOMAIN r.conditions :
                      LET c == r.conditions[n] IN
                      /\ c.type \in ConditionKinds
                      /\ c.type = "field" => c.on \in EvaluationContext /\ c.match \in MatchKinds
                      /\ c.type = "rate" => c.window \in Nat /\ c.threshold \in Nat
                      /\ c.type \in Compound => \A m \in Range(c.of) : m \in DOMAIN r.conditions /\ m > n
---------------------------------------------------------------------------
(* Configuration.                                                          *)

\* compile_string_matcher, compile_content_matcher, compile_ip_matcher, parse_time: a
\* condition without what its kind needs is an error, and so is every plugin condition.
Compiles(c) ==
    CASE c.type = "field" -> "arg" \in DOMAIN c
      [] c.type = "time" -> c.start >= 0 /\ c.end >= 0
      [] OTHER -> c.type # "plugin"

ConfigCompiles(config) ==
    \A k \in DOMAIN config.chains : \A r \in DOMAIN config.chains[k].rules :
        \A c \in Range(config.chains[k].rules[r].conditions) : Compiles(c)

InOrderWritten(config) == [enabled |-> config.enabled, default_policy |-> config.default_policy,
                           chains |-> config.chains]

\* from_config: chains sorted by priority, stably.
from_config(config) ==
    LET order == SortByKey([k \in DOMAIN config.chains |-> config.chains[k].priority])
    IN [enabled |-> config.enabled, default_policy |-> config.default_policy,
        chains |-> [k \in DOMAIN order |-> config.chains[order[k]]]]

FirewallInit ==
    /\ \E config \in FirewallConfigs : ConfigCompiles(config) /\ fw = from_config(config)
    /\ lists = [l \in ListNames |-> {}]
    /\ rate_limits = <<>>
    /\ time = 0
    /\ walk = [i \in Inspectors |-> NoWalk]
    /\ unflagged = <<>>
    /\ checks = 0
---------------------------------------------------------------------------
(* Conditions.                                                             *)

LowerCase(text) == [i \in DOMAIN text |-> Lower[text[i]]]
Within(part, text) == \E i \in 1 .. Len(text) + 1 : IsPrefix(part, SubSeq(text, i, Len(text)))

\* match_string, match_content, match_ip and the plain comparisons of evaluate_condition.
MatchValue(c, v) ==
    LET fold == "case_insensitive" \in DOMAIN c
        text == IF fold THEN LowerCase(v) ELSE v
        arg == IF fold THEN LowerCase(c.arg) ELSE c.arg
        entry(e) == IF fold THEN LowerCase(e) ELSE e
    IN CASE c.match = "Exact" -> text = arg
         [] c.match = "Prefix" -> IsPrefix(arg, text)
         [] c.match = "Suffix" -> IsSuffix(arg, text)
         [] c.match = "Contains" -> Within(arg, text)
         [] c.match = "Regex" -> v \in c.arg
         [] c.match = "List" -> v \in lists[c.arg]
         [] c.match = "Keywords" -> \E e \in lists[c.arg] : Within(entry(e), text)
         [] c.match = "Between" -> v >= c.arg[1] /\ v <= c.arg[2]
         [] c.match = "Masked" -> v \cap c.arg.mask = c.arg.value \cap c.arg.mask

\* A field the message lacks (sender_id, client_ip) fails, negated or not.
FieldMatches(c, ctx) ==
    c.on \in DOMAIN ctx /\ (MatchValue(c, ctx[c.on]) # ("negate" \in DOMAIN c))

get_rate_key(key, ctx) ==
    IF key \in DOMAIN ctx THEN ctx[key] ELSE IF key = "sender_id" THEN ctx.source ELSE <<>>

RateKey(c, ctx) == <<c.key, get_rate_key(c.key, ctx)>>

Counter(key, now) == IF key \in DOMAIN rate_limits THEN rate_limits[key] ELSE [count |-> 0, start |-> now]

NoNewStart(c, key, now) ==
    LET old == Counter(key, now) IN
    [old EXCEPT !.count = IF now - old.start >= c.window THEN 1 ELSE @ + 1]

\* check_rate_limit: one counter for each kind of key and value, whatever rule asks.  The
\* clock was read before the lock was had, so the counter may have started since:
\* duration_since is then zero.
check_rate_limit(c, key, now) ==
    LET old == Counter(key, now)
        duration_since == IF now > old.start THEN now - old.start ELSE 0
    IN IF duration_since >= c.window THEN [count |-> 1, start |-> now]
       ELSE [count |-> old.count + 1, start |-> old.start]

\* check_time: both ends count, the zone is not looked at.
check_time(c) ==
    IF c.start <= c.end THEN time >= c.start /\ time <= c.end ELSE time >= c.start \/ time <= c.end

\* evaluate_condition, of a condition that is not a rate.
evaluate_condition(c, ctx) ==
    CASE c.type = "field" -> FieldMatches(c, ctx)
      [] c.type = "time" -> check_time(c)
      [] c.type = "days" -> time % 7 \in c.days

\* The two answers, which are no condition's place.
Yes == 0
No == -1
Negated(answer) == IF answer = Yes THEN No ELSE IF answer = No THEN Yes ELSE answer

\* evaluate_conditions and evaluate_condition of not, and, or: what the answers so far come
\* to, or else the place of the condition to ask next; and and or stop as soon as they can.
Standing(conditions, answers) ==
    LET of[n \in DOMAIN conditions] ==
            LET c == conditions[n]
                \* the first part that does not answer so
                First(answer) ==
                    LET others == {m \in DOMAIN c.of : of[c.of[m]] # answer}
                    IN IF others = {} THEN answer ELSE of[c.of[Min(others)]]
            IN CASE c.type = "not" -> Negated(of[c.of[1]])
                 [] c.type = "and" -> First(Yes)
                 [] c.type = "or" -> First(No)
                 [] OTHER -> IF n \in DOMAIN answers THEN answers[n] ELSE n
    IN of[1]

\* execute_action: a log may have a sequel; jump, return, rate_limit, delay, mark and
\* plugin are nothing more than Continue.
execute_action(action) ==
    LET last == action[Len(action)].type
    IN IF last \in FinalResults \cup {"Modify"} THEN last ELSE "Continue"
---------------------------------------------------------------------------
(* Evaluation.                                                             *)

Here(i) == fw.chains[walk[i].chain]
RuleHere(i) == Here(i).rules[walk[i].rule]
InChain(i) == walk[i].at = "walking" /\ walk[i].chain <= Len(fw.chains)
InRule(i) == InChain(i) /\ Here(i).type = "Input" /\ walk[i].rule <= Len(Here(i).rules)

Asked(i) == Standing(RuleHere(i).conditions, walk[i].answers)

EndWalk(i, result) == walk' = [walk EXCEPT ![i].at = "done", ![i].result = result]
ToNextRule(i) == walk' = [walk EXCEPT ![i].rule = @ + 1, ![i].answers = <<>>]
ToNextChain(i) == walk' = [walk EXCEPT ![i].chain = @ + 1, ![i].rule = 1, ![i].answers = <<>>]
Answer(i, n, yes) ==
    walk' = [walk EXCEPT ![i].answers = [m \in DOMAIN @ \cup {n} |-> IF m # n THEN @[m] ELSE IF yes THEN Yes ELSE No],
                         ![i].now = NotRead]

Evaluate(i, ctx) ==
    /\ walk[i].at # "walking"
    /\ checks < MaxChecks /\ checks' = checks + 1
    /\ walk' = [walk EXCEPT ![i] = [at |-> IF fw.enabled THEN "walking" ELSE "done", ctx |-> ctx,
                                    chain |-> 1, rule |-> 1, answers |-> <<>>, now |-> NotRead,
                                    result |-> "Accept"]]
    /\ UNCHANGED <<fw, lists, rate_limits, time, unflagged>>

SkipChain(i) ==
    /\ InChain(i) /\ Here(i).type # "Input"
    /\ ToNextChain(i)
    /\ UNCHANGED <<fw, lists, rate_limits, time, unflagged, checks>>

SkipRule(i) ==
    /\ InRule(i) /\ ~RuleHere(i).enabled
    /\ ToNextRule(i)
    /\ UNCHANGED <<fw, lists, rate_limits, time, unflagged, checks>>

\* A condition on the message, the lists or the time.
TestCondition(i) ==
    /\ InRule(i) /\ RuleHere(i).enabled /\ Asked(i) \in DOMAIN RuleHere(i).conditions
    /\ LET c == RuleHere(i).conditions[Asked(i)] IN
       /\ c.type # "rate"
       /\ Answer(i, Asked(i), evaluate_condition(c, walk[i].ctx))
    /\ UNCHANGED <<fw, lists, rate_limits, time, unflagged, checks>>

RateAsked(i) ==
    /\ InRule(i) /\ RuleHere(i).enabled /\ Asked(i) \in DOMAIN RuleHere(i).conditions
    /\ RuleHere(i).conditions[Asked(i)].type = "rate"

\* A rate condition reads the clock, and waits.
ReadClock(i) ==
    /\ RateAsked(i) /\ walk[i].now = NotRead
    /\ walk' = [walk EXCEPT ![i].now = time]
    /\ UNCHANGED <<fw, lists, rate_limits, time, unflagged, checks>>

\* It reads the counter and counts under one lock.
CountRate(i) ==
    /\ RateAsked(i) /\ walk[i].now # NotRead
    /\ LET c == RuleHere(i).conditions[Asked(i)]
           key == RateKey(c, walk[i].ctx)
           new == check_rate_limit(c, key, walk[i].now)
       IN /\ rate_limits' = [k \in DOMAIN rate_limits \cup {key} |-> IF k = key THEN new ELSE rate_limits[k]]
          /\ unflagged' = IF new.count > c.threshold THEN unflagged
                          ELSE Append(unflagged, [key |-> key, at |-> walk[i].now, start |-> new.start])
          /\ Answer(i, Asked(i), new.count > c.threshold)
    /\ UNCHANGED <<fw, lists, time, checks>>

RuleFails(i) ==
    /\ InRule(i) /\ RuleHere(i).enabled /\ Asked(i) = No
    /\ ToNextRule(i)
    /\ UNCHANGED <<fw, lists, rate_limits, time, unflagged, checks>>

\* A rule that matches ends its chain: with a verdict, or, whatever is left of the chain
\* and its policy, without one.
RuleMatches(i) ==
    /\ InRule(i) /\ RuleHere(i).enabled /\ Asked(i) = Yes
    /\ LET result == execute_action(RuleHere(i).action) IN
       IF result \in FinalResults THEN EndWalk(i, result)
       ELSE ToNextChain(i)
    /\ UNCHANGED <<fw, lists, rate_limits, time, unflagged, checks>>

\* No rule of the chain matched: its policy is always a verdict.
ChainPolicy(i) ==
    /\ InChain(i) /\ Here(i).type = "Input" /\ walk[i].rule > Len(Here(i).rules)
    /\ EndWalk(i, Here(i).policy)
    /\ UNCHANGED <<fw, lists, rate_limits, time, unflagged, checks>>

DefaultPolicy(i) ==
    /\ walk[i].at = "walking" /\ walk[i].chain > Len(fw.chains)
    /\ EndWalk(i, fw.default_policy)
    /\ UNCHANGED <<fw, lists, rate_limits, time, unflagged, checks>>

LoadList(l, entries) ==
    /\ lists' = [lists EXCEPT ![l] = entries]
    /\ UNCHANGED <<fw, rate_limits, time, walk, unflagged, checks>>

TimeGoesOn ==
    /\ time < MaxTime
    /\ time' = time + 1
    /\ UNCHANGED <<fw, lists, rate_limits, walk, unflagged, checks>>

FirewallNext ==
    \/ \E i \in Inspectors :
          \/ \E ctx \in FwMessages : Evaluate(i, ctx)
          \/ SkipChain(i) \/ SkipRule(i) \/ TestCondition(i) \/ ReadClock(i) \/ CountRate(i)
          \/ RuleFails(i) \/ RuleMatches(i) \/ ChainPolicy(i) \/ DefaultPolicy(i)
    \/ \E l \in ListNames, entries \in ListContents : LoadList(l, entries)
    \/ TimeGoesOn

FirewallSpec == FirewallInit /\ [][FirewallNext]_fw_vars
---------------------------------------------------------------------------
FirewallTypeOK ==
    /\ \A l \in ListNames : lists[l] \in ListContents \cup {{}}
    /\ \A i \in Inspectors : walk[i].at \in {"idle", "walking", "done"}
    /\ \A i \in Inspectors : walk[i].at = "done" => walk[i].result \in FinalResults
    /\ time \in 0..MaxTime

\* The rate conditions of the firewall that count by one kind of key, and their windows and
\* thresholds.
RateConditions(kind) ==
    {c \in UNION {Range(r.conditions) : r \in UNION {Range(k.rules) : k \in Range(fw.chains)}} :
        c.type = "rate" /\ c.key = kind}
Limits(kind) == {<<c.window, c.threshold>> : c \in RateConditions(kind)}

\* What rate conditions have let by under a key in a span of time, by the clock they read.
LetBy(key, from, to) ==
    {m \in DOMAIN unflagged : unflagged[m].key = key /\ unflagged[m].at \in from .. to}

\* Where the rate conditions on a kind of key agree on window and threshold, they let by in
\* any span of the window at most twice the threshold less one, and one more for every
\* other evaluation: the counter starts again with the first message after a window, which
\* lies outside, so two thresholds can meet at the border; and an evaluation that waited
\* with its reading of the clock is counted in a window that started since
\* (check_rate_limit).
RateHeld ==
    \A n \in DOMAIN unflagged :
        LET u == unflagged[n] IN
        \A l \in Limits(u.key[1]) : Limits(u.key[1]) = {l} /\ l[1] > 0 =>
            Cardinality(LetBy(u.key, u.at, u.at + l[1] - 1)) <= 2 * l[2] - 1 + (Cardinality(Inspectors) - 1)

\* Chains are consulted in the order of their priority numbers, however the configuration
\* lists them: an evaluation in a chain, or decided by one, has every input chain of a lower
\* number behind it (from_config, evaluate).
ChainsInOrder ==
    \A i \in Inspectors :
        walk[i].at # "idle" /\ walk[i].chain \in DOMAIN fw.chains =>
            \A j \in DOMAIN fw.chains :
                fw.chains[j].type = "Input" /\ fw.chains[j].priority < fw.chains[walk[i].chain].priority
                    => j < walk[i].chain

\* What the engine keeps, with walks that interleave on the shared counters and lists.
VerdictsHold == RateHeld /\ ChainsInOrder
===========================================================================
