--------------------------- MODULE MessageFilter ---------------------------
(***************************************************************************)
(* The firewall filter of filter/firewall.rs: built-in checks, the lists and *)
(* rules of an ESME, the global rules by priority, the log of events.        *)
(*                                                                         *)
(* A check reads the settings of the ESME once, under their lock, and logs   *)
(* under the lock of the log; checks interleave between these.  An     *)
(* address is a sequence of digits, a content the set of its words, a        *)
(* regular expression the set of contents it matches.  A rule type is the    *)
(* list of its conditions, the whole one first; All and Any name their parts  *)
(* by their places further down.                                            *)
(***************************************************************************)
EXTENDS Selection, SequencesExt

CONSTANTS
    Checkers,        \* tasks that call Firewall::check
    FilterConfigs,   \* FirewallConfig, with the premium prefixes of Firewall::new
    RuleLists,       \* the rules given to with_rules, in order
    EsmeSettings,    \* EsmeFirewallSettings
    Esmes,           \* system ids
    FilterMessages,  \* MessageContext
    Lowercase,       \* word -> its lower-case form
    Hours,           \* moments of the wall clock: [day, time]
    MaxSaid          \* bound: events logged

VARIABLES
    filter,          \* Firewall.config
    rules,           \* Firewall.rules
    esme_settings,   \* Firewall.esme_settings, NoSettings for none
    event_log,       \* FirewallEventLog.events
    hour,            \* the wall clock
    checking,        \* [at, ctx, settings, todo, result]
    said             \* history: events logged

mf_vars == <<filter, rules, esme_settings, event_log, hour, checking, said>>

NoSettings == [none |-> TRUE]
NotChecking == [at |-> "idle"]
Plus == 10                                       \* the sign, beside the digits 0..9
Given(record, field) == field \in DOMAIN record

\* The parts of a message, of a rule and of the settings of an ESME.
MessageContext == {"content", "length", "sender_id", "destination", "source", "system_id"}
ProtocolParams == {"esm_class", "protocol_id", "data_coding", "source_addr_ton", "source_addr_npi",
                   "dest_addr_ton", "dest_addr_npi"}
FirewallRule == {"rule", "action", "priority", "enabled"}
EsmeFirewallSettings == {"destination_deny_list", "source_deny_list", "sender_deny_list", "rules"}

ASSUME MessageFilterAssumption ==
    /\ \A f \in FilterConfigs : f.max_log_events \in Nat
    /\ \A ctx \in FilterMessages :
          /\ MessageContext \subseteq DOMAIN ctx /\ DOMAIN ctx \subseteq MessageContext \cup ProtocolParams
          /\ ctx.system_id \in Esmes
    /\ \A given \in RuleLists :
          /\ given \in Seq(Range(given))
          /\ \A i \in DOMAIN given : FirewallRule \subseteq DOMAIN given[i] /\ given[i].priority \in Int
    /\ \A s \in EsmeSettings : EsmeFirewallSettings \subseteq DOMAIN s /\ s.rules \in Seq(Range(s.rules))
---------------------------------------------------------------------------
(* Rules.                                                                  *)

\* TimeWindow::is_active: both ends count; no days means every day.  One time zone.
is_active(w, h) ==
    /\ w.days = {} \/ h.day \in w.days
    /\ IF w.start <= w.end THEN h.time >= w.start /\ h.time <= w.end
                           ELSE h.time >= w.start \/ h.time <= w.end

\* What a protocol rule looks at: of the types and numbering plans of the addresses,
\* nothing, so a rule that gives only those matches every message.
Compared == {"esm_class", "protocol_id", "data_coding"}

\* RuleType::matches.  Keyword and SenderId ignore case.
RuleAccepts(rule, ctx, h) ==
    LET accepts[k \in DOMAIN rule] ==
            LET r == rule[k] IN
            CASE r.type = "Keyword" -> \E w \in ctx.content : Lowercase[w] = Lowercase[r.arg]
              [] r.type = "Pattern" -> ctx.content \in r.arg
              [] r.type = "SenderId" -> Lowercase[ctx.sender_id] = Lowercase[r.arg]
              [] r.type = "DestinationPrefix" -> IsPrefix(r.arg, ctx.destination)
              [] r.type = "SourcePrefix" -> IsPrefix(r.arg, ctx.source)
              [] r.type = "DestinationList" -> ctx.destination \in r.arg
              [] r.type = "SourceList" -> ctx.source \in r.arg
              [] r.type = "Protocol" -> \A f \in Compared \cap DOMAIN r.arg : Given(ctx, f) /\ ctx[f] = r.arg[f]
              [] r.type = "TimeWindow" -> is_active(r.arg, h)
              [] r.type = "All" -> \A q \in r.arg : accepts[q]
              [] r.type = "Any" -> \E q \in r.arg : accepts[q]
    IN accepts[1]

LowestFirst(given) ==
    LET order == SortByKey([i \in DOMAIN given |-> given[i].priority])
    IN [k \in DOMAIN order |-> given[order[k]]]

\* add_rule for each rule given: sorted by falling priority, stably.
with_rules(given) ==
    LET order == SortByKey([i \in DOMAIN given |-> 0 - given[i].priority])
    IN [k \in DOMAIN order |-> given[order[k]]]

MessageFilterInit ==
    /\ filter \in FilterConfigs
    /\ \E given \in RuleLists : rules = with_rules(given)
    /\ esme_settings = [e \in Esmes |-> NoSettings]
    /\ event_log = <<>>
    /\ hour \in Hours
    /\ checking = [c \in Checkers |-> NotChecking]
    /\ said = 0
---------------------------------------------------------------------------
(* The checks, in the order of Firewall::check.                            *)

\* The first three digits after the plus.
CountryCode(destination) == SubSeq(destination, 2, IF Len(destination) < 4 THEN Len(destination) ELSE 4)

\* Length, data coding, ESM class, premium rate, international.
BuiltInBlock(ctx) ==
    \/ Given(filter, "max_message_length") /\ ctx.length > filter.max_message_length
    \/ Given(filter, "min_message_length") /\ ctx.length < filter.min_message_length
    \/ /\ Given(filter, "allowed_data_coding") /\ Given(ctx, "data_coding")
       /\ ctx.data_coding \notin filter.allowed_data_coding
    \/ Given(ctx, "esm_class") /\ ctx.esm_class \in filter.denied_esm_class
    \/ filter.block_premium_rate /\ \E p \in filter.premium_prefixes : IsPrefix(p, ctx.destination)
    \/ /\ filter.block_international /\ IsPrefix(<<Plus>>, ctx.destination)
       /\ CountryCode(ctx.destination) \notin filter.allowed_international

\* The allow and deny lists of the ESME.
ListBlock(s, ctx) ==
    \/ Given(s, "destination_allow_list") /\ ctx.destination \notin s.destination_allow_list
    \/ ctx.destination \in s.destination_deny_list
    \/ Given(s, "source_allow_list") /\ ctx.source \notin s.source_allow_list
    \/ ctx.source \in s.source_deny_list
    \/ Given(s, "sender_allow_list") /\ ctx.sender_id \notin s.sender_allow_list
    \/ ctx.sender_id \in s.sender_deny_list

\* The global rules for this ESME, disabled ones left out.
Applicable(ctx) ==
    Kept(rules, {k \in DOMAIN rules :
                    rules[k].enabled /\ (Given(rules[k], "esme_id") => rules[k].esme_id = ctx.system_id)})

\* The rules of the ESME, of which the priority is not looked at.
OwnRules(s) == IF s = NoSettings THEN <<>> ELSE Kept(s.rules, {k \in DOMAIN s.rules : s.rules[k].enabled})

\* The rules of the ESME come first.
RulesOf(s, ctx) == OwnRules(s) \o Applicable(ctx)

\* apply_rule: the result of an action that gives one.
Ruling(action) ==
    CASE action \in {"Allow", "Modify"} -> "Allowed"
      [] action = "Block" -> "Blocked"
      [] action = "Quarantine" -> "Quarantined"

Deciding == {"Allow", "Modify", "Block", "Quarantine"}

\* FirewallEventLog::log.
Log(event) ==
    /\ said < MaxSaid /\ said' = said + 1
    /\ event_log' = Append(IF Len(event_log) >= filter.max_log_events /\ event_log # <<>>
                           THEN Tail(event_log) ELSE event_log, event)

Decide(c, result) == checking' = [checking EXCEPT ![c].at = "log", ![c].result = result]
---------------------------------------------------------------------------
Check(c, ctx) ==
    /\ checking[c].at \in {"idle", "done"}
    /\ LET begun == [at |-> "settings", ctx |-> ctx, settings |-> NoSettings, todo |-> <<>>,
                     result |-> "Allowed"]
       IN checking' = [checking EXCEPT ![c] =
              IF ~filter.enabled THEN [begun EXCEPT !.at = "done"]
              ELSE IF BuiltInBlock(ctx) THEN [begun EXCEPT !.at = "log", !.result = "Blocked"]
              ELSE begun]
    /\ UNCHANGED <<filter, rules, esme_settings, event_log, hour, said>>

\* get_esme_settings, the lists, and the rules there are to try.
ReadSettings(c) ==
    LET ctx == checking[c].ctx
        s == esme_settings[ctx.system_id]
    IN /\ checking[c].at = "settings"
       /\ checking' = [checking EXCEPT ![c] =
              IF s # NoSettings /\ ListBlock(s, ctx)
              THEN [@ EXCEPT !.at = "log", !.result = "Blocked", !.settings = s]
              ELSE [@ EXCEPT !.at = "rules", !.settings = s, !.todo = RulesOf(s, ctx)]]
       /\ UNCHANGED <<filter, rules, esme_settings, event_log, hour, said>>

\* The next rule: a match decides, raises an alarm and goes on, or just goes on (Log).
ApplyRule(c) ==
    LET k == checking[c]
        r == Head(k.todo)
        on == [checking EXCEPT ![c].todo = Tail(@)]
    IN /\ k.at = "rules" /\ k.todo # <<>>
       /\ \/ /\ RuleAccepts(r.rule, k.ctx, hour) /\ r.action \in Deciding
             /\ Decide(c, Ruling(r.action))
             /\ UNCHANGED <<event_log, said>>
          \/ /\ RuleAccepts(r.rule, k.ctx, hour) /\ r.action = "Alarm"
             /\ checking' = on
             /\ Log("Alarm")
          \/ /\ RuleAccepts(r.rule, k.ctx, hour) => r.action = "Log"
             /\ checking' = on
             /\ UNCHANGED <<event_log, said>>
       /\ UNCHANGED <<filter, rules, esme_settings, hour>>

\* No rule decided: the default action, of which only Block blocks.
DefaultAction(c) ==
    /\ checking[c].at = "rules" /\ checking[c].todo = <<>>
    /\ Decide(c, IF filter.default_action = "Block" THEN "Blocked" ELSE "Allowed")
    /\ UNCHANGED <<filter, rules, esme_settings, event_log, hour, said>>

\* log_result; the filter then passes the message on or answers with the status.
LogResult(c) ==
    /\ checking[c].at = "log"
    /\ Log(checking[c].result)
    /\ checking' = [checking EXCEPT ![c].at = "done"]
    /\ UNCHANGED <<filter, rules, esme_settings, hour>>

SetEsmeSettings(e, s) ==
    /\ esme_settings' = [esme_settings EXCEPT ![e] = s]
    /\ UNCHANGED <<filter, rules, event_log, hour, checking, said>>

HourPasses ==
    /\ hour' \in Hours \ {hour}
    /\ UNCHANGED <<filter, rules, esme_settings, event_log, checking, said>>

MessageFilterNext ==
    \/ \E c \in Checkers :
          \/ \E ctx \in FilterMessages : Check(c, ctx)
          \/ ReadSettings(c) \/ ApplyRule(c) \/ DefaultAction(c) \/ LogResult(c)
    \/ \E e \in Esmes, s \in EsmeSettings : SetEsmeSettings(e, s)
    \/ HourPasses

MessageFilterSpec == MessageFilterInit /\ [][MessageFilterNext]_mf_vars
---------------------------------------------------------------------------
MessageFilterTypeOK ==
    /\ Len(event_log) <= filter.max_log_events \/ Len(event_log) = 1
    /\ \A n \in DOMAIN event_log : event_log[n] \in {"Allowed", "Blocked", "Quarantined", "Alarm"}
    /\ \A c \in Checkers : checking[c].at \in {"idle", "settings", "rules", "log", "done"}

\* A rule that lets a message through at some hour; one that stops it at every hour.
Lets(r, ctx) == r.action \in {"Allow", "Modify"} /\ \E h \in Hours : RuleAccepts(r.rule, ctx, h)
Stops(r, ctx) == r.action \in {"Block", "Quarantine"} /\ \A h \in Hours : RuleAccepts(r.rule, ctx, h)

\* A message the filter lets through has broken no built-in restriction and is on no list
\* against it in the settings its check has read; every blocking rule of the ESME that
\* matches it at any hour stands behind one of the ESME's that lets it through, and every
\* global one behind a letting rule of the ESME or one of no lower priority (check,
\* add_rule, apply_rule).
AllowedMeansClean ==
    \A c \in Checkers :
        LET k == checking[c]
            own == OwnRules(k.settings)
        IN k.at \in {"log", "done"} /\ k.result = "Allowed" /\ filter.enabled =>
            /\ ~ BuiltInBlock(k.ctx)
            /\ k.settings # NoSettings => ~ ListBlock(k.settings, k.ctx)
            /\ \A j \in DOMAIN own : Stops(own[j], k.ctx) => \E i \in DOMAIN own : i < j /\ Lets(own[i], k.ctx)
            /\ \A b \in Range(Applicable(k.ctx)) : Stops(b, k.ctx) =>
                  \/ \E a \in Range(own) : Lets(a, k.ctx)
                  \/ \E a \in Range(Applicable(k.ctx)) : Lets(a, k.ctx) /\ a.priority >= b.priority
===========================================================================
