# A TLA+ verification of smppd

smppd is an SMPP gateway: clients (ESMEs) bind over TCP and submit short messages, the
gateway filters and routes them to clusters of upstream SMSCs, answers the clients,
retries what failed and matches delivery receipts with the messages they are for. This
directory holds TLA+ models of the parts of smppd where tasks run concurrently over shared
state, the TLC configurations that check them on small instances, and TLAPS proofs of
their most important properties for instances of every size. Paths in this file are
relative to the repository's `src/` directory; `PROJECT.json` maps every definition to the
lines it models.

## 1. The system

| Component | Source | State | Operations |
|---|---|---|---|
| Session, connection | `listener/session.rs`, `listener/connection.rs` | bind state, pending windows, response channel | bind, submit_sm, unbind, enquire_link, async responses, timeouts |
| Acceptor, registry | `listener/acceptor.rs`, `listener/registry.rs` | connection permits, connection channel, map of session senders | accept, register, unregister, send_response |
| Event bus | `bootstrap/events.rs` | one tokio broadcast channel | publish, filtered recv, lag |
| Pipeline | `pipeline/*.rs` | four processor tasks, forwarder semaphore | filter, route and store, forward, respond |
| Forwarder | `forwarder/processor.rs` | request channel, semaphore, one task per request | forward, process_request |
| Retry processor | `forwarder/retry.rs` | one loop | process_retries, retry_message |
| DLR processor | `forwarder/dlr.rs` | channel of receipts, one loop | process_dlr |
| Stored messages | `store/types.rs` | state, attempts, SMSC identifier, retry instant, age | `mark_*`, can_retry, is_expired |
| Memory store | `store/memory.rs` | map of messages, retry queue, memory estimate | store, get, update, query, get_ready_for_retry, expire_old, prune |
| Persistent store | `store/persistent.rs` | message records and state index in fjall | the same, plus reload |
| Scheduler | `store/scheduler.rs` | schedules per message and per ESME | schedule, cancel, process due |
| Cluster, endpoint, pool | `cluster/mod.rs`, `endpoint.rs`, `pool.rs` | health flag, permits, connections in use | get_connection, drop, health checks |
| Circuit breaker | `cluster/circuit_breaker.rs` | state, two counters, opening instant | allow_request, record_success, record_failure |
| Load balancers | `cluster/lb.rs` | a counter per strategy, connections per endpoint | select |
| Router | `router/router.rs`, `router/matcher.rs` | compiled routes by priority, a counter per split | route, reload |
| Cost router | `router/pricing.rs` | prices per cluster and network, defaults | set, load, select |
| Rate limiter | `filter/ratelimit.rs` | a token bucket per client | get_bucket, try_acquire |
| ESME store | `filter/esme.rs` | accounts, index by system_id, quotas | save, delete, look up, authenticate, reset |
| Firewalls | `firewall/*.rs`, `filter/firewall.rs` | chains and rules, lists, rate counters, event log | evaluate, check, load_list, settings per ESME |
| Server, shutdown, workers | `bootstrap/*.rs` | shutdown watch, connection counts, worker threads | start, maintenance every minute, reload, drain |
| Configuration | `config`, `admin/server.rs`, `bootstrap/state.rs` | the file, the stores, what router and admin API hold | validate, save, update, reload |
| CDR, feedback, telemetry, plugins, admin views | `cdr`, `feedback`, `telemetry`, `plugins`, `admin` | files, counters, records | I/O around the core |

How they interact. A session publishes a submit_sm on the bus; filter, router and forwarder
processors pick up each other's events; the forwarder asks a cluster for a connection (the
cluster asks its endpoints, these their breaker and pool), submits, writes the outcome to
the store and publishes the response, which the response processor puts into the session's
channel through the registry. The store-and-forward path (`forwarder::start`, `dlr::start`)
is the second way to deliver: a request channel instead of the bus, and a retry loop and a
receipt processor over the same store. A maintenance task expires and prunes the store. The
running server starts the listeners, the pipeline, the maintenance and the admin API, and
reloads its configuration on SIGHUP or through the API; the store-and-forward path, the
scheduler, the firewalls, the configuration stores, health checks and the warming of pools
are public operations that the server does not start.

What is hard. Every component is used by many tasks at once. The store's operations are
atomic, but tasks read a message, await an SMSC for seconds and then write it back without
a second look. The breaker copies its state out of a lock and acts on the copy. The bus
drops the oldest events of a slow subscriber. SMSCs may accept a message whose answer is
lost, and send receipts late and twice. Permits are held across awaits. A session reads the
state of its connection, awaits, and sets it, while the listener closes it. The persistent
store writes a record and its index entry one after the other. Two maps with a lock each
(ESME accounts, schedules) are changed one after the other. The hazards are listed in `PROJECT.json` at the lines where they bite.

What makes each part correct: no message is sent by two tasks at once; what the store says
of a message is what became of it, and final outcomes stay; live messages are not evicted;
every message settles and every request is answered; a client hears success only of a
message an SMSC has or the gateway will retry; requests vanish only where the code admits it;
the breaker misses no opening or closing; permits do not leak; a dead endpoint is refused and
one that comes back is used again; a session keeps to the order bind, submit, unbind and ends when its peer is gone
or the listener closes it; a signal ends the process; no message is lost to the queries by
state through a crash; limits are exceeded by what concurrency explains and no more;
routes, prices, rules and endpoints are chosen as configured; no invalid configuration is
in force. Some items on this list turn out false of parts of the code (section 5).

## 2. Modules

| Module | Models | Composes |
|---|---|---|
| `CircuitBreaker` | the breaker and its concurrent callers | |
| `Upstream` | Cluster, Endpoint, ConnectionPool, HealthChecker | `CircuitBreaker` |
| `MessageStore` | StoredMessage and MemoryStorage, as step definitions | |
| `Delivery` | MessageForwarder, RetryProcessor, DlrProcessor, maintenance, shutdown | `MessageStore` |
| `EventBus` | the broadcast channel | |
| `Pipeline` | session, four processors, registry, forward tasks | `EventBus`, `MessageStore` |
| `Frontend` | Listener, Connection, SmppSession, Shutdown, Worker, the signals of Server | |
| `PersistentStore` | messages and state index of the fjall store, crash and recovery | |
| `Scheduler` | Scheduler, RecurrenceRule, SchedulerRunner | |
| `EsmeStore` | MemoryEsmeStore and its two locks, Esme quotas | |
| `RateLimiter` | RateLimiterStore, TokenBucket | |
| `Balancer` | the strategies of `lb.rs`, called as Cluster calls them | |
| `Routing` | Router, WeightedSplit, Matcher, MatcherKind | |
| `Pricing` | PricingStore, CostRouter | |
| `Firewall` | the rule engine: CompiledFirewall | |
| `MessageFilter` | the firewall filter: Firewall, FirewallEventLog | |
| `Configuration` | validate, FileConfigStore, MemoryConfigStore, the reloads | |
| `MessageLife` | abstract: what delivery promises of every message, without tasks or queues | refined by `Delivery` |
| `Selection` | sorting by key and running totals, as `sort_by_key` and the weighted choices use them | used by the four modules that choose |
| `UpstreamProofs` | theorems | `CircuitBreaker`, alone and as `Upstream` uses it |
| `DeliveryProofs`, `PipelineProofs`, `FrontendProofs`, `PersistentStoreProofs` | theorems | the module they are named for |
| `QuotaProofs` | theorems | `RateLimiter`, `Scheduler` |
| `ChoiceProofs` | theorems | `Balancer`, `Routing`, `MessageFilter`, `Firewall` |
| `ServicesProofs` | theorems | `EsmeStore`, `Configuration`, `Pricing`; the ten parts of `MCServices` side by side |
| `MCDelivery`, `MCRetryCap`, `MCPipeline` | constants and a history variable for TLC | |
| `MCUpstream` | the breaker used directly, and through `Upstream` | `Upstream` |
| `MCServices` | instances of the ten modules from `PersistentStore` to `Configuration`, side by side | all ten |

Correspondence with the code:

* **CircuitBreaker.** One action per access to the state lock or to a counter.
  `cb_pc[c]` says what caller `c` does next with the state it copied: `AllowRequest`,
  `ShouldAttemptReset` and `TransitionToHalfOpen` are `allow_request`; `RecordSuccess`,
  `RecordFailure` and the steps after them are the two record methods. `opened_at` keeps
  the age of the instant only: none, younger or older than `open_timeout`.
* **Upstream.** `ep_pc[c]` is a caller's place in `Cluster::get_connection`. Both
  `is_healthy` tests (the cluster's filter and the endpoint's own) read the flag and the
  breaker in two steps. The breaker's steps are those of `CircuitBreaker`; a caller that
  got a connection leaves without recording, as no code calls `return_connection`. The
  permit is held from `AcquiresPermit` to the end of the connect or of the submission.
* **MessageStore.** A message keeps state, attempts, the SMSC identifier, whether its retry
  is due and whether it has outlived its time to live. `Store`, `Update`, `ExpireOld`,
  `PruneTerminal` are the store's operations, each atomic under the write lock. Which
  terminal messages are evicted, and whether the memory estimate is at its limit, are
  choices.
* **Delivery.** `fwd_pc[id]`, `fwd_left[id]` are process_request of one client request;
  `retry_pc`, `retry_id`, `retry_todo`, `retry_left` the retry loop; `dlr` the receipt
  between the search for its message and the update. `wire`, `accepted` and `fate` are the
  SMSCs: what they were sent, which identifier they gave to which message and what became
  of it. Each await is a boundary between two actions. `Phase` and `Absence` map a message,
  in the store or outside of it, to its phase in `MessageLife`.
* **MessageLife.** Each message has a phase, the identifier it carries and, through it, a
  verdict. It is taken or refused once; while it is unsent it may be put off, given up or
  lapse; it is handed over at most once, under an identifier no other message carries; then
  it settles as the verdict says, or becomes overdue, also to be settled late. Only what is
  over is forgotten. What lapsed may still be sent by the task that had it: this the code
  does, and the abstract specification admits it.
* **EventBus, Pipeline.** Each subscriber has the events it has still to see and a mark
  that it lost some. A processor handles one event per step, except where it awaits: the
  router between storing and routing (`routing`), the forwarder while it waits for a permit
  (`holding`), a task while it connects (`"upstream"`) and while its submit_sm is out
  (`"sent"`, and `"answered"` once the SMSC has accepted it). `EnvelopeId` and `StoredId` are the two identifiers the code draws for one
  request.
* **Frontend.** `at[c]` is where the task of connection `c` is: accepted, handed to the
  channel, at the top of the loop, in the select, handling a PDU. `pdu[c]` keeps the state
  that `handle_pdu` read with the PDU, since a bind acts on that one and the others read it
  again. A branch of the select is one action; the three bind handlers differ in the state
  they set and are one. `permits`, `connections`, `channel` are the listener's; a permit
  goes back with the last holder of the connection, and the channel is a holder for ever.
  `seen[w]` is what a watcher of the shutdown state has seen, so `changed()` is
  `seen # shutdown`. Which pdu comes, whether a write to a peer that is gone fails, and the
  verdict on a password are choices (the server's sessions accept every password).
* **PersistentStore.** An operation is a job of its client, one step per access to a
  partition. `AccessFails` and `Crash` abandon jobs, `Recover` sets the counter from the
  records. `torn` and `raced` remember on which messages an operation was abandoned, and on
  which two met; the properties name these as their exceptions.
* **Scheduler.** `schedule` is four steps, for it takes four locks; `GetDue`, `Send`,
  `MarkDelivered` are the runner. A recurrence is an interval with a limit or an end.
* **EsmeStore.** `call[c].at` says which locks caller `c` has: `save_index` and `lookup`
  the index, `delete` the accounts. An action that needs a lock another caller has is
  disabled. `GetAndRecord`, the copy and the save that follows it, can lose an update. An
  account counts its messages of the day and of the month and what they cost; a quota of 0
  is none.
* **RateLimiter.** The load and the store of a refill are two steps under the bucket's
  lock; the compare-and-exchange of a request is outside of it.
* **Balancer.** A caller lists the healthy endpoints, selects and connects in three steps.
  A strategy is the set of endpoints it may return: one, or for the random ones all.
  `consistent_hash` is what `select` does, a turn by the counter: it is not told the
  destination. The counter has `Span` values instead of 2^64.
* **Routing, Pricing.** Addresses are sequences of digits, a regular expression is the set
  of what it matches, a score is a fraction. Costs are natural numbers of one currency; the
  code's are `i64` in smallest units, and it compares them without a look at the currency. A route is chosen in one step (nothing awaits),
  the prices of the candidates are read one by one.
* **Selection.** A sorted list is given by what it is: the k-th member is the one that k - 1
  others come before. Running totals are a recursive function. Neither needs a recursive
  operator, so that the modules on top can be proved about.
* **Firewall.** An evaluation is one step per condition, for each may wait for a lock. The
  conditions of a rule are a list in which `not`, `and` and `or` name their parts by place;
  `Standing` says what the answers so far come to, or which condition is asked next. A rate
  condition takes two steps: `check_rate_limit` reads the clock (`ReadClock`), waits for the
  lock of the counters and counts (`CountRate`), so that the counter may have started after
  the reading; `duration_since` is then zero. Texts are sequences of letters. What a rule
  without a verdict does (leave the chain), that a chain without a match decides by its own
  policy, and what `Jump`, `Return`, `Delay`, `Mark` and
  `Plugin` do (no more than that) is the code's behaviour.
* **MessageFilter.** A check reads the settings of the ESME, tries rule after rule and writes
  to the log, each a step. A rule's type is a list, in which
  `All` and `Any` name their parts by place. A time window has days and times; a protocol
  rule compares `esm_class`, `protocol_id` and `data_coding` and ignores the types and plans
  of numbers it may give, as the code does.
* **Configuration.** A file holds a configuration, is absent, or is torn. `crossed`
  remembers which kinds of work two tasks have done at once. A reload is the admin API's:
  the one on SIGHUP puts nothing in force, as it waits for workers that never end
  (`frontend_reload`). `started` are the clusters of the start, which no reload replaces.

## 3. Runs

| Run | Instance | Distinct states | Shows |
|---|---|---|---|
| `upstream` | 3 callers, 2 connections, thresholds 2 | 100 311 | the breaker misses no opening or closing and, used directly, leaves the open and the half-open state; permits accounted for, nobody waits behind a connect that hangs, a dead endpoint is refused, health follows the SMSC |
| `upstream_probe` | the same, through the endpoint | violation | an open endpoint is never probed |
| `delivery` | 2 messages, 2 identifiers, 1 permit, store limit 1 | 789 147 | one sender per message, identifiers and outcomes true and final; `KeepsPromise`: every step is one of `MessageLife` |
| `delivery_live` | 2 messages, 1 identifier, 1 permit | 152 253 | messages settle though connects hang; requests are answered while connects end |
| `retry_cap` | 1 message, MAX_RETRIES 5 | violation | the retry cap has no effect |
| `pipeline` | 2 requests, 1 session, bus of 2 with other traffic | 481 560 | one place per request, success only of what an SMSC or the retry queue has, losses only by overflow |
| `pipeline_live` | 2 requests, bus of 1, 1 permit | 80 067 | while connects end, no request stays in the pipeline for ever |
| `pipeline_record` | 1 request, bus of 4 | violation | a failure told to the client is not in the store |
| `frontend` | 2 peers, 2 permits, channel of 1, 1 worker | 101 850 | protocol order, at most one PDU after closing, every permit has its connection, sessions end, SIGTERM ends the process |
| `frontend_reload` | the same | violation | a reload by SIGHUP never ends |
| `frontend_limit` | 2 peers, 1 permit, channel of 2 | violation | the permit of a peer that has gone does not come back |
| `services` | the ten modules below | 1 490 771 | see the next table |

| Part of `services` | Instance | Property |
|---|---|---|
| `PersistentStore` | 2 clients, one the sweeper, 2 identifiers, 1 failed access or crash | `StoreIndexHolds`: every record is found by its state, exactly so at rest; identifiers are not reused; recovery finds all that is live |
| `Scheduler` | 1 thread and the runner, 3 schedules (once, twice, until a date), limits of 1 | `SchedulesKept`: every queued schedule counts, limits are overshot by the concurrent callers at most, deliveries as asked for, one more after a cancel |
| `EsmeStore` | 2 callers, 2 accounts, 2 system ids | `TruthfulIndex`, and `StuckOnlyByDelete`: callers that block each other for good include a delete |
| `RateLimiter` | 2 requests, rate 1, burst 2 | `GrantsBounded`: grants exceed the rate by one token per refill and other request at most |
| `Balancer` | 2 callers, 2 endpoints of weights 2 and 1 | `ChoicesSpread`: exact rounds of round robin and of the weights, level connections by the strategies that count them |
| `Routing` | 2 tables and the empty one, 4 messages, 3 times | `RoutedAsConfigured`: best priority decides, splits keep their shares |
| `Pricing` | 2 clusters, 2 networks, updates while selecting, a price better than all others in every respect | `NothingBetterPassedOver` |
| `Firewall` | 2 walks, 3 chains, a rate, lists that change | `VerdictsHold`: in a window at most twice the threshold less one is let by, and one more for the other evaluation; chains are consulted by priority |
| `MessageFilter` | 2 checks, 8 rules of all kinds or none, settings that change | `AllowedMeansClean`: what passes breaks no restriction, and no blocking rule of the ESME or of the global list that comes first |
| `Configuration` | 2 operators, 4 configurations, 2 of them bad | `ConfigurationHolds`: nothing invalid in force, a whole file after a crash, watchers agree with the store and the admin API with the router |

Bounds and why they are enough. The hazards are conflicts between two or three parties:
two callers and a third that overtakes them (breaker); a message's forward task, the retry
loop, a receipt and maintenance, plus a second message to compete for the permit, the
store's place, the receipt search and the identifiers (delivery); two requests on a bus
shorter than the events they cause, so that lag, full channels and waiting for the permit
all occur (pipeline). In `upstream` a behaviour is either of callers that use the breaker
themselves, as its API and its tests have it, or of callers that come through the endpoint
(`direct` says which). The constant `Parts` names the parts of `MCServices` that a run lets
move, all ten in `services`. The store limit of one message makes every second store evict or
overflow; `QueryLimit` 1 makes the bounded receipt search miss messages; routes include
none, a missing cluster with a fallback, a mock cluster and an SMSC. The threshold of two
is the smallest at which counting differs from a flag. The counters of `HealthChecker` are
saturated at their thresholds, beyond which no test tells them apart. In `frontend` the permits outnumber the places of the channel, so that both limits are met;
two kinds of bind (one that may submit, one that may not) are enough to tell the handlers
apart, and an idle timeout below and above the second of the third branch are both tried.
In `services` every part has the two callers its races need, and values chosen so that the
counters wrap, limits are reached, a split has an empty share, a configuration is bad in
each of the ways the code tells apart. Clocks and counters end at a named bound. Messages,
identifiers and requests are interchangeable, hence the symmetry sets in the safety runs;
the liveness runs use none. `CHECK_DEADLOCK FALSE` stands where the system may come to
rest: all requests answered and everything settled or shut down.

Fairness. Weak fairness of each task's steps stands for the tokio runtime, which polls
every task that can go on, for intervals that tick, for clocks that advance, and for the
awaits that the code bounds: the wait for a permit (`acquire_timeout`), the answer to a
submission and the connect of a health check have timeouts. The connect in
`ConnectionPool::get` has none (`cluster/pool.rs:163`), so no fairness is assumed of it: in
`Upstream`, `Delivery` and `Pipeline` a caller may stay in it for ever, with its permits.
Where a property needs that connects end (`DeadEndpointIsRefused`, `RequestsAreAnswered`,
`EveryRequestIsFinished`, `EndpointIsProbed`), it says so: its premise is the `ConnectsEnd`
of its module. Without it, connects that hang keep every permit of the forwarder, and requests
wait behind them without an answer; `CallsEnd`, `HealthFollows` and `EventuallySettled` hold
all the same. Requests to the breaker and to the cluster keep coming in `upstream` and
`upstream_probe`; the properties there are of the form "as long as somebody asks". In
`Frontend` the select polls its branches in random order, so the end of the stream of a peer
that is gone, and the idle timeout of a silent one where it is shorter than the other timer,
are taken eventually although other branches are taken in between: strong fairness of these
two. Writes to clients are assumed to end. Nothing else is assumed of clients, SMSCs, other
publishers or the operator. The process ends with its main task, hence no fairness after
that.

The assumption on the upstream that matters: an SMSC does not give one identifier to two
messages while both are stored, also not across clusters (the receipt search does not look
at the cluster).

## 4. Proofs

TLAPS checks the eight proof modules from nothing. The constants are arbitrary sets and
numbers subject to named assumptions, which stand in the module that declares the constants
and which TLC evaluates on the runs' instances:

| Assumption | Says |
|---|---|
| `BalancerAssumption`, `RoutingAssumption` | finitely many callers; weights and shares are natural numbers, priorities are numbers; the counters have a positive span |
| `MessageFilterAssumption`, `FirewallAssumption` | messages, rules and conditions have the fields their kind has; priorities, windows and thresholds are numbers; the parts of a condition stand after it; finitely many evaluations at once |
| `BreakerAssumption`, `UpstreamAssumption`, `LimitsAssumption`, `BusAssumption` | thresholds, pool size, connection limits, channel and bus sizes are positive |
| `StoreAssumption`, `DeliveryAssumption` | limits are numbers, permits are positive; None, the mock identifier and the SMSCs' identifiers are distinct |
| `PipelineAssumption` | the four processors, positive permits and channel size; nobody is no request and no session |
| `PersistentAssumption` | the sweeper is a client; callers mark messages with states other than Pending |
| `EsmeAssumption`, `ConfigsAssumption` | the quotas and the cost of a message are numbers; an absent or torn file is no configuration |
| `PricingAssumption` | finitely many clusters; prices have the fields the code gives them; selections may have no network |
| `RateAssumption`, `SchedulerAssumption` | rate and burst are positive, limits and plans are numbers; finitely many concurrent requests, and threads |

Each theorem on a safety property rests on an inductive invariant with a name, whose parts
are conjuncts with a name each; a lemma per action, or per group of actions that treat a
part alike, shows that the parts are kept.

**UpstreamProofs.** The breaker alone: `BreakerInvariant`: types, and an opening instant exactly while
the circuit is not closed. `OpeningIsNeverMissed` and `ClosingIsNeverMissed`: a counter at
its threshold in the state where it counts always has a caller on its way to the
transition. Both are inductive with the invariant: a counter reaches its threshold only in
a step that sends its caller to the transition, and what takes the caller away (the
transition itself) also leaves the state or resets the counter.

With its callers in place, `UpstreamInvariant`: how far a caller is in `get_connection` and how far
in the breaker go together (`StepsAgree`), and the callers between acquiring a permit and
dropping it are as many as permits are missing (`Accounts`, counted with the theorems on
finite sets). From it follow `NoPermitLost` and `UpstreamOpens`: the property the breaker
has alone, it has also as cluster and endpoint call it.

**DeliveryProofs.** The properties `OneSenderAtATime`, `IdentifierIsTheAcceptances`,
`OutcomeIsTrue` and `RetryQueueCoversRetrying` are not inductive: that a blind write-back
is harmless depends on where the other tasks are. The inductive invariant `IInv` has five
parts:

* `TypeOK`;
* `Control`: what the retry loop works on or has listed has left its forward task, a sender
  waiting for an answer still has a cluster list, a receipt in hand is for a message whose
  forwarding has begun;
* `Wires`: a submission is outstanding only while its sender waits, and an identifier on
  the wire was given to the message its sender is sending;
* `ReceiptsAreTrue`: final receipts, under way or in hand, tell the fate of the submission;
* `Records`: for every stored message, how its state, attempts and identifier go together,
  that a message in a sender's hands has no identifier and is Pending, Retrying or Expired,
  and that the message of a receipt in hand has the receipt's identifier and is in flight
  or expired.

The argument: a sender's message has no identifier, so no receipt finds it, so nobody
settles it (`InTask`, `InRetry`); hence a write-back replaces at most an Expired mark
(`FwdWritesBack`, `RetryWritesBack`). A message gets an identifier once, when its sender
stops for good, so a receipt found for it stays about it. There is one lemma per part, with
one step per group of actions that treat the part alike; `StoreRests`, `QuietStep` and
`UpdateEffect` say what the steps that leave, age or update the store do to the records.
From `DeliveryInvariant` (`Spec => []IInv`) follow the four invariants, type correctness,
and the action properties `FinalIsFinal` and `LiveMessagesStay`.

`PromiseKept`: `Spec => KeepsPromise`, the refinement of `MessageLife`. Initial states map
to initial states. For a step there are two cases. A message outside the store stays
outside or is taken (`AbsentLives`, with `Closed`, one more invariant: a request turned away
by a shutdown stays away). A stored message makes one of the moves of `MessageLife`
(`StoredLives`): for the blind write-backs this needs that a sender's message is unsent and
carries nothing (`WriteBackLives`), for receipts that the receipt in hand is true, both from
`IInv`. Verdicts are given once (`VerdictStep`). That no other message carries the
identifier a message is handed over with comes from `Wires` and `Records`: each was given to
the message it is on the wire for, or stored with.

**PipelineProofs.** `PipelineInv` has types, sizes, and two parts that matter. `OneStage`: a
request is in one of the stages (waiting before a processor, in the router, before the
forwarder's semaphore, in a task, in a channel, answered), and once in it. Every step moves
a request from one stage to another, or away (`StageStep`); the lemmas on the bus say that
publishing keeps the end of a queue, that handling takes its head, and that lag drops only
from the front. `SuccessIsTrue`: a success on the bus, in a channel or at the client is about
an accepted request: as the forwarder looks for the message under the envelope's identifier,
it never takes the branch that answers success for a retry, and the invariant is stronger
than `SuccessIsBacked`, which admits that branch. `NeverTwice` (`OnePlaceAtATime`),
`NoEmptySuccess` (`SuccessIsBacked`) and the action property `NothingElseIsLost` (`LostOnlyByOverflow`)
follow, for a bus and channels of any size.

**FrontendProofs.** `FrontendInv`: the connection map, the channel and the permits agree
with where each connection is (`Admission`); a PDU taken up after closing is the last
(`LastOne`); the state of a connection tells what its client has done, also the state that
was read with the PDU in hand (`StateTells`). From `Admission` follow `FrontendTyped` and
`EveryPermitHeld`, from `LastOne` `LastIsOneMore`, and from `StateTells` the action property
`ClientKeepsOrder`: a bind acts on a stale state, and is still the only one, because nobody
but the session leaves Open for a bound state.

**PersistentStoreProofs.** `StoreIndexHolds` is not inductive: what is in the index depends
on how far the job on the message is. `Halfway` says so, step by step, and `Undisturbed`
says that a message no operation was abandoned on and no two met on is exactly as its one
job left it. `CounterAhead` and `NewOnesAlone` give fresh identifiers: the counter of a
restarted process is above every record (`HasMax`), so a new message's identifier is nobody
else's. `FoundByState` is inductive with these.

**QuotaProofs.** The limits that are tested in one step and acted on in another. For the
rate limiter, `LoadedAccounted` is the strengthening: while a refill has the token count in
hand, what it will store, what was granted and what the requests past their own refill may
still take stay within the allowance and one token of each other request; the store then
turns this into `WithinAllowance` with one refill more. For the scheduler, threads between
test and insertion are counted with what is there (`TotalBounded`, `EsmeBounded`), and
`Deliveries` ties the count in the queue to what was sent, in the runner's batch and in its
hands. `LimitedGrants` and `SchedulerKeeps` state the properties.

**ServicesProofs.** `EsmeInv`: an entry of the index is explained by the save that is about
to store its account, by the account, or by the delete that is about to drop it, unless two
saves overlapped. `ConfigurationInv`: what a task carries has passed the checks before its
step, and work of a kind that never crossed leaves temporary file, watchers and admin API
as the one task at it has left them. `PricingInv`: a selection has read or will read every
candidate, what it read is in force unless a price changed, and what it took has the highest
score (`HighestTaken`). Scores are fractions with positive denominators and compared as such;
that the comparison is total and transitive, and that a finite sequence has a best element,
are lemmas. `IndexIsTruthful`, `OnlyGoodConfigurations` and `BestOfferTaken` state the
properties.

`PricingTyped` adds that there is one price to a key, however an update and the loading of a
map take turns.

**ChoiceProofs.** First the facts the four parts share: `Sorted` lists every member once and
in order (`SortedIsSorted`), `SortByKey` is stable, running totals rise and every number
below the total falls into one stretch of them (`StretchFound`), and how many of n
consecutive numbers leave a remainder in a stretch (`Hits`, bounded from both sides for whole
and for begun rounds). Where a fact is about every number, a least
counterexample is refuted (`HasLeast`, from the well-foundedness of the natural numbers).

* `BalancerInv`. `Turns`: the tally of an endpoint is `Hits(ticket) - Hits(ticket - chosen)`
  over its stretch of the round, so exact shares follow for any list and any weights.
  `Levelled`: loads are compared with the connections under way added on one side; a choice
  turns the least load into one more under way, a connection moves it over, and neither
  breaks the bound. `SpreadAsPromised` is `ChoicesSpread`.
* `RoutingInv`. The compiled table is by priority and, for equal priorities, by place; what
  a split has sent is `SplitSelect` of 0, 1, 2 and so on (`SentInOrder`), from which the
  shares follow by counting. `MessagesRoutedAsConfigured` is `RoutedAsConfigured`.
* `MessageFilterInv`. The rules a check has still to try are a tail of the rules it began
  with, those of the ESME before the global ones, and each before has been passed over at the hour it was tried (`Tried`): rules of
  other times and settings that change meanwhile are why this is an invariant and not a
  look at the present. `AllowedIsClean` is `AllowedMeansClean`.
* `FirewallInv`. Chains are by priority. For the rates, `Law` says of one counter that its windows start at least a
  window apart, that the message that started one was counted in it, and that no window let
  more by than the threshold. A span of the window then meets two windows of the counter at
  most, and not the first message of the earlier one: twice the threshold less one. `Patient`
  counts the rest: evaluations that hold a reading from before a moment, together with those
  of them already counted in a window from after it, are all evaluations but one, the one
  that started that window. `SpanBound` adds the two up; a small instance reaches the bound,
  so it cannot be lowered. `VerdictsAlwaysHold` is `VerdictsHold`.

**The composition.** `MCServices` lets one of its ten parts move, the one `part` names.
`PartsAreThemselves`: `ServicesSpec` implies the specification of every part, as a step of
another leaves its variables alone. Hence `ServicesTyped` (`ServicesTypeOK`: the part that moves has its types)
and `ServicesKeepPromises`, the ten safety properties together, for all constants that meet
the parts' assumptions.

Two proof attempts found something about the models. `AllowedMeansClean` first held
a rule of the ESME to the priorities of the global list whenever an equal rule stood there
too, which the code does not do; it now tells the two lists apart. And the bound on rates could only be proved with the clock read under
the lock, which the code does not do: the model now has the two steps, and the property the
bound that is true of them.

Only model-checked:

* liveness, which is out of the prover's reach: `BreakerIsProbed`, `BreakerProbingEnds`, `CallsEnd`,
  `DeadEndpointIsRefused`, `HealthFollows`, `RequestsAreAnswered`, `EventuallySettled`,
  `EveryRequestIsFinished`, `SessionsEnd`, `TermEnds`;
* `StuckOnlyByDelete`, which says that steps are not enabled: the prover has no `ENABLED`.

Every other invariant and action property of the passing runs is stated by a theorem.

## 5. What the violations show

* `upstream_probe`: `Endpoint::get_connection` and the cluster's filter require a closed
  circuit before the breaker is asked, so an endpoint whose circuit opened is never used
  again. The breaker alone satisfies the same property (`BreakerIsProbed`).
* `pipeline_record`: the pipeline's router and forwarder update the store under the
  envelope's identifier, the message was stored under its own. Updates do nothing, and the
  forwarder's retry branch, which would answer success, is never taken.
* `retry_cap`: MAX_RETRIES is compared with a counter only successes increment; retries go
  on, at the first backoff step, until the message expires.
* `frontend_reload`: a reload joins worker threads that leave only when the shutdown state
  changes, and changes nothing: the signal loop waits for ever. The same wait is what
  `TermEnds` excludes: a worker that subscribes after the SIGTERM has changed the state.
* `frontend_limit`: the listener sends every connection into a channel that nobody receives
  from. Connection and permit stay there, so `max_connections` is a limit of the peers a
  listener serves in its life, and the accept loop stops for good when the channel is full.

Six more disagreements, and a wait without bound, show in the models without a run of their own.
`transition_to_closed` tests only that the circuit is not closed, so a caller that counted
the last success closes a circuit that another has opened again meanwhile. The server counts
no connections, so a shutdown does not "wait for existing connections to finish"
(`bootstrap/server.rs:198`): in `Frontend`, `Sigterm` goes straight to joining the workers.
An idle timeout longer than a second never fires, for the third branch of the select
begins it anew: `SessionsEnd` promises the end of a silent session for short ones only. In the firewall a chain in which no rule matches decides
by its own policy, and every policy is a verdict (`ChainPolicy`): the "Default policy when no
rules match" (`firewall/types.rs:19`) is left for messages that rules without a verdict took
out of every chain, and so is a second input chain, though the example configuration says of
one "runs after main input chain" (`examples/firewall.yaml:236`). `ConsistentHash::select`
goes round by its counter and the ring is asked by nobody, so messages with the same key do
not "always go to the same endpoint" (`cluster/lb.rs:233`): `FairShares` is not claimed of
it. A reload of the "gateway state (router, clusters)" (`admin/server.rs:217`) gives new
clusters to the new router only and leaves `GatewayState.clusters`, from which the
forwarders take theirs: in `Configuration`, `started` is changed by no reload, and
`ReadersAgree` does not speak of it. And
`Client::connect` is awaited without a timeout while a permit of the pool, and one of the
forwarder, is held: the premises `ConnectsEnd` are about this.

Some properties that hold are worth knowing as limits. `StuckOnlyByDelete`: a save and a delete can block each other
for good. `GrantsBounded` and `SchedulesKept` say by how much limits are exceeded.
`LostOnlyByOverflow` lists the ways
in which a request disappears without an answer (bus lag, full or closed response
channel), and `OneSenderAtATime` allows a message that expired while being sent to come
back as in flight.

## 6. What is left

All parts planned are modelled, and all safety properties proved. What would say more about
the system: the other tables of the persistent store, should the server come to use them; and
the liveness properties, once a prover handles fairness.

## 7. Not modelled

CDR output, telemetry, feedback records, the admin HTTP views and plugin loading, which are
I/O or data no decision of the message path reads; the mock SMSC, a test server; the parsing
and the defaults of configuration files. In the modelled parts: statistics counters, log
output, the memory estimate as a number, deliver_sm that is not a receipt, the fields of
PDUs, TLS, the hash ring (`select_by_key`), `rank_routes`, the tables of the persistent
store other than messages, and `reset_to_pending`, `return_connection`, `warm` and the event
reactor, which nothing calls.
