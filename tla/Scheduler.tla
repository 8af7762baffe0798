----------------------------- MODULE Scheduler -----------------------------
(***************************************************************************)
(* Scheduled delivery, store/scheduler.rs: the queue of schedules, the index *)
(* by ESME that the quota is taken from, and the runner that delivers.       *)
(*                                                                         *)
(* The queue and the index have a lock each and schedule takes them one      *)
(* after the other, so threads that schedule interleave between its tests    *)
(* and its insertions.  The runner is one more thread: it schedules what     *)
(* arrives on its channel, and at every check delivers what is due.          *)
(*                                                                         *)
(* Times are small numbers.  An interval of zero is "no recurrence", a limit *)
(* of zero deliveries is "unlimited", as in the code.                        *)
(***************************************************************************)
EXTENDS Naturals, FiniteSets

CONSTANTS
    Schedules,   \* identifiers of the schedules that are submitted
    Plan,        \* what each is: [esme, at, interval, max, end]
    Threads,     \* tasks that call schedule, the runner among them
    Runner,      \* the task of SchedulerRunner::run
    BatchSize,   \* config.batch_size
    MaxPerEsme,  \* config.max_per_esme
    MaxTotal,    \* config.max_total
    MaxNow,      \* bound: the clock
    MaxSent      \* bound: deliveries of one schedule

ASSUME SchedulerAssumption ==
    /\ Runner \in Threads /\ IsFiniteSet(Threads) /\ "none" \notin Schedules
    /\ {BatchSize, MaxPerEsme, MaxTotal, MaxNow, MaxSent} \subseteq Nat
    /\ \A s \in Schedules : {Plan[s].at, Plan[s].interval, Plan[s].max, Plan[s].end} \subseteq Nat

VARIABLES
    queue,       \* Scheduler.queue: schedule -> [status, at, count], or absent
    by_esme,     \* Scheduler.by_esme: the identifiers it lists
    now,         \* the clock
    adding,      \* what each thread does in schedule: [at, id]
    batch,       \* what get_due returned and the runner has not dealt with
    sending,     \* the one the runner has sent and not marked yet, or "none"
    output_open, \* the receiver of the output channel exists
    submitted,   \* schedules submitted so far
    sent,        \* deliveries of each schedule
    last         \* history: deliveries a cancelled schedule may reach, 0 while it is not cancelled

sc_vars == <<queue, by_esme, now, adding, batch, sending, output_open, submitted, sent, last>>

Absent == [status |-> "Absent", at |-> 0, count |-> 0]
Queued == {s \in Schedules : queue[s].status # "Absent"}
Of(esme) == {s \in by_esme : Plan[s].esme = esme}

Free == [at |-> "free", id |-> "none"]

new ==
    /\ queue = [s \in Schedules |-> Absent]
    /\ by_esme = {}
    /\ now = 0
    /\ adding = [t \in Threads |-> Free]
    /\ batch = {}
    /\ sending = "none"
    /\ output_open = TRUE
    /\ submitted = {}
    /\ sent = [s \in Schedules |-> 0]
    /\ last = [s \in Schedules |-> 0]

\* The runner handles one branch of its select at a time.
RunnerFree == adding[Runner] = Free /\ batch = {} /\ sending = "none"
---------------------------------------------------------------------------
(* schedule, in the steps its locks make of it *)

Step(t, at, s) == adding' = [adding EXCEPT ![t] = [at |-> at, id |-> s]]

TotalOffByOne(t, s) ==
    /\ s \notin submitted /\ adding[t] = Free
    /\ t = Runner => RunnerFree
    /\ submitted' = submitted \cup {s}
    /\ IF Cardinality(Queued) > MaxTotal THEN UNCHANGED adding ELSE Step(t, "esme", s)
    /\ UNCHANGED <<queue, by_esme, now, batch, sending, output_open, sent, last>>

\* A caller, or the runner for a request of its channel, calls schedule: the total is
\* tested under the read lock of the queue.
CheckTotal(t, s) ==
    /\ s \notin submitted /\ adding[t] = Free
    /\ t = Runner => RunnerFree
    /\ submitted' = submitted \cup {s}
    /\ IF Cardinality(Queued) >= MaxTotal THEN UNCHANGED adding ELSE Step(t, "esme", s)
    /\ UNCHANGED <<queue, by_esme, now, batch, sending, output_open, sent, last>>

\* The quota of the ESME is tested under the read lock of the index.
CheckEsme(t) ==
    LET s == adding[t].id IN
    /\ adding[t].at = "esme"
    /\ IF Cardinality(Of(Plan[s].esme)) >= MaxPerEsme
       THEN adding' = [adding EXCEPT ![t] = Free]
       ELSE Step(t, "queue", s)
    /\ UNCHANGED <<queue, by_esme, now, batch, sending, output_open, submitted, sent, last>>

PushQueue(t) ==
    LET s == adding[t].id IN
    /\ adding[t].at = "queue"
    /\ queue' = [queue EXCEPT ![s] = [status |-> "Pending", at |-> Plan[s].at, count |-> 0]]
    /\ Step(t, "index", s)
    /\ UNCHANGED <<by_esme, now, batch, sending, output_open, submitted, sent, last>>

PushIndex(t) ==
    /\ adding[t].at = "index"
    /\ by_esme' = by_esme \cup {adding[t].id}
    /\ adding' = [adding EXCEPT ![t] = Free]
    /\ UNCHANGED <<queue, now, batch, sending, output_open, submitted, sent, last>>
---------------------------------------------------------------------------
(* cancel, get_due, mark_delivered *)

\* cancel drops the schedule from the queue, whatever its status, and only from there.
Cancel(s) ==
    /\ s \in Queued
    /\ queue' = [queue EXCEPT ![s] = Absent]
    /\ last' = [last EXCEPT ![s] = sent[s] + 1]
    /\ UNCHANGED <<by_esme, now, adding, batch, sending, output_open, submitted, sent>>

Due == {s \in Queued : queue[s].status = "Pending" /\ queue[s].at <= now /\ sent[s] < MaxSent}

GetDueUnmarked ==
    /\ RunnerFree /\ Due # {}
    /\ \E D \in SUBSET Due :
          /\ Cardinality(D) = IF Cardinality(Due) < BatchSize THEN Cardinality(Due) ELSE BatchSize
          /\ batch' = D
    /\ UNCHANGED <<queue, by_esme, now, adding, sending, output_open, submitted, sent, last>>

\* The check of the runner: get_due marks up to batch_size due schedules, in no
\* particular order, and returns copies of them.
GetDue ==
    /\ RunnerFree /\ Due # {}
    /\ \E D \in SUBSET Due :
          /\ Cardinality(D) = IF Cardinality(Due) < BatchSize THEN Cardinality(Due) ELSE BatchSize
          /\ batch' = D
          /\ queue' = [s \in Schedules |->
                          IF s \in D THEN [queue[s] EXCEPT !.status = "Delivering"] ELSE queue[s]]
    /\ UNCHANGED <<by_esme, now, adding, sending, output_open, submitted, sent, last>>

\* The runner sends the copy, cancelled meanwhile or not; it drops one it cannot send.
Send(s) ==
    /\ s \in batch /\ sending = "none"
    /\ batch' = batch \ {s}
    /\ IF output_open
       THEN /\ sending' = s
            /\ sent' = [sent EXCEPT ![s] = @ + 1]
       ELSE UNCHANGED <<sending, sent>>
    /\ UNCHANGED <<queue, by_esme, now, adding, output_open, submitted, last>>

\* RecurrenceRule::next_from: a time past the end date is moved back to it.
next_from(s, at) ==
    IF at + Plan[s].interval > Plan[s].end THEN Plan[s].end ELSE at + Plan[s].interval

\* ScheduledMessage::can_repeat.
can_repeat(s, count) == Plan[s].interval > 0 /\ (Plan[s].max = 0 \/ count < Plan[s].max)

MarkUnlists ==
    LET s == sending IN
    /\ s # "none"
    /\ sending' = "none"
    /\ queue' = [queue EXCEPT ![s] = IF can_repeat(s, sent[s]) THEN [@ EXCEPT !.status = "Pending"] ELSE Absent]
    /\ by_esme' = by_esme \ {s}
    /\ UNCHANGED <<now, adding, batch, output_open, submitted, sent, last>>

MarkTheCopy ==
    LET s == sending IN
    /\ s # "none"
    /\ sending' = "none"
    /\ IF can_repeat(s, sent[s])
       THEN /\ queue' = [queue EXCEPT ![s] = [status |-> "Pending", at |-> next_from(s, @.at),
                                              count |-> sent[s]]]
            /\ UNCHANGED by_esme
       ELSE queue' = [queue EXCEPT ![s] = Absent] /\ by_esme' = by_esme \ {s}
    /\ UNCHANGED <<now, adding, batch, output_open, submitted, sent, last>>

\* mark_delivered: the schedule, if it is still there and Delivering, is due again at its
\* next time or leaves the queue and, the index lock nested in the queue's, the index.
MarkDelivered ==
    LET s == sending
        count == queue[s].count + 1
    IN
    /\ s # "none"
    /\ sending' = "none"
    /\ IF queue[s].status # "Delivering"
       THEN UNCHANGED <<queue, by_esme>>
       ELSE IF can_repeat(s, count)
       THEN /\ queue' = [queue EXCEPT ![s] = [status |-> "Pending", at |-> next_from(s, @.at),
                                              count |-> count]]
            /\ UNCHANGED by_esme
       ELSE queue' = [queue EXCEPT ![s] = Absent] /\ by_esme' = by_esme \ {s}
    /\ UNCHANGED <<now, adding, batch, output_open, submitted, sent, last>>

CloseOutput ==
    /\ output_open
    /\ output_open' = FALSE
    /\ UNCHANGED <<queue, by_esme, now, adding, batch, sending, submitted, sent, last>>

Tick ==
    /\ now < MaxNow
    /\ now' = now + 1
    /\ UNCHANGED <<queue, by_esme, adding, batch, sending, output_open, submitted, sent, last>>

RunnerNext == GetDue \/ MarkDelivered \/ \E s \in Schedules : Send(s)

ThreadNext(t) == CheckEsme(t) \/ PushQueue(t) \/ PushIndex(t)

SchedulerNext ==
    \/ \E t \in Threads : ThreadNext(t) \/ \E s \in Schedules : CheckTotal(t, s)
    \/ \E s \in Schedules : Cancel(s)
    \/ RunnerNext \/ CloseOutput \/ Tick

SchedulerSpec == new /\ [][SchedulerNext]_sc_vars
---------------------------------------------------------------------------
SchedulerTypeOK ==
    /\ queue \in [Schedules -> [status : {"Absent", "Pending", "Delivering"},
                                at : Nat, count : 0..MaxSent]]
    /\ by_esme \subseteq Schedules /\ submitted \subseteq Schedules /\ batch \subseteq Schedules
    /\ now \in 0..MaxNow
    /\ adding \in [Threads -> [at : {"free", "esme", "queue", "index"}, id : Schedules \cup {"none"}]]
    /\ sending \in Schedules \cup {"none"}
    /\ output_open \in BOOLEAN
    /\ sent \in [Schedules -> 0..MaxSent] /\ last \in [Schedules -> 0..(MaxSent + 1)]

\* The quota misses nothing: a queued schedule is listed for its ESME, or the thread that
\* queued it is about to list it, also when it is delivered and due again in between
\* (schedule, mark_delivered).
QuotaCoversQueue ==
    \A s \in Queued : s \in by_esme \/ \E t \in Threads : adding[t] = [at |-> "index", id |-> s]

\* The limits are tested under one lock and acted on under another: threads that pass a
\* test together overshoot it, by no more than the others there are (schedule).
OvershootBounded ==
    /\ Cardinality(Queued) <= MaxTotal + Cardinality(Threads) - 1
    /\ \A s \in Schedules : Cardinality(Of(Plan[s].esme)) <= MaxPerEsme + Cardinality(Threads) - 1

\* A schedule is delivered no more often than it asked for: once without a recurrence,
\* max_deliveries times with a limit (get_due, mark_delivered, can_repeat).
DeliveredAsAsked ==
    \A s \in Schedules :
        /\ Plan[s].interval = 0 => sent[s] <= 1
        /\ (Plan[s].interval > 0 /\ Plan[s].max > 0) => sent[s] <= Plan[s].max

\* A cancellation that comes after get_due took its copy lets one more delivery through,
\* never two (cancel, SchedulerRunner::run).
OneMoreAfterCancel == \A s \in Schedules : last[s] > 0 => sent[s] <= last[s]

\* However schedule, cancel and the runner interleave, the limits are overshot by the
\* concurrent callers at most, every queued schedule counts towards its quota, and no
\* schedule is delivered more often than it asked for, or twice after its cancellation.
SchedulesKept == QuotaCoversQueue /\ OvershootBounded /\ DeliveredAsAsked /\ OneMoreAfterCancel
===========================================================================
