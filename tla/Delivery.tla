----------------------------- MODULE Delivery -----------------------------
(***************************************************************************)
(* Store-and-forward delivery: MessageForwarder (forwarder/processor.rs),  *)
(* RetryProcessor (forwarder/retry.rs), DlrProcessor (forwarder/dlr.rs)    *)
(* and the maintenance task, sharing one MessageStore.                     *)
(*                                                                         *)
(* A forward task and the retry loop read a message, wait for the upstream *)
(* and write the message back; receipts, expiry and eviction happen in     *)
(* between.  Each action is one access to shared state or one step of the  *)
(* upstream.                                                               *)
(*                                                                         *)
(* The upstream SMSCs are environment: a submit_sm may find no connection, *)
(* be rejected, or be accepted; the answer to an accepted one may be lost  *)
(* (timeout, I/O error), and its delivery receipts come at any time after  *)
(* the acceptance, any number of times.                                    *)
(*                                                                         *)
(* The upstream's identifiers are unique.  Time is not measured: a task    *)
(* may take longer than a message lives.                                   *)
(*                                                                         *)
(* Left out: deliver_sm PDUs that are not receipts (no state changes), the *)
(* feedback records, the offer of a receipt to the client's session, and   *)
(* the read locks of the router.                                           *)
(***************************************************************************)
EXTENDS MessageStore, Sequences

CONSTANTS
    Routes,         \* what Router::route may answer: the clusters to try, << >> for none
    Concurrency,    \* permits of MessageForwarder's semaphore
    MaxRetries,     \* MAX_RETRIES of the retry processor
    DlrChannel,     \* capacity of the DLR processor's channel
    QueryLimit      \* how many messages the DLR processor looks at per state

\* The retry loop as the sender of a submit_sm, and as no message.
RetryLoop == "retry"

ClusterKind == {"upstream", "mock", "missing"}

ASSUME DeliveryAssumption ==
    /\ Routes \subseteq Seq(ClusterKind)
    /\ Concurrency \in Nat \ {0}
    /\ MaxRetries \in Nat
    /\ DlrChannel \in Nat /\ QueryLimit \in Nat
    /\ RetryLoop \notin MessageIds
    /\ NoMessage \notin MessageIds

VARIABLES
    running,     \* the shutdown watch still says Running
    fwd_pc,      \* progress of each client request through MessageForwarder
    fwd_left,    \* clusters its process_request has still to try
    result,      \* what the client's oneshot channel got
    retry_pc,    \* progress of the retry loop
    retry_id,    \* the message it works on
    retry_todo,  \* the rest of the list get_ready_for_retry returned
    retry_left,  \* clusters it has still to try for retry_id
    wire,        \* the submit_sm each sender waits for, and the SMSC's answer to it
    accepted,    \* which message each SMSC identifier was given to
    fate,        \* what became of it downstream
    dlrs,        \* delivery receipts on their way to the DLR processor
    dlr          \* the receipt being processed and the message found for it

fwd_vars == <<fwd_pc, fwd_left, result>>
retry_vars == <<retry_pc, retry_id, retry_todo, retry_left>>
smsc_vars == <<wire, accepted, fate>>
dlr_vars == <<dlrs, dlr>>
vars == <<store_vars, running, fwd_vars, retry_vars, smsc_vars, dlr_vars>>

\* The retry loop sends one message at a time, each forward task its own.
Senders == MessageIds \cup {RetryLoop}

\* No submit_sm outstanding; sent, not accepted (yet); accepted as sid.
IdleWire == [sent |-> FALSE, sid |-> NoId]
SentWire == [sent |-> TRUE, sid |-> NoId]

Fates == {"Delivered", "Undeliverable"}
Receipts == [sid : SmscIds, status : Fates \cup {"Enroute"}]

\* fwd_pc[id] of a request whose process_request task is running and holds a permit.
TaskSteps == {"routing", "trying", "waiting", "requeue", "fail"}

IdleDlr == [on |-> FALSE, sid |-> NoId, status |-> "Enroute", id |-> RetryLoop]

Init ==
    /\ StoreInit
    /\ running = TRUE
    /\ fwd_pc = [id \in MessageIds |-> "new"]
    /\ fwd_left = [id \in MessageIds |-> << >>]
    /\ result = [id \in MessageIds |-> "none"]
    /\ retry_pc = "idle" /\ retry_id = RetryLoop /\ retry_todo = {} /\ retry_left = << >>
    /\ wire = [s \in Senders |-> IdleWire]
    /\ accepted = [sid \in SmscIds |-> NoMessage]
    /\ fate = [sid \in SmscIds |-> "none"]
    /\ dlrs = {} /\ dlr = IdleDlr
---------------------------------------------------------------------------
(* MessageForwarder *)

FwdGoto(id, s) == fwd_pc' = [fwd_pc EXCEPT ![id] = s]

\* process_request ends with answer r for the client.
Reply(id, r) ==
    /\ FwdGoto(id, "done")
    /\ fwd_left' = [fwd_left EXCEPT ![id] = << >>]
    /\ result' = [result EXCEPT ![id] = r]

\* ForwarderHandle::forward puts a request into the channel.
Forward(id) ==
    /\ fwd_pc[id] = "new"
    /\ FwdGoto(id, "queued")
    /\ UNCHANGED <<store_vars, running, fwd_left, result, retry_vars, smsc_vars, dlr_vars>>

\* run receives a request; it takes no other until this one has its permit.
Recv(id) ==
    /\ running
    /\ fwd_pc[id] = "queued" /\ \A i \in MessageIds : fwd_pc[i] # "received"
    /\ FwdGoto(id, "received")
    /\ UNCHANGED <<store_vars, running, fwd_left, result, retry_vars, smsc_vars, dlr_vars>>

\* run gets a permit and spawns process_request, whose first step stores the message.
SpawnAndStore(id) ==
    /\ fwd_pc[id] = "received"
    /\ Cardinality({i \in MessageIds : fwd_pc[i] \in TaskSteps}) < Concurrency
    /\ Store(id)
    /\ FwdGoto(id, "routing")
    /\ UNCHANGED <<running, fwd_left, result, retry_vars, smsc_vars, dlr_vars>>

\* Router::route finds nothing: the message fails and the client is told.
NoRoute(id) ==
    /\ fwd_pc[id] = "routing" /\ << >> \in Routes
    /\ Update(id, mark_failed(messages[id]))
    /\ Reply(id, "error")
    /\ UNCHANGED <<running, retry_vars, smsc_vars, dlr_vars>>

\* Router::route answers a primary cluster and its fallbacks.
Route(id) ==
    /\ fwd_pc[id] = "routing"
    /\ \E r \in Routes \ {<< >>} : fwd_left' = [fwd_left EXCEPT ![id] = r]
    /\ FwdGoto(id, "trying")
    /\ UNCHANGED <<store_vars, running, result, retry_vars, smsc_vars, dlr_vars>>

\* The next cluster does not exist, or has no healthy connection.
TryFails(id) ==
    /\ fwd_pc[id] = "trying" /\ fwd_left[id] # << >> /\ Head(fwd_left[id]) # "mock"
    /\ fwd_left' = [fwd_left EXCEPT ![id] = Tail(@)]
    /\ UNCHANGED <<store_vars, running, fwd_pc, result, retry_vars, smsc_vars, dlr_vars>>

\* try_forward_to_cluster has a connection and sends the submit_sm.
Send(id) ==
    /\ fwd_pc[id] = "trying" /\ fwd_left[id] # << >> /\ Head(fwd_left[id]) = "upstream"
    /\ FwdGoto(id, "waiting")
    /\ wire' = [wire EXCEPT ![id] = SentWire]
    /\ UNCHANGED <<store_vars, running, fwd_left, result, retry_vars, accepted, fate, dlr_vars>>

\* A mock cluster answers at once with a synthetic identifier.
MockForwarded(id) ==
    /\ fwd_pc[id] = "trying" /\ fwd_left[id] # << >> /\ Head(fwd_left[id]) = "mock"
    /\ Update(id, InFlightAs(messages[id], MockId))
    /\ Reply(id, "success")
    /\ UNCHANGED <<running, retry_vars, smsc_vars, dlr_vars>>

\* A good answer arrives: the identifier is stored, the message is in flight and the
\* client is told.
Forwarded(id) ==
    /\ fwd_pc[id] = "waiting" /\ wire[id].sid # NoId
    /\ Update(id, InFlightAs(messages[id], wire[id].sid))
    /\ wire' = [wire EXCEPT ![id] = IdleWire]
    /\ Reply(id, "success")
    /\ UNCHANGED <<running, retry_vars, accepted, fate, dlr_vars>>

ForwardFailsRequeues(id) ==
    /\ fwd_pc[id] = "waiting"
    /\ Update(id, mark_retry(messages[id]))
    /\ wire' = [wire EXCEPT ![id] = IdleWire]
    /\ fwd_left' = [fwd_left EXCEPT ![id] = Tail(@)]
    /\ FwdGoto(id, "trying")
    /\ UNCHANGED <<running, result, retry_vars, accepted, fate, dlr_vars>>

\* An error answer, a timeout or an I/O error, whatever the SMSC did: the next cluster
\* is tried.
ForwardFails(id) ==
    /\ fwd_pc[id] = "waiting"
    /\ wire' = [wire EXCEPT ![id] = IdleWire]
    /\ fwd_left' = [fwd_left EXCEPT ![id] = Tail(@)]
    /\ FwdGoto(id, "trying")
    /\ UNCHANGED <<store_vars, running, result, retry_vars, accepted, fate, dlr_vars>>

\* All clusters failed: can_retry is read ...
AllFailed(id) ==
    /\ fwd_pc[id] = "trying" /\ fwd_left[id] = << >>
    /\ FwdGoto(id, IF id \in Stored /\ can_retry(messages[id]) THEN "requeue" ELSE "fail")
    /\ UNCHANGED <<store_vars, running, fwd_left, result, retry_vars, smsc_vars, dlr_vars>>

RequeueSilently(id) ==
    /\ fwd_pc[id] \in {"requeue", "fail"}
    /\ Update(id, IF fwd_pc[id] = "requeue" THEN mark_retry(messages[id])
                                            ELSE mark_failed(messages[id]))
    /\ IF fwd_pc[id] = "requeue" THEN Reply(id, "success")
       ELSE FwdGoto(id, "done") /\ UNCHANGED <<fwd_left, result>>
    /\ UNCHANGED <<running, retry_vars, smsc_vars, dlr_vars>>

\* ... and acted on by a later update; the client hears success either way.
Requeue(id) ==
    /\ fwd_pc[id] \in {"requeue", "fail"}
    /\ Update(id, IF fwd_pc[id] = "requeue" THEN mark_retry(messages[id])
                                            ELSE mark_failed(messages[id]))
    /\ Reply(id, "success")
    /\ UNCHANGED <<running, retry_vars, smsc_vars, dlr_vars>>

ForwardTask(id) ==
    \/ NoRoute(id) \/ Route(id) \/ TryFails(id) \/ Send(id) \/ MockForwarded(id)
    \/ Forwarded(id) \/ ForwardFails(id) \/ AllFailed(id) \/ Requeue(id)
---------------------------------------------------------------------------
(* RetryProcessor *)

RetryUnchanged == UNCHANGED <<running, fwd_vars, dlr_vars>>

\* retry_message returns.
RetryDone ==
    /\ retry_pc' = "list" /\ retry_id' = RetryLoop /\ retry_left' = << >>
    /\ UNCHANGED retry_todo /\ RetryUnchanged

\* The interval ticks: process_retries lists what is ready.
RetryTick ==
    /\ running /\ retry_pc = "idle" /\ get_ready_for_retry # {}
    /\ retry_todo' = get_ready_for_retry /\ retry_pc' = "list"
    /\ UNCHANGED <<store_vars, retry_id, retry_left, smsc_vars>> /\ RetryUnchanged

\* retry_message reads the message again: gone or no longer Retrying, it is skipped;
\* otherwise its attempts, then its age decide.
RetryGet(id) ==
    /\ retry_pc = "list" /\ id \in retry_todo
    /\ retry_todo' = retry_todo \ {id}
    /\ retry_id' = IF id \in InState("Retrying") THEN id ELSE RetryLoop
    /\ retry_pc' = IF id \notin InState("Retrying") THEN "list"
                   ELSE IF messages[id].attempts >= MaxRetries THEN "fail"
                   ELSE IF is_expired(messages[id]) THEN "expire"
                   ELSE "routing"
    /\ UNCHANGED <<store_vars, retry_left, smsc_vars>> /\ RetryUnchanged

RetryListDone ==
    /\ retry_pc = "list" /\ retry_todo = {}
    /\ retry_pc' = "idle"
    /\ UNCHANGED <<store_vars, retry_id, retry_todo, retry_left, smsc_vars>> /\ RetryUnchanged

\* Route again; no route is a permanent failure.
RetryRoute ==
    /\ retry_pc = "routing"
    /\ \E r \in Routes :
          /\ retry_left' = r
          /\ retry_pc' = IF r = << >> THEN "fail" ELSE "trying"
    /\ UNCHANGED <<store_vars, retry_id, retry_todo, smsc_vars>> /\ RetryUnchanged

\* The update that ends retry_message without an attempt.
RetryGiveUp ==
    /\ retry_pc \in {"fail", "expire"}
    /\ Update(retry_id, IF retry_pc = "fail" THEN mark_failed(messages[retry_id])
                                             ELSE mark_expired(messages[retry_id]))
    /\ RetryDone /\ UNCHANGED smsc_vars

RetryTryFails ==
    /\ retry_pc = "trying" /\ retry_left # << >> /\ Head(retry_left) # "mock"
    /\ retry_left' = Tail(retry_left)
    /\ UNCHANGED <<store_vars, retry_pc, retry_id, retry_todo, smsc_vars>> /\ RetryUnchanged

RetrySend ==
    /\ retry_pc = "trying" /\ retry_left # << >> /\ Head(retry_left) = "upstream"
    /\ retry_pc' = "waiting" /\ wire' = [wire EXCEPT ![RetryLoop] = SentWire]
    /\ UNCHANGED <<store_vars, retry_id, retry_todo, retry_left, accepted, fate>>
    /\ RetryUnchanged

RetrySucceedsStillListed(sid) ==
    /\ Update(retry_id, [messages[retry_id] EXCEPT !.smsc = sid, !.attempts = @ + 1])
    /\ RetryDone

\* try_forward_retry succeeded with identifier sid: the update forgets what has become
\* of the message meanwhile.
RetrySucceeds(sid) ==
    /\ Update(retry_id, InFlightAs(messages[retry_id], sid))
    /\ RetryDone

RetryMocked ==
    /\ retry_pc = "trying" /\ retry_left # << >> /\ Head(retry_left) = "mock"
    /\ RetrySucceeds(MockId) /\ UNCHANGED smsc_vars

RetryAnswered ==
    /\ retry_pc = "waiting" /\ wire[RetryLoop].sid # NoId
    /\ RetrySucceeds(wire[RetryLoop].sid)
    /\ wire' = [wire EXCEPT ![RetryLoop] = IdleWire] /\ UNCHANGED <<accepted, fate>>

RetryFails ==
    /\ retry_pc = "waiting"
    /\ wire' = [wire EXCEPT ![RetryLoop] = IdleWire]
    /\ retry_left' = Tail(retry_left) /\ retry_pc' = "trying"
    /\ UNCHANGED <<store_vars, retry_id, retry_todo, accepted, fate>> /\ RetryUnchanged

\* All clusters failed: next retry after the backoff for the attempts counted so far.
RetryAgain ==
    /\ retry_pc = "trying" /\ retry_left = << >>
    /\ Update(retry_id, mark_retry(messages[retry_id]))
    /\ RetryDone /\ UNCHANGED smsc_vars

RetryMessage ==
    \/ \E id \in MessageIds : RetryGet(id)
    \/ RetryListDone \/ RetryRoute \/ RetryGiveUp \/ RetryTryFails \/ RetrySend
    \/ RetryMocked \/ RetryAnswered \/ RetryFails \/ RetryAgain
---------------------------------------------------------------------------
(* The upstream SMSCs *)

SmscUnchanged == UNCHANGED <<store_vars, running, fwd_vars, retry_vars, dlr>>

\* The message a sender is sending.
Sending(s) == IF s = RetryLoop THEN retry_id ELSE s

\* An SMSC accepts what sender s submitted and gives it a fresh identifier.
SmscAccepts(s, sid) ==
    /\ wire[s] = SentWire /\ accepted[sid] = NoMessage
    /\ wire' = [wire EXCEPT ![s] = [sent |-> TRUE, sid |-> sid]]
    /\ accepted' = [accepted EXCEPT ![sid] = Sending(s)]
    /\ UNCHANGED <<fate, dlrs>> /\ SmscUnchanged

\* The message reaches its fate downstream.
SmscSettles(sid, f) ==
    /\ accepted[sid] # NoMessage /\ fate[sid] = "none"
    /\ fate' = [fate EXCEPT ![sid] = f]
    /\ UNCHANGED <<wire, accepted, dlrs>> /\ SmscUnchanged

\* A receipt is sent, or sent again: an intermediate one, or the final one.
SmscSendsDlr(sid) ==
    /\ accepted[sid] # NoMessage /\ Cardinality(dlrs) < DlrChannel
    /\ \E st \in {"Enroute", fate[sid]} \ {"none"} :
          dlrs' = dlrs \cup {[sid |-> sid, status |-> st]}
    /\ UNCHANGED <<wire, accepted, fate>> /\ SmscUnchanged

Smsc ==
    \E sid \in SmscIds :
        \/ \E s \in Senders : SmscAccepts(s, sid)
        \/ \E f \in Fates : SmscSettles(sid, f)
        \/ SmscSendsDlr(sid)
---------------------------------------------------------------------------
(* DlrProcessor *)

DlrUnchanged == UNCHANGED <<running, fwd_vars, retry_vars, smsc_vars>>

\* The answers MemoryStorage::query may give to a query for a state with a limit.
Query(s, limit) ==
    LET n == Cardinality(InState(s))
    IN {S \in SUBSET InState(s) : Cardinality(S) = IF n < limit THEN n ELSE limit}

FoundAny(sid) == {{id} : id \in InState("InFlight")} \cup {{}}

\* find_message_by_smsc_id: what a search of the in-flight messages, then of the retrying
\* ones may come up with, a message with this identifier or none.
FoundFor(sid) ==
    {{id \in S \cup R : messages[id].smsc = sid} :
        S \in Query("InFlight", QueryLimit), R \in Query("Retrying", QueryLimit)}

\* process_dlr receives a receipt nobody is found for: it is counted and dropped.
DlrOrphaned(d) ==
    /\ running /\ ~dlr.on /\ d \in dlrs /\ {} \in FoundFor(d.sid)
    /\ dlrs' = dlrs \ {d}
    /\ UNCHANGED <<store_vars, dlr>> /\ DlrUnchanged

\* process_dlr finds the message ...
DlrFound(d) ==
    /\ running /\ ~dlr.on /\ d \in dlrs
    /\ \E id \in UNION FoundFor(d.sid) :
          dlr' = [on |-> TRUE, sid |-> d.sid, status |-> d.status, id |-> id]
    /\ dlrs' = dlrs \ {d}
    /\ UNCHANGED store_vars /\ DlrUnchanged

\* ... and then, for a final status, sets its state whatever it is by now.
DlrApplied ==
    /\ dlr.on
    /\ IF dlr.status \notin Fates THEN UNCHANGED store_vars
       ELSE Update(dlr.id, [messages[dlr.id] EXCEPT
                !.state = IF dlr.status = "Delivered" THEN "Delivered" ELSE "Failed"])
    /\ dlr' = IdleDlr
    /\ UNCHANGED dlrs /\ DlrUnchanged

Dlr == DlrApplied \/ \E d \in dlrs : DlrOrphaned(d) \/ DlrFound(d)
---------------------------------------------------------------------------
(* Maintenance, time and shutdown *)

QuietUnchanged == UNCHANGED <<fwd_vars, retry_vars, smsc_vars, dlr_vars>>

\* Storage::maintenance is expire_old and, a moment later, prune_terminal; as time may
\* pass between them and either may find nothing to do, each is a step at any time.
MaintenanceExpires ==
    /\ running
    /\ ExpireOld
    /\ UNCHANGED running /\ QuietUnchanged

MaintenancePrunes ==
    /\ running
    /\ PruneTerminal
    /\ UNCHANGED running /\ QuietUnchanged

Maintenance == MaintenanceExpires \/ MaintenancePrunes

Time(id) ==
    /\ Ages(id) \/ RetryComesDue(id)
    /\ UNCHANGED running /\ QuietUnchanged

\* Shutdown leaves the Running state.  The loops see it between two requests, retries or
\* receipts; forward tasks go on.
ShutsDown ==
    /\ running
    /\ running' = FALSE
    /\ UNCHANGED <<store_vars, fwd_vars, retry_vars, smsc_vars, dlr_vars>>

\* The forwarder's loop has ended: a request in the channel is dropped, or refused at
\* the door, and its client's oneshot channel closes.
Dropped(id) ==
    /\ ~running
    /\ fwd_pc[id] = "queued" /\ \A i \in MessageIds : fwd_pc[i] # "received"
    /\ Reply(id, "closed")
    /\ UNCHANGED <<store_vars, running, retry_vars, smsc_vars, dlr_vars>>

Next ==
    \/ \E id \in MessageIds :
          \/ Forward(id) \/ Recv(id) \/ Dropped(id) \/ SpawnAndStore(id) \/ ForwardTask(id)
          \/ Time(id)
    \/ RetryTick \/ RetryMessage \/ Smsc \/ Dlr \/ Maintenance \/ ShutsDown

Spec == Init /\ [][Next]_vars

\* A sender waits in get_connection of a cluster with SMSCs.
Connecting(s) ==
    IF s = RetryLoop
    THEN retry_pc = "trying" /\ retry_left # << >> /\ Head(retry_left) = "upstream"
    ELSE fwd_pc[s] = "trying" /\ fwd_left[s] # << >> /\ Head(fwd_left[s]) = "upstream"

\* The runtime keeps polling every task that can go on, intervals keep ticking and time
\* passes; a submission ends by its timeout.  A connect has none: a sender may hang in
\* get_connection for ever, with its permit.  Clients, SMSCs and the operator who shuts
\* down owe nothing.
FairSpec ==
    /\ Spec
    /\ \A id \in MessageIds :
          /\ WF_vars(/\ ~Connecting(id)
                     /\ Recv(id) \/ Dropped(id) \/ SpawnAndStore(id) \/ ForwardTask(id))
          /\ WF_vars(Time(id) /\ Ages(id))
          /\ WF_vars(Time(id) /\ RetryComesDue(id))
    /\ WF_vars(RetryTick) /\ WF_vars(~Connecting(RetryLoop) /\ RetryMessage) /\ WF_vars(Dlr)
    /\ WF_vars(MaintenanceExpires) /\ WF_vars(MaintenancePrunes)
---------------------------------------------------------------------------
(* Properties *)

TypeOK ==
    /\ StoreTypeOK
    /\ running \in BOOLEAN
    /\ fwd_pc \in [MessageIds -> {"new", "queued", "received", "done"} \cup TaskSteps]
    /\ fwd_left \in [MessageIds -> Seq(ClusterKind)]
    /\ result \in [MessageIds -> {"none", "success", "error", "closed"}]
    /\ retry_pc \in {"idle", "list", "routing", "trying", "waiting", "fail", "expire"}
    /\ retry_id \in Senders /\ retry_todo \subseteq MessageIds
    /\ retry_left \in Seq(ClusterKind)
    /\ wire \in [Senders -> [sent : BOOLEAN, sid : SmscIds \cup {NoId}]]
    /\ accepted \in [SmscIds -> MessageIds \cup {NoMessage}]
    /\ fate \in [SmscIds -> Fates \cup {"none"}]
    /\ dlrs \subseteq Receipts
    /\ dlr \in [on : BOOLEAN, sid : SmscIds \cup {NoId}, status : Fates \cup {"Enroute"},
               id : Senders]

\* The senders that have message id in hand: its forward task, and the retry loop from
\* the moment it has read the message until it writes it back.
Working(id) ==
    {s \in Senders : \/ s = id /\ fwd_pc[id] \in TaskSteps
                     \/ /\ s = RetryLoop /\ retry_id = id
                        /\ retry_pc \in {"routing", "trying", "waiting", "fail", "expire"}}

\* A message is never in the hands of the forward task and the retry loop at once, and
\* while a sender works on it the store does not say that an SMSC has it or that it is
\* settled: expired is all that can have happened behind the sender's back.  So one
\* submission is outstanding per message, and a blind write-back loses no outcome.
OneSenderAtATime ==
    \A id \in MessageIds :
        /\ \A s, t \in Working(id) : s = t
        /\ Working(id) # {} /\ id \in Stored =>
              messages[id].state \in {"Pending", "Retrying", "Expired"}

\* A stored message carries the identifier of an acceptance exactly when it has been in
\* flight, that identifier was given to this very message, and it was submitted with
\* success once: what waits for a (re)try has no attempts and no identifier.
IdentifierIsTheAcceptances ==
    \A id \in Stored :
        LET m == messages[id] IN
        /\ m.state \in {"Pending", "Retrying"} => m.attempts = 0
        /\ m.state \in {"InFlight", "Delivered"} => m.attempts = 1
        /\ m.smsc = NoId <=> m.attempts = 0
        /\ m.smsc \in SmscIds => accepted[m.smsc] = id

\* The store says Delivered, and Failed of a message some SMSC accepted, only when that
\* is what became of the submission it knows: receipts that cross other messages,
\* arrive twice, or find the message expired meanwhile report nobody else's outcome.
OutcomeIsTrue ==
    \A id \in Stored :
        LET m == messages[id] IN
        /\ m.state = "Delivered" => m.smsc \in SmscIds /\ fate[m.smsc] = "Delivered"
        /\ m.state = "Failed" /\ m.smsc \in SmscIds => fate[m.smsc] = "Undeliverable"

\* Every message waiting for a retry is in retry_queue, although expiry and pruning
\* change states behind its back.
RetryQueueCoversRetrying == InState("Retrying") \subseteq retry_queue

\* Delivered and Failed are final: no late write of a task, the retry loop or a receipt
\* changes such a message, it can only be removed.
FinalOutcomesStick ==
    [][\A id \in MessageIds :
          id \in InState("Delivered") \cup InState("Failed") =>
              messages'[id] \in {messages[id], [messages[id] EXCEPT !.old = TRUE], NoMessage}]_vars

\* A message leaves the store only after it has reached a terminal state, at whatever
\* limit the store is.
LiveMessageNeverDropped ==
    [][\A id \in Stored : messages'[id] = NoMessage => id \in TerminalIds]_vars

\* No connect of a forward task lasts for ever, as the operating system ends it.
ConnectsEnd == \A id \in MessageIds : []<>(~Connecting(id))

\* While the connects of the forward tasks end, every request put into the forwarder's
\* channel is answered, also when all permits are taken by tasks whose submit_sm is never
\* answered, when the retry loop hangs, and across a shutdown.
RequestsAreAnswered ==
    ConnectsEnd => \A id \in MessageIds : fwd_pc[id] = "queued" ~> result[id] # "none"

\* Whatever the SMSCs do, and though a forward task or the retry loop may hang in a connect
\* for ever, every stored message reaches a terminal state for good, unless the gateway is
\* shut down: expiry catches what retries and receipts do not settle.
EventuallySettled == <>[](Stored = TerminalIds) \/ <>(~running)
---------------------------------------------------------------------------
(* Delivery as an implementation of MessageLife *)

\* The phase a stored message is in.
Phase(m) ==
    CASE m.state \in {"Pending", "Retrying"} -> "waiting"
      [] m.state = "InFlight" -> "in_flight"
      [] m.state = "Delivered" -> "delivered"
      [] m.state = "Failed" -> "failed"
      [] m.state = "Expired" -> IF m.smsc = NoId THEN "lapsed" ELSE "overdue"

\* Outside the store: not there yet, turned away by a shutdown, or removed.
Absence(id) ==
    IF fwd_pc[id] \in {"new", "queued", "received"} THEN "new"
    ELSE IF result[id] = "closed" THEN "refused" ELSE "gone"

Promised == INSTANCE MessageLife WITH
    life <- [id \in MessageIds |-> IF messages[id] # NoMessage THEN Phase(messages[id]) ELSE Absence(id)],
    carrier <- [id \in MessageIds |-> IF messages[id] # NoMessage THEN messages[id].smsc ELSE NoId],
    verdict <- fate

\* Forward tasks, retry loop, receipts, maintenance and shutdown together keep the promise
\* of MessageLife: a message is taken once, handed over with success once, reported as its
\* carrier reports it, forgotten only when it is over and never brought back, however the
\* blind write-backs of processor.rs, retry.rs and dlr.rs interleave.
KeepsPromise == Promised!LifeSpec
===========================================================================
