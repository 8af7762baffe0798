----------------------------- MODULE Pipeline -----------------------------
(***************************************************************************)
(* The event-driven path of a submit_sm through the running server: from a *)
(* client session (listener/session.rs) over the event bus to the filter,  *)
(* router and forwarder processors (pipeline/*.rs), to an upstream SMSC,   *)
(* and back through the response processor and the session registry        *)
(* (listener/registry.rs) to the session.                                  *)
(*                                                                         *)
(* A request is a submit_sm together with its envelope.  What the filter   *)
(* and the router say of it depends on its addresses only, which are left  *)
(* out: both answers are possible.  The upstream may reject a submit_sm,   *)
(* accept it, and accept it with its answer lost.                          *)
(*                                                                         *)
(* Left out: time, expiry and pruning of the store (see Delivery), which   *)
(* nothing here reads; binding, of which a session here is past.           *)
(***************************************************************************)
EXTENDS EventBus, FiniteSets

CONSTANTS
    Requests,       \* submit_sm PDUs clients may send
    Sessions,       \* client sessions
    Nobody,         \* no session, no request
    Routes,         \* what Router::route may answer: the clusters to try, << >> for none
    Concurrency,    \* permits of ForwarderProcessor's semaphore
    OtherTraffic,   \* bound: whether components outside this module publish too
    ResponseChannel,\* capacity of a session's response channel
    NoId, MockId, NoMessage, MaxMessages, PrunePercent, MaxAttempts    \* see MessageStore

ClusterKind == {"upstream", "mock", "missing"}

ASSUME PipelineAssumption ==
    /\ Subscribers = {"filter", "router", "forwarder", "response"}
    /\ Nobody \notin Requests \cup Sessions
    /\ Routes \subseteq Seq(ClusterKind)
    /\ OtherTraffic \in BOOLEAN
    /\ Concurrency \in Nat \ {0} /\ ResponseChannel \in Nat \ {0}

\* MessageEnvelope::new and StoredMessage::new each draw a MessageId of their own.
EnvelopeId(r) == <<r, "envelope">>
StoredId(r) == <<r, "stored">>

VARIABLES
    messages, retry_queue,  \* the store
    session,     \* a session is open, has left its loop, or is unregistered
    owner,       \* the session that submitted a request
    routing,     \* the request route_message has stored and is routing
    holding,     \* the request the forwarder's loop holds until it gets a permit
    task,        \* progress of a request's forward_message task
    left,        \* the clusters it has still to try
    accepted,    \* the requests some SMSC or mock cluster accepted
    channel,     \* responses each session has still to receive
    sent         \* the response written to the client

\* The upstream identifies a submission by the request it is for.
INSTANCE MessageStore WITH
    MessageIds <- {EnvelopeId(r) : r \in Requests} \cup {StoredId(r) : r \in Requests},
    SmscIds <- Requests

stored == <<messages, retry_queue>>
fwd_vars == <<holding, task, left, accepted>>
session_vars == <<session, owner, channel, sent>>
vars == <<bus_vars, stored, session_vars, routing, fwd_vars>>

Init ==
    /\ BusInit /\ StoreInit
    /\ session = [s \in Sessions |-> "open"]
    /\ owner = [r \in Requests |-> Nobody]
    /\ routing = Nobody /\ holding = Nobody
    /\ task = [r \in Requests |-> "none"]
    /\ left = [r \in Requests |-> << >>]
    /\ accepted = {}
    /\ channel = [s \in Sessions |-> << >>]
    /\ sent = [r \in Requests |-> "none"]
---------------------------------------------------------------------------
(* Events *)

Event(kind, r, route, status) == [kind |-> kind, req |-> r, route |-> route, status |-> status]

MessageSubmitRequest(r) == Event("MessageSubmitRequest", r, << >>, "none")
MessageAccepted(r) == Event("MessageAccepted", r, << >>, "none")
MessageRouted(r, route) == Event("MessageRouted", r, route, "none")
ResponseReady(r, status) == Event("ResponseReady", r, << >>, status)

\* Every event none of the processors acts on.
Other == Event("Other", Nobody, << >>, "none")

\* The event each processor acts on.
HandledBy == [p \in Subscribers |->
    CASE p = "filter" -> "MessageSubmitRequest" [] p = "router" -> "MessageAccepted"
      [] p = "forwarder" -> "MessageRouted"     [] p = "response" -> "ResponseReady"]

\* Processor p is free and its next event is the one it acts on, for request r.
Gets(p, r) ==
    /\ Receives(p) /\ Head(queue[p]).kind = HandledBy[p] /\ Head(queue[p]).req = r
    /\ p = "router" => routing = Nobody
    /\ p = "forwarder" => holding = Nobody
---------------------------------------------------------------------------
(* Sessions *)

\* handle_submit_sm publishes the envelope and returns.
Submit(s, r) ==
    /\ session[s] = "open" /\ owner[r] = Nobody
    /\ owner' = [owner EXCEPT ![r] = s]
    /\ Publish(<<MessageSubmitRequest(r)>>)
    /\ UNCHANGED <<stored, session, channel, sent, routing, fwd_vars>>

\* The session's loop receives a response and writes it to the client.
HandleAsyncResponse(s) ==
    /\ session[s] = "open" /\ channel[s] # << >>
    /\ channel' = [channel EXCEPT ![s] = Tail(@)]
    /\ sent' = [sent EXCEPT ![Head(channel[s]).req] = Head(channel[s]).status]
    /\ UNCHANGED <<bus_vars, stored, session, owner, routing, fwd_vars>>

\* The peer closes, a PDU is bad, or the gateway drains: the loop ends ...
SessionEnds(s) ==
    /\ session[s] = "open"
    /\ session' = [session EXCEPT ![s] = "ended"]
    /\ UNCHANGED <<bus_vars, stored, owner, channel, sent, routing, fwd_vars>>

\* ... and the acceptor's task unregisters the session and drops its receiver.
Unregister(s) ==
    /\ session[s] = "ended"
    /\ session' = [session EXCEPT ![s] = "gone"]
    /\ channel' = [channel EXCEPT ![s] = << >>]
    /\ Publish(<<Other>>)
    /\ UNCHANGED <<stored, owner, sent, routing, fwd_vars>>
---------------------------------------------------------------------------
(* FilterProcessor *)

PipelineUnchanged == UNCHANGED <<stored, session_vars, routing, fwd_vars>>

FilterAccepts(r) ==
    /\ Gets("filter", r)
    /\ Handle("filter", <<MessageAccepted(r)>>)
    /\ PipelineUnchanged

\* reject_message publishes the rejection and the error response.
FilterRejects(r) ==
    /\ Gets("filter", r)
    /\ Handle("filter", <<Other, ResponseReady(r, "error")>>)
    /\ PipelineUnchanged
---------------------------------------------------------------------------
(* RouterProcessor *)

\* route_message stores a message of its own making, then waits for the router's lock.
RouterStores(r) ==
    /\ Gets("router", r)
    /\ Handle("router", << >>)
    /\ Store(StoredId(r))
    /\ routing' = r
    /\ UNCHANGED <<session_vars, fwd_vars>>

RouterRoutes ==
    /\ routing # Nobody
    /\ \E route \in Routes \ {<< >>} : Publish(<<MessageRouted(routing, route)>>)
    /\ routing' = Nobody
    /\ UNCHANGED <<stored, session_vars, fwd_vars>>

\* No route: the failure is written under the envelope's identifier.
RouterFindsNothing ==
    /\ routing # Nobody /\ << >> \in Routes
    /\ Update(EnvelopeId(routing), mark_failed(messages[EnvelopeId(routing)]))
    /\ Publish(<<Other, ResponseReady(routing, "error")>>)
    /\ routing' = Nobody
    /\ UNCHANGED <<session_vars, fwd_vars>>
---------------------------------------------------------------------------
(* ForwarderProcessor *)

ForwardUnchanged == UNCHANGED <<session_vars, routing>>

\* The loop takes a routed message and waits for a permit before it receives again.
ForwarderTakes(r) ==
    /\ Gets("forwarder", r)
    /\ Handle("forwarder", << >>)
    /\ holding' = r /\ left' = [left EXCEPT ![r] = Head(queue["forwarder"]).route]
    /\ UNCHANGED <<stored, task, accepted>> /\ ForwardUnchanged

SpawnsWithoutPermit ==
    /\ holding # Nobody
    /\ task' = [task EXCEPT ![holding] = "next"] /\ holding' = Nobody
    /\ UNCHANGED <<bus_vars, stored, left, accepted>> /\ ForwardUnchanged

\* A permit is free: forward_message is spawned with it.
ForwarderSpawns ==
    /\ holding # Nobody
    /\ Cardinality({r \in Requests : task[r] # "none"}) < Concurrency
    /\ task' = [task EXCEPT ![holding] = "next"] /\ holding' = Nobody
    /\ UNCHANGED <<bus_vars, stored, left, accepted>> /\ ForwardUnchanged

\* forward_message goes on to the next cluster: it announces it, and tries.
TryCluster(r) ==
    /\ task[r] = "next" /\ left[r] # << >>
    /\ Publish(<<Other>>)
    /\ task' = [task EXCEPT ![r] = Head(left[r])]
    /\ left' = [left EXCEPT ![r] = Tail(@)]
    /\ UNCHANGED <<stored, holding, accepted>> /\ ForwardUnchanged

\* get_connection has one, and the submit_sm is sent on it.
Sends(r) ==
    /\ task[r] = "upstream"
    /\ task' = [task EXCEPT ![r] = "sent"]
    /\ UNCHANGED <<bus_vars, stored, holding, left, accepted>> /\ ForwardUnchanged

\* The SMSC accepts the submit_sm.
SmscAccepts(r) ==
    /\ task[r] = "sent"
    /\ task' = [task EXCEPT ![r] = "answered"] /\ accepted' = accepted \cup {r}
    /\ UNCHANGED <<bus_vars, stored, holding, left>> /\ ForwardUnchanged

ForwardedAndGoesOn(r) ==
    /\ task[r] \in {"answered", "mock"}
    /\ Publish(<<Other, ResponseReady(r, "success")>>)
    /\ task' = [task EXCEPT ![r] = "next"]
    /\ accepted' = accepted \cup {r}
    /\ UNCHANGED <<stored, holding, left>> /\ ForwardUnchanged

\* Its good answer, or a mock cluster's, arrives: the success is written under the
\* envelope's identifier and published, and the permit is released.
Forwarded(r) ==
    /\ task[r] \in {"answered", "mock"}
    /\ Update(EnvelopeId(r), InFlightAs(messages[EnvelopeId(r)],
                                        IF task[r] = "mock" THEN MockId ELSE r))
    /\ Publish(<<Other, ResponseReady(r, "success")>>)
    /\ task' = [task EXCEPT ![r] = "none"] /\ left' = [left EXCEPT ![r] = << >>]
    /\ accepted' = accepted \cup {r}
    /\ UNCHANGED holding /\ ForwardUnchanged

WaitsForAnswer(r) ==
    /\ task[r] \in {"missing", "upstream", "answered"}
    /\ task' = [task EXCEPT ![r] = "next"]
    /\ UNCHANGED <<bus_vars, stored, holding, left, accepted>> /\ ForwardUnchanged

\* No such cluster, no connection, an error answer, a lost answer or a timeout.
TryFails(r) ==
    /\ task[r] \in {"missing", "upstream", "sent", "answered"}
    /\ task' = [task EXCEPT ![r] = "next"]
    /\ UNCHANGED <<bus_vars, stored, holding, left, accepted>> /\ ForwardUnchanged

FailsWithoutResponse(r) ==
    /\ task[r] = "next" /\ left[r] = << >>
    /\ Publish(<<Other>>)
    /\ task' = [task EXCEPT ![r] = "none"]
    /\ UNCHANGED <<stored, holding, left, accepted>> /\ ForwardUnchanged

FailsAsSuccess(r) ==
    LET id == EnvelopeId(r)
        retry == id \in Stored /\ can_retry(messages[id])
    IN /\ task[r] = "next" /\ left[r] = << >>
       /\ Update(id, IF retry THEN mark_retry(messages[id]) ELSE mark_failed(messages[id]))
       /\ Publish(<<Other, ResponseReady(r, "success")>>)
       /\ task' = [task EXCEPT ![r] = "none"]
       /\ UNCHANGED <<holding, left, accepted>> /\ ForwardUnchanged

\* All clusters failed.  A message that may be retried is marked so, and the client
\* hears success; otherwise it is marked failed, and the client hears the error.
AllFailed(r) ==
    LET id == EnvelopeId(r)
        retry == id \in Stored /\ can_retry(messages[id])
    IN /\ task[r] = "next" /\ left[r] = << >>
       /\ Update(id, IF retry THEN mark_retry(messages[id]) ELSE mark_failed(messages[id]))
       /\ Publish(<<Other, ResponseReady(r, IF retry THEN "success" ELSE "error")>>)
       /\ task' = [task EXCEPT ![r] = "none"]
       /\ UNCHANGED <<holding, left, accepted>> /\ ForwardUnchanged

ForwardMessage(r) ==
    TryCluster(r) \/ Sends(r) \/ Forwarded(r) \/ TryFails(r) \/ AllFailed(r)
---------------------------------------------------------------------------
(* ResponseProcessor and SessionRegistry *)

\* send_response: into the session's channel if it is registered and has room;
\* otherwise the response is dropped.
SendResponse(r) ==
    LET s == owner[r]
        room == session[s] # "gone" /\ Len(channel[s]) < ResponseChannel
        resp == [req |-> r, status |-> Head(queue["response"]).status]
    IN /\ Gets("response", r)
       /\ Handle("response", << >>)
       /\ channel' = IF room THEN [channel EXCEPT ![s] = Append(@, resp)] ELSE channel
       /\ UNCHANGED <<stored, session, owner, sent, routing, fwd_vars>>
---------------------------------------------------------------------------
(* The bus, and who else is on it *)

\* A processor ignores an event that is not for it.
Ignores(p) ==
    /\ Receives(p) /\ Head(queue[p]).kind # HandledBy[p]
    /\ p = "router" => routing = Nobody
    /\ p = "forwarder" => holding = Nobody
    /\ Handle(p, << >>)
    /\ PipelineUnchanged

FallsBehind(p) ==
    /\ p = "router" => routing = Nobody
    /\ p = "forwarder" => holding = Nobody
    /\ Lagged(p)
    /\ PipelineUnchanged

\* Some other component publishes an event.
OtherEvent == OtherTraffic /\ Publish(<<Other>>) /\ PipelineUnchanged

Processor(p) ==
    \/ Ignores(p) \/ FallsBehind(p)
    \/ \E r \in Requests :
          \/ p = "filter" /\ (FilterAccepts(r) \/ FilterRejects(r))
          \/ p = "router" /\ RouterStores(r)
          \/ p = "forwarder" /\ ForwarderTakes(r)
          \/ p = "response" /\ SendResponse(r)
    \/ p = "router" /\ (RouterRoutes \/ RouterFindsNothing)
    \/ p = "forwarder" /\ ForwarderSpawns

Next ==
    \/ \E s \in Sessions :
          \/ HandleAsyncResponse(s) \/ SessionEnds(s) \/ Unregister(s)
          \/ \E r \in Requests : Submit(s, r)
    \/ \E p \in Subscribers : Processor(p)
    \/ \E r \in Requests : ForwardMessage(r) \/ SmscAccepts(r)
    \/ OtherEvent

Spec == Init /\ [][Next]_vars

\* The runtime polls every processor and forward task that can go on; a submission ends by
\* an answer or its timeout.  A connect has no timeout: a task may hang in get_connection
\* for ever, with its permit.  Clients, SMSCs and other publishers owe nothing.
FairSpec ==
    /\ Spec
    /\ \A p \in Subscribers : WF_vars(Processor(p))
    /\ \A r \in Requests : WF_vars(task[r] # "upstream" /\ ForwardMessage(r))
---------------------------------------------------------------------------
(* Properties *)

TypeOK ==
    /\ StoreTypeOK
    /\ \A p \in Subscribers : Len(queue[p]) <= BusCapacity
    /\ missed \in [Subscribers -> BOOLEAN]
    /\ session \in [Sessions -> {"open", "ended", "gone"}]
    /\ owner \in [Requests -> Sessions \cup {Nobody}]
    /\ routing \in Requests \cup {Nobody} /\ holding \in Requests \cup {Nobody}
    /\ task \in [Requests -> {"none", "next", "sent", "answered"} \cup ClusterKind]
    /\ Cardinality({r \in Requests : task[r] # "none"}) <= Concurrency
    /\ accepted \subseteq Requests
    /\ \A s \in Sessions : Len(channel[s]) <= ResponseChannel
    /\ sent \in [Requests -> {"none", "success", "error"}]

\* Where a request is between its submission and its answer: an event waiting for the
\* processor it is for, a processor's hands, a task, its session's channel, the client.
Places(r) ==
    {x \in Subscribers \X (1..BusCapacity) :
        /\ x[2] <= Len(queue[x[1]])
        /\ queue[x[1]][x[2]].req = r /\ queue[x[1]][x[2]].kind = HandledBy[x[1]]}
    \cup {<<"routing", 1>> : x \in {routing} \cap {r}}
    \cup {<<"holding", 1>> : x \in {holding} \cap {r}}
    \cup {<<"task", 1>> : x \in {r} \cap {q \in Requests : task[q] # "none"}}
    \cup {<<owner[r], i>> : i \in {j \in 1..ResponseChannel :
             owner[r] # Nobody /\ j <= Len(channel[owner[r]]) /\ channel[owner[r]][j].req = r}}
    \cup {<<"sent", 1>> : x \in {r} \cap {q \in Requests : sent[q] # "none"}}

\* A request is never in two places: whatever is skipped, retried on a fallback or
\* dropped, a submit_sm is forwarded by one task and answered at most once.
OnePlaceAtATime == \A r \in Requests : Cardinality(Places(r)) <= 1

\* An SMSC has the request's message, or it is in the store waiting for a retry.
TakenOn(r) ==
    \/ r \in accepted
    \/ \E id \in Stored \cap {EnvelopeId(r), StoredId(r)} : messages[id].state = "Retrying"

\* A client hears success only of a message that an SMSC has taken or that the gateway
\* holds for a retry ("message will be retried in background", pipeline/forwarder.rs):
\* no failed, timed out or lost attempt leaves it with nobody.
SuccessIsBacked ==
    \A r \in Requests :
        /\ sent[r] = "success" => TakenOn(r)
        /\ \A s \in Sessions : \A i \in 1..Len(channel[s]) :
              channel[s][i] = [req |-> r, status |-> "success"] => TakenOn(r)

\* A request disappears unanswered only where the code says it may: its processor fell
\* behind, or its session is gone or its channel is full.
LostOnlyByOverflow ==
    [][\A r \in Requests : Places(r) # {} /\ Places(r)' = {} =>
          \/ \E p \in Subscribers : missed'[p] /\ \E i \in 1..BusCapacity : <<p, i>> \in Places(r)
          \/ session'[owner[r]] = "gone"
          \/ Len(channel[owner[r]]) = ResponseChannel]_vars

\* No task's connect lasts for ever, as the operating system ends it.
ConnectsEnd == \A r \in Requests : []<>(task[r] # "upstream")

\* While connects end, the pipeline finishes with every request: it reaches its session's
\* channel or has been lost on the way, also when all permits are held by tasks whose
\* submit_sm is never answered.
EveryRequestIsFinished ==
    ConnectsEnd => \A r \in Requests :
        owner[r] # Nobody ~>
            Places(r) \subseteq {<<owner[r], i>> : i \in 1..ResponseChannel} \cup {<<"sent", 1>>}

\* Violated: once a client has heard that its message failed, the message the router
\* stored for it says so ("Update store with failure", pipeline/router.rs).
FailureIsRecorded ==
    \A r \in Requests :
        sent[r] = "error" /\ StoredId(r) \in Stored => messages[StoredId(r)].state = "Failed"
===========================================================================
