-------------------------- MODULE DeliveryProofs --------------------------
(***************************************************************************)
(* Proofs about Delivery, for every set of messages, routes and limits.    *)
(***************************************************************************)
EXTENDS Delivery, TLAPS

RetrySteps == {"routing", "trying", "waiting", "fail", "expire"}

NotStarted == {"new", "queued", "received"}

\* What the retry loop works on, or has listed, has left its forward task; a sender that
\* waits for an answer has the cluster it asked at the head of its list; the message a
\* receipt was found for has been stored.
Control ==
    /\ retry_pc \in RetrySteps => retry_id \in MessageIds /\ fwd_pc[retry_id] = "done"
    /\ \A id \in retry_todo : fwd_pc[id] = "done"
    /\ \A id \in MessageIds : fwd_pc[id] = "waiting" => fwd_left[id] # << >>
    /\ retry_pc = "waiting" => retry_left # << >>
    /\ dlr.on => dlr.id \in MessageIds /\ fwd_pc[dlr.id] \notin NotStarted

\* A submission is outstanding only while its sender waits, and an identifier on the
\* wire was given to the message the sender is sending.
Wires ==
    /\ \A id \in MessageIds : wire[id].sent => fwd_pc[id] = "waiting"
    /\ wire[RetryLoop].sent => retry_pc = "waiting"
    /\ \A s \in Senders : wire[s].sid # NoId =>
          wire[s].sent /\ accepted[wire[s].sid] = Sending(s)

\* A final receipt, on its way or in hand, tells what became of the submission.
ReceiptsAreTrue ==
    /\ \A d \in dlrs : d.status \in Fates => fate[d.sid] = d.status
    /\ dlr.on => /\ dlr.sid \in SmscIds
                 /\ dlr.status \in Fates => fate[dlr.sid] = dlr.status

\* What a stored message's attempts and identifier say, and who may be working on it.
RecordOK(id, m) ==
    /\ fwd_pc[id] \notin NotStarted
    /\ m.attempts \in {0, 1}
    /\ m.state \in {"Pending", "Retrying"} => m.attempts = 0
    /\ m.state \in {"InFlight", "Delivered"} => m.attempts = 1
    /\ m.smsc = NoId <=> m.attempts = 0
    /\ m.smsc \in SmscIds => accepted[m.smsc] = id
    /\ m.state = "Delivered" => m.smsc \in SmscIds /\ fate[m.smsc] = "Delivered"
    /\ m.state = "Failed" /\ m.smsc \in SmscIds => fate[m.smsc] = "Undeliverable"
    /\ fwd_pc[id] \in TaskSteps => m.state \in {"Pending", "Expired"} /\ m.attempts = 0
    /\ retry_pc \in RetrySteps /\ retry_id = id =>
          m.state \in {"Retrying", "Expired"} /\ m.attempts = 0
    /\ dlr.on /\ dlr.id = id => m.smsc = dlr.sid /\ m.state \in {"InFlight", "Expired"}
    /\ m.state = "Retrying" => id \in retry_queue

Records == \A id \in MessageIds : messages[id] # NoMessage => RecordOK(id, messages[id])

IInv == TypeOK /\ Control /\ Wires /\ ReceiptsAreTrue /\ Records
---------------------------------------------------------------------------
(* The store's operations *)

\* The marks keep a message a message and set what their names say.
LEMMA Marks ==
    ASSUME NEW m \in StoredMessage
    PROVE  /\ \A sid \in SmscIds \cup {MockId} :
                /\ InFlightAs(m, sid) \in StoredMessage
                /\ InFlightAs(m, sid).state = "InFlight"
                /\ InFlightAs(m, sid).attempts = m.attempts + 1
                /\ InFlightAs(m, sid).smsc = sid
           /\ mark_failed(m) \in StoredMessage
           /\ mark_failed(m).attempts = m.attempts /\ mark_failed(m).smsc = m.smsc
           /\ mark_failed(m).state = "Failed"
           /\ mark_expired(m) \in StoredMessage
           /\ mark_expired(m).attempts = m.attempts /\ mark_expired(m).smsc = m.smsc
           /\ mark_expired(m).state = "Expired"
           /\ mark_retry(m) \in StoredMessage
           /\ mark_retry(m).attempts = m.attempts /\ mark_retry(m).smsc = m.smsc
           /\ mark_retry(m).state = "Retrying"
  <1>1. ASSUME NEW sid \in SmscIds \cup {MockId}
        PROVE  /\ InFlightAs(m, sid) \in StoredMessage
               /\ InFlightAs(m, sid).state = "InFlight"
               /\ InFlightAs(m, sid).attempts = m.attempts + 1
               /\ InFlightAs(m, sid).smsc = sid
    <2> DEFINE n == [m EXCEPT !.smsc = sid]
    <2>1. n \in StoredMessage /\ n.smsc = sid /\ n.attempts = m.attempts
      BY DEF StoredMessage
    <2>2. ASSUME NEW k \in StoredMessage
          PROVE  /\ mark_in_flight(k) \in StoredMessage /\ mark_in_flight(k).state = "InFlight"
                 /\ mark_in_flight(k).attempts = k.attempts + 1
                 /\ mark_in_flight(k).smsc = k.smsc
      <3>1. k.attempts + 1 \in Nat  BY DEF StoredMessage
      <3>2. \A a \in Nat : /\ [k EXCEPT !.state = "InFlight", !.attempts = a] \in StoredMessage
                           /\ [k EXCEPT !.state = "InFlight", !.attempts = a].state = "InFlight"
                           /\ [k EXCEPT !.state = "InFlight", !.attempts = a].attempts = a
                           /\ [k EXCEPT !.state = "InFlight", !.attempts = a].smsc = k.smsc
        BY DEF StoredMessage, MessageState
      <3>3. QED  BY <3>1, <3>2 DEF mark_in_flight
    <2> HIDE DEF n
    <2>3. /\ mark_in_flight(n) \in StoredMessage /\ mark_in_flight(n).state = "InFlight"
          /\ mark_in_flight(n).attempts = m.attempts + 1 /\ mark_in_flight(n).smsc = sid
      BY <2>1, <2>2
    <2>4. QED  BY <2>3 DEF InFlightAs, n
  <1>2. /\ mark_failed(m) \in StoredMessage
        /\ mark_failed(m).attempts = m.attempts /\ mark_failed(m).smsc = m.smsc
        /\ mark_failed(m).state = "Failed"
    BY DEF StoredMessage, MessageState, mark_failed
  <1>3. /\ mark_expired(m) \in StoredMessage
        /\ mark_expired(m).attempts = m.attempts /\ mark_expired(m).smsc = m.smsc
        /\ mark_expired(m).state = "Expired"
    BY DEF StoredMessage, MessageState, mark_expired
  <1>4. /\ mark_retry(m) \in StoredMessage
        /\ mark_retry(m).attempts = m.attempts /\ mark_retry(m).smsc = m.smsc
        /\ mark_retry(m).state = "Retrying"
    BY DEF StoredMessage, MessageState, mark_retry
  <1>5. QED  BY <1>1, <1>2, <1>3, <1>4

\* A stored value that is not NoMessage is a message.
LEMMA StoredIsMessage ==
    ASSUME TypeOK, NEW id \in MessageIds, messages[id] # NoMessage
    PROVE  messages[id] \in StoredMessage
  BY DEF TypeOK, StoreTypeOK

\* What update does to the message it names, to the others and to retry_queue.
LEMMA UpdateEffect ==
    ASSUME TypeOK, NEW id \in MessageIds, NEW m, Update(id, m),
           messages[id] # NoMessage => m \in StoredMessage
    PROVE  /\ StoreTypeOK'
           /\ messages'[id] = IF messages[id] = NoMessage THEN NoMessage ELSE m
           /\ \A i \in MessageIds \ {id} : messages'[i] = messages[i]
           /\ \A i \in MessageIds \ {id} : i \in retry_queue' <=> i \in retry_queue
           /\ messages[id] # NoMessage /\ m.state = "Retrying" =>
                id \in retry_queue' \/ (messages[id].state = "Retrying" /\ id \notin retry_queue)
  <1>1. messages \in [MessageIds -> StoredMessage \cup {NoMessage}] /\ retry_queue \subseteq MessageIds
    BY DEF TypeOK, StoreTypeOK
  <1>2. CASE messages[id] = NoMessage
    <2>1. messages' = messages /\ retry_queue' = retry_queue
      BY <1>2 DEF Update, store_vars
    <2>2. QED  BY <1>1, <1>2, <2>1 DEF StoreTypeOK
  <1>3. CASE messages[id] # NoMessage
    <2>1. messages' = [messages EXCEPT ![id] = m] /\ m \in StoredMessage
      BY <1>3 DEF Update
    <2>2. retry_queue' = IF m.state = messages[id].state THEN retry_queue
                         ELSE IF m.state = "Retrying" THEN retry_queue \cup {id}
                         ELSE retry_queue \ {id}
      BY <1>3 DEF Update
    <2>3. messages' \in [MessageIds -> StoredMessage \cup {NoMessage}] /\ messages'[id] = m
      BY <1>1, <2>1
    <2>4. \A i \in MessageIds \ {id} : messages'[i] = messages[i]
      BY <1>1, <2>1
    <2>5. retry_queue' \subseteq MessageIds
      BY <1>1, <2>2
    <2>6. \A i \in MessageIds \ {id} : i \in retry_queue' <=> i \in retry_queue
      BY <2>2
    <2>7. m.state = "Retrying" =>
            id \in retry_queue' \/ (messages[id].state = "Retrying" /\ id \notin retry_queue)
      BY <2>2
    <2>8. QED  BY <1>3, <2>3, <2>4, <2>5, <2>6, <2>7 DEF StoreTypeOK
  <1>4. QED  BY <1>2, <1>3

\* What find_message_by_smsc_id finds is in flight or retrying and has the identifier.
LEMMA FoundEffect ==
    ASSUME NEW sid, NEW id \in UNION FoundFor(sid)
    PROVE  /\ id \in MessageIds /\ messages[id] # NoMessage
           /\ messages[id].state \in {"InFlight", "Retrying"} /\ messages[id].smsc = sid
  <1>1. PICK X \in FoundFor(sid) : id \in X  OBVIOUS
  <1>2. PICK S \in Query("InFlight", QueryLimit), R \in Query("Retrying", QueryLimit) :
           X = {i \in S \cup R : messages[i].smsc = sid}
    BY DEF FoundFor
  <1>3. S \subseteq InState("InFlight") /\ R \subseteq InState("Retrying")  BY DEF Query
  <1>4. id \in S \cup R /\ messages[id].smsc = sid  BY <1>1, <1>2
  <1>5. QED  BY <1>3, <1>4 DEF InState, Stored
---------------------------------------------------------------------------
(* The invariant holds initially *)

\* Everything is empty and idle.
LEMMA InitIInv == Init => IInv
  <1> SUFFICES ASSUME Init PROVE IInv
    OBVIOUS
  <1> USE DEF Init, StoreInit
  <1>1. TypeOK
    <2>1. StoreTypeOK  BY DEF StoreTypeOK
    <2>2. wire \in [Senders -> [sent : BOOLEAN, sid : SmscIds \cup {NoId}]]  BY DEF IdleWire
    <2>3. dlr \in [on : BOOLEAN, sid : SmscIds \cup {NoId}, status : Fates \cup {"Enroute"},
                   id : Senders]
      BY DEF IdleDlr, Senders
    <2>4. QED  BY <2>1, <2>2, <2>3 DEF TypeOK, Senders
  <1>2. Control  BY DEF Control, RetrySteps, IdleDlr
  <1>3. Wires  BY DEF Wires, IdleWire, Senders
  <1>4. ReceiptsAreTrue  BY DEF ReceiptsAreTrue, IdleDlr
  <1>5. Records  BY DEF Records
  <1>6. QED  BY <1>1, <1>2, <1>3, <1>4, <1>5 DEF IInv
---------------------------------------------------------------------------
(* Every step preserves it *)

\* Receipts stay true: fates are settled once, receipts are made from fates.
LEMMA ReceiptsStep == ASSUME IInv, Next PROVE ReceiptsAreTrue'
  <1> USE DEF ReceiptsAreTrue
  <1>0. TypeOK /\ ReceiptsAreTrue  BY DEF IInv
  <1>1. ASSUME UNCHANGED <<dlrs, dlr, fate>> PROVE ReceiptsAreTrue'
    BY <1>0, <1>1
  <1>2. ASSUME NEW sid \in SmscIds, NEW f \in Fates, SmscSettles(sid, f) PROVE ReceiptsAreTrue'
    BY <1>0, <1>2 DEF SmscSettles, SmscUnchanged, TypeOK, Receipts, Fates
  <1>3. ASSUME NEW sid \in SmscIds, SmscSendsDlr(sid) PROVE ReceiptsAreTrue'
    BY <1>0, <1>3 DEF SmscSendsDlr, SmscUnchanged, Fates
  <1>4. ASSUME NEW d \in dlrs, DlrOrphaned(d) PROVE ReceiptsAreTrue'
    BY <1>0, <1>4 DEF DlrOrphaned, DlrUnchanged, smsc_vars
  <1>5. ASSUME NEW d \in dlrs, DlrFound(d) PROVE ReceiptsAreTrue'
    <2>1. PICK id \in UNION FoundFor(d.sid) :
             dlr' = [on |-> TRUE, sid |-> d.sid, status |-> d.status, id |-> id]
      BY <1>5 DEF DlrFound
    <2>3. d.sid \in SmscIds  BY <1>0 DEF TypeOK, Receipts
    <2>4. UNCHANGED fate /\ dlrs' \subseteq dlrs  BY <1>5 DEF DlrFound, DlrUnchanged, smsc_vars
    <2>5. QED  BY <1>0, <2>1, <2>3, <2>4
  <1>6. ASSUME DlrApplied PROVE ReceiptsAreTrue'
    BY <1>0, <1>6 DEF DlrApplied, DlrUnchanged, smsc_vars, IdleDlr
  <1>7. \/ UNCHANGED <<dlrs, dlr, fate>>
        \/ \E sid \in SmscIds, f \in Fates : SmscSettles(sid, f)
        \/ \E sid \in SmscIds : SmscSendsDlr(sid)
        \/ \E d \in dlrs : DlrOrphaned(d) \/ DlrFound(d)
        \/ DlrApplied
    <2>1. ASSUME NEW id \in MessageIds,
                 \/ Forward(id) \/ Recv(id) \/ Dropped(id) \/ SpawnAndStore(id)
                 \/ ForwardTask(id) \/ Time(id)
          PROVE  UNCHANGED <<dlrs, dlr, fate>>
      BY <2>1 DEF Forward, Recv, Dropped, SpawnAndStore, ForwardTask, Time, NoRoute, Route, TryFails,
         Send, MockForwarded, Forwarded, ForwardFails, AllFailed, Requeue, QuietUnchanged,
         smsc_vars, dlr_vars
    <2>2. ASSUME RetryTick \/ RetryMessage PROVE UNCHANGED <<dlrs, dlr, fate>>
      BY <2>2 DEF RetryTick, RetryMessage, RetryGet, RetryListDone, RetryRoute, RetryGiveUp,
         RetryTryFails, RetrySend, RetryMocked, RetryAnswered, RetryFails, RetryAgain,
         RetrySucceeds, RetryDone, RetryUnchanged, smsc_vars, dlr_vars
    <2>3. ASSUME Maintenance \/ ShutsDown PROVE UNCHANGED <<dlrs, dlr, fate>>
      BY <2>3 DEF Maintenance, MaintenanceExpires, MaintenancePrunes, ShutsDown, QuietUnchanged,
         smsc_vars, dlr_vars
    <2>4. ASSUME NEW s \in Senders, NEW sid \in SmscIds, SmscAccepts(s, sid)
          PROVE  UNCHANGED <<dlrs, dlr, fate>>
      BY <2>4 DEF SmscAccepts, SmscUnchanged
    <2>5. QED  BY <2>1, <2>2, <2>3, <2>4 DEF Next, Smsc, Dlr
  <1>8. QED  BY <1>1, <1>2, <1>3, <1>4, <1>5, <1>6, <1>7

\* A forward task's step while the wires rest.
FwdMoves == \E id \in MessageIds, x \in {"queued", "received", "done"} \cup (TaskSteps \ {"waiting"}) :
               /\ fwd_pc[id] \notin {"waiting", "done"}
               /\ fwd_pc' = [fwd_pc EXCEPT ![id] = x]

\* Where the steps of a forward task lead.
LEMMA FwdStep ==
    ASSUME NEW id \in MessageIds,
           \/ Forward(id) \/ Recv(id) \/ Dropped(id) \/ SpawnAndStore(id) \/ NoRoute(id)
           \/ Route(id) \/ MockForwarded(id) \/ AllFailed(id) \/ Requeue(id)
    PROVE  FwdMoves /\ UNCHANGED <<running, retry_vars, smsc_vars, dlr_vars>>
  BY DEF Forward, Recv, Dropped, SpawnAndStore, NoRoute, Route, MockForwarded, AllFailed, Requeue,
     FwdMoves, FwdGoto, Reply, TaskSteps

\* Wires stay true: a sender sends only when it starts to wait and its wire is idle again
\* when it stops, and the SMSC names the message the sender is sending.
LEMMA WiresStep == ASSUME IInv, Next PROVE Wires'
  <1> USE DEF Wires, Senders
  <1>0. TypeOK /\ Wires /\ RetryLoop \notin MessageIds
    BY DeliveryAssumption DEF IInv
  <1>1. ASSUME UNCHANGED <<wire, accepted, fwd_pc, retry_pc, retry_id>> PROVE Wires'
    BY <1>0, <1>1 DEF Sending
  <1>2. ASSUME FwdMoves, UNCHANGED <<wire, accepted, retry_pc, retry_id>> PROVE Wires'
    BY <1>0, <1>2 DEF Sending, FwdMoves, TypeOK
  <1>3. ASSUME retry_pc # "waiting", UNCHANGED <<wire, accepted, fwd_pc>> PROVE Wires'
    BY <1>0, <1>3 DEF Sending
  <1>4. ASSUME NEW id \in MessageIds, Send(id) PROVE Wires'
    BY <1>0, <1>4 DEF Sending, Send, FwdGoto, SentWire, TypeOK, retry_vars
  <1>5. ASSUME NEW id \in MessageIds, Forwarded(id) \/ ForwardFails(id) PROVE Wires'
    <2>1. PICK x \in {"done", "trying"} : fwd_pc' = [fwd_pc EXCEPT ![id] = x]
      BY <1>5 DEF Forwarded, ForwardFails, Reply, FwdGoto
    <2>2. wire' = [wire EXCEPT ![id] = IdleWire] /\ UNCHANGED <<accepted, retry_pc, retry_id>>
      BY <1>5 DEF Forwarded, ForwardFails, retry_vars
    <2>3. QED  BY <1>0, <2>1, <2>2 DEF Sending, IdleWire, TypeOK
  <1>6. ASSUME RetrySend PROVE Wires'
    BY <1>0, <1>6 DEF Sending, RetrySend, SentWire, TypeOK, RetryUnchanged, fwd_vars
  <1>7. ASSUME RetryAnswered \/ RetryFails PROVE Wires'
    BY <1>0, <1>7 DEF Sending, RetryAnswered, RetrySucceeds, RetryDone, RetryFails, IdleWire, TypeOK,
       RetryUnchanged, fwd_vars
  <1>8. ASSUME NEW s \in Senders, NEW sid \in SmscIds, SmscAccepts(s, sid) PROVE Wires'
    <2>1. /\ wire[s] = SentWire /\ accepted[sid] = NoMessage
          /\ wire' = [wire EXCEPT ![s] = [sent |-> TRUE, sid |-> sid]]
          /\ accepted' = [accepted EXCEPT ![sid] = Sending(s)]
          /\ UNCHANGED <<fwd_pc, retry_pc, retry_id>>
      BY <1>8 DEF SmscAccepts, SmscUnchanged, fwd_vars, retry_vars
    <2>2. \A t \in Senders : wire[t].sent => Sending(t) \in MessageIds
      BY <1>0 DEF Sending, Control, RetrySteps, IInv
    <2>3. \A t \in Senders : Sending(t)' = Sending(t)
      BY <2>1 DEF Sending
    <2>4. \A t \in Senders : wire'[t].sent => wire[t].sent
      BY <1>0, <2>1 DEF SentWire, TypeOK
    <2>5. \A t \in Senders : wire'[t].sid # NoId =>
             wire'[t].sent /\ accepted'[wire'[t].sid] = Sending(t)
      <3> TAKE t \in Senders
      <3> HAVE wire'[t].sid # NoId
      <3>1. ASSUME t = s PROVE wire'[t].sent /\ accepted'[wire'[t].sid] = Sending(t)
        BY <1>0, <2>1, <3>1 DEF TypeOK
      <3>2. ASSUME t # s PROVE wire'[t].sent /\ accepted'[wire'[t].sid] = Sending(t)
        <4>1. wire'[t] = wire[t]  BY <1>0, <2>1, <3>2 DEF TypeOK
        <4>2. wire[t].sid \in SmscIds  BY <1>0, <4>1 DEF TypeOK
        <4>3. wire[t].sid # sid
          BY <1>0, <2>1, <2>2, <4>1, DeliveryAssumption
        <4>4. QED  BY <1>0, <2>1, <4>1, <4>2, <4>3 DEF TypeOK
      <3>3. QED  BY <3>1, <3>2
    <2>6. QED  BY <1>0, <2>1, <2>3, <2>4, <2>5
  <1>9. QED
    <2>1. ASSUME NEW id \in MessageIds,
                 Forward(id) \/ Recv(id) \/ Dropped(id) \/ SpawnAndStore(id) \/ ForwardTask(id)
          PROVE  Wires'
      <3>1. ASSUME TryFails(id) PROVE Wires'
        BY <1>1, <3>1 DEF TryFails, retry_vars, smsc_vars
      <3>2. QED  BY <1>2, <1>4, <1>5, <2>1, <3>1, FwdStep DEF ForwardTask, retry_vars, smsc_vars
    <2>2. ASSUME RetryTick \/ RetryMessage PROVE Wires'
      BY <1>3, <1>6, <1>7, <2>2 DEF RetryTick, RetryMessage, RetryGet, RetryListDone, RetryRoute,
         RetryGiveUp, RetryTryFails, RetryMocked, RetryAgain, RetrySucceeds, RetryDone,
         RetryUnchanged, smsc_vars, fwd_vars
    <2>3. ASSUME NEW id \in MessageIds, Time(id) PROVE Wires'
      BY <1>1, <2>3 DEF Time, QuietUnchanged, smsc_vars, fwd_vars, retry_vars
    <2>4. ASSUME Maintenance \/ ShutsDown PROVE Wires'
      BY <1>1, <2>4 DEF Maintenance, MaintenanceExpires, MaintenancePrunes, ShutsDown, QuietUnchanged,
         smsc_vars, fwd_vars, retry_vars
    <2>5. ASSUME NEW sid \in SmscIds, SmscSendsDlr(sid) \/ \E f \in Fates : SmscSettles(sid, f)
          PROVE  Wires'
      BY <1>1, <2>5 DEF SmscSendsDlr, SmscSettles, SmscUnchanged, fwd_vars, retry_vars
    <2>6. ASSUME Dlr PROVE Wires'
      BY <1>1, <2>6 DEF Dlr, DlrApplied, DlrOrphaned, DlrFound, DlrUnchanged, fwd_vars, retry_vars,
         smsc_vars
    <2>7. QED  BY <1>8, <2>1, <2>2, <2>3, <2>4, <2>5, <2>6 DEF Next, Smsc

\* A stored message whose state is Retrying is in no forward task.
LEMMA RetryingIsDone ==
    ASSUME IInv, NEW id \in InState("Retrying")
    PROVE  id \in MessageIds /\ fwd_pc[id] = "done"
  <1>1. id \in MessageIds /\ messages[id] # NoMessage /\ messages[id].state = "Retrying"
    BY DEF InState, Stored
  <1>2. fwd_pc[id] \notin NotStarted /\ fwd_pc[id] \notin TaskSteps
    BY <1>1 DEF IInv, Records, RecordOK
  <1>3. QED  BY <1>1, <1>2 DEF IInv, TypeOK, NotStarted

\* The control state stays consistent: the retry loop takes up only messages that are
\* Retrying, which their forward tasks have left, and forward tasks do not come back.
LEMMA ControlStep == ASSUME IInv, Next PROVE Control'
  <1> USE DEF Control, RetrySteps, NotStarted
  <1>0. TypeOK /\ Control  BY DEF IInv
  <1>1. ASSUME UNCHANGED <<fwd_pc, fwd_left, retry_vars, dlr>> PROVE Control'
    BY <1>0, <1>1 DEF retry_vars
  <1>2. ASSUME NEW id \in MessageIds, NEW x, x # "waiting",
               x \in NotStarted => fwd_pc[id] \in NotStarted,
               fwd_pc[id] # "done", fwd_pc' = [fwd_pc EXCEPT ![id] = x],
               \A i \in MessageIds \ {id} : fwd_left'[i] = fwd_left[i],
               UNCHANGED <<retry_vars, dlr>>
        PROVE  Control'
    BY <1>0, <1>2 DEF retry_vars, TypeOK
  <1>3. ASSUME NEW id \in MessageIds, TryFails(id) PROVE Control'
    BY <1>0, <1>3 DEF TryFails, retry_vars, dlr_vars, TypeOK
  <1>4. ASSUME NEW id \in MessageIds, Send(id) PROVE Control'
    BY <1>0, <1>4 DEF Send, FwdGoto, retry_vars, dlr_vars, TypeOK
  <1>5. ASSUME NEW id \in MessageIds,
               \/ Forward(id) \/ Recv(id) \/ Dropped(id) \/ SpawnAndStore(id) \/ NoRoute(id)
               \/ Route(id) \/ MockForwarded(id) \/ AllFailed(id) \/ Requeue(id)
               \/ Forwarded(id) \/ ForwardFails(id)
        PROVE  Control'
    <2>1. /\ UNCHANGED <<retry_vars, dlr>> /\ fwd_pc[id] # "done"
          /\ \A i \in MessageIds \ {id} : fwd_left'[i] = fwd_left[i]
      BY <1>0, <1>5 DEF Forward, Recv, Dropped, SpawnAndStore, NoRoute, Route, MockForwarded, AllFailed,
         Requeue, Forwarded, ForwardFails, Reply, TypeOK, dlr_vars
    <2>2. PICK x \in {"queued", "received", "done"} \cup (TaskSteps \ {"waiting"}) :
             /\ fwd_pc' = [fwd_pc EXCEPT ![id] = x]
             /\ x \in NotStarted => fwd_pc[id] \in NotStarted
      BY <1>5 DEF Forward, Recv, Dropped, SpawnAndStore, NoRoute, Route, MockForwarded, AllFailed,
         Requeue, Forwarded, ForwardFails, Reply, FwdGoto, TaskSteps
    <2>3. QED  BY <1>2, <2>1, <2>2
  <1>6. ASSUME RetryTick PROVE Control'
    <2>1. \A id \in get_ready_for_retry : fwd_pc[id] = "done"
      BY RetryingIsDone DEF get_ready_for_retry
    <2>2. QED  BY <1>0, <1>6, <2>1 DEF RetryTick, RetryUnchanged, fwd_vars, dlr_vars
  <1>7. ASSUME NEW id \in MessageIds, RetryGet(id) PROVE Control'
    BY <1>0, <1>7, RetryingIsDone DEF RetryGet, RetryUnchanged, fwd_vars, dlr_vars
  <1>8. ASSUME \/ RetryListDone \/ RetryRoute \/ RetryTryFails \/ RetrySend \/ RetryFails
        PROVE  Control'
    BY <1>0, <1>8 DEF RetryListDone, RetryRoute, RetryTryFails, RetrySend, RetryFails, RetryUnchanged,
       fwd_vars, dlr_vars
  <1>9. ASSUME RetryGiveUp \/ RetryMocked \/ RetryAnswered \/ RetryAgain PROVE Control'
    BY <1>0, <1>9 DEF RetryGiveUp, RetryMocked, RetryAnswered, RetryAgain, RetrySucceeds, RetryDone,
       RetryUnchanged, fwd_vars, dlr_vars
  <1>10. ASSUME \/ \E id \in MessageIds : Time(id)
                \/ Smsc \/ (\E d \in dlrs : DlrOrphaned(d)) \/ Maintenance \/ ShutsDown
         PROVE  Control'
    BY <1>1, <1>10 DEF Time, Smsc, SmscAccepts, SmscSettles, SmscSendsDlr, SmscUnchanged,
       DlrOrphaned, DlrUnchanged, Maintenance, MaintenanceExpires, MaintenancePrunes,
       ShutsDown, QuietUnchanged, fwd_vars, dlr_vars
  <1>11. ASSUME NEW d \in dlrs, DlrFound(d) PROVE Control'
    <2>1. PICK id \in UNION FoundFor(d.sid) :
             dlr' = [on |-> TRUE, sid |-> d.sid, status |-> d.status, id |-> id]
      BY <1>11 DEF DlrFound
    <2>2. id \in MessageIds /\ fwd_pc[id] \notin NotStarted
      BY FoundEffect DEF IInv, Records, RecordOK
    <2>3. QED  BY <1>0, <1>11, <2>1, <2>2 DEF DlrFound, DlrUnchanged, fwd_vars, retry_vars
  <1>12. ASSUME DlrApplied PROVE Control'
    BY <1>0, <1>12 DEF DlrApplied, DlrUnchanged, IdleDlr, fwd_vars, retry_vars
  <1>13. QED
    BY <1>3, <1>4, <1>5, <1>6, <1>7, <1>8, <1>9, <1>10, <1>11, <1>12
       DEF Next, ForwardTask, RetryMessage, Dlr

\* A record that the step does not touch, and whose sender and receipt it does not change,
\* stays as it should be.
LEMMA RecordKept ==
    ASSUME NEW i \in MessageIds, messages[i] # NoMessage => RecordOK(i, messages[i]),
           messages'[i] # NoMessage, messages'[i] = messages[i],
           fwd_pc'[i] \notin NotStarted,
           fwd_pc'[i] \in TaskSteps => fwd_pc[i] \in TaskSteps,
           messages[i].smsc \in SmscIds => /\ accepted'[messages[i].smsc] = accepted[messages[i].smsc]
                                           /\ fate'[messages[i].smsc] = fate[messages[i].smsc],
           retry_pc' \in RetrySteps /\ retry_id' = i => retry_pc \in RetrySteps /\ retry_id = i,
           dlr'.on /\ dlr'.id = i => dlr' = dlr,
           i \in retry_queue => i \in retry_queue'
    PROVE  RecordOK(i, messages[i])'
  BY DEF RecordOK

\* A message in the hands of its forward task is with nobody else and has no identifier.
LEMMA InTask ==
    ASSUME IInv, NEW id \in MessageIds, messages[id] # NoMessage, fwd_pc[id] \in TaskSteps
    PROVE  /\ messages[id] \in StoredMessage /\ messages[id].attempts = 0
           /\ messages[id].smsc = NoId
           /\ ~(retry_pc \in RetrySteps /\ retry_id = id)
           /\ ~(dlr.on /\ dlr.id = id)
           /\ messages[id].state = "Retrying" => id \in retry_queue
  <1>1. RecordOK(id, messages[id])  BY DEF IInv, Records
  <1>2. messages[id].attempts = 0 /\ messages[id].smsc = NoId  BY <1>1 DEF RecordOK
  <1>3. ~(retry_pc \in RetrySteps /\ retry_id = id)
    BY DEF IInv, Control, TaskSteps
  <1>4. ~(dlr.on /\ dlr.id = id)
    BY <1>1, <1>2, StoreAssumption DEF IInv, ReceiptsAreTrue, RecordOK
  <1>5. QED  BY <1>1, <1>2, <1>3, <1>4, StoredIsMessage DEF RecordOK, IInv

\* The same of a message in the hands of the retry loop.
LEMMA InRetry ==
    ASSUME IInv, retry_pc \in RetrySteps, messages[retry_id] # NoMessage
    PROVE  /\ retry_id \in MessageIds /\ fwd_pc[retry_id] = "done"
           /\ messages[retry_id] \in StoredMessage /\ messages[retry_id].attempts = 0
           /\ messages[retry_id].smsc = NoId
           /\ ~(dlr.on /\ dlr.id = retry_id)
           /\ messages[retry_id].state = "Retrying" => retry_id \in retry_queue
  <1>1. retry_id \in MessageIds /\ fwd_pc[retry_id] = "done"  BY DEF IInv, Control
  <1>2. RecordOK(retry_id, messages[retry_id])  BY <1>1 DEF IInv, Records
  <1>3. messages[retry_id].attempts = 0 /\ messages[retry_id].smsc = NoId  BY <1>2 DEF RecordOK
  <1>4. ~(dlr.on /\ dlr.id = retry_id)
    BY <1>2, <1>3, StoreAssumption DEF IInv, ReceiptsAreTrue, RecordOK
  <1>5. QED  BY <1>1, <1>2, <1>3, <1>4, StoredIsMessage DEF RecordOK, IInv

\* What a sender may write back: a message that no SMSC has, or one in flight under an
\* identifier that is its own.
WriteBack(id, m) ==
    /\ m \in StoredMessage
    /\ \/ m.attempts = 0 /\ m.smsc = NoId /\ m.state \in {"Failed", "Expired", "Retrying"}
       \/ /\ m.attempts = 1 /\ m.state = "InFlight"
          /\ m.smsc = MockId \/ (m.smsc \in SmscIds /\ accepted[m.smsc] = id)

\* The marks are such write-backs when no SMSC has the message.
LEMMA MarksWriteBack ==
    ASSUME NEW id, NEW m \in StoredMessage, m.attempts = 0, m.smsc = NoId
    PROVE  /\ WriteBack(id, mark_failed(m)) /\ WriteBack(id, mark_expired(m))
           /\ WriteBack(id, mark_retry(m)) /\ WriteBack(id, InFlightAs(m, MockId))
           /\ \A sid \in SmscIds : accepted[sid] = id => WriteBack(id, InFlightAs(m, sid))
  <1>1. /\ WriteBack(id, mark_failed(m)) /\ WriteBack(id, mark_expired(m))
        /\ WriteBack(id, mark_retry(m))
    BY Marks DEF WriteBack
  <1>2. ASSUME NEW sid \in SmscIds \cup {MockId}, sid = MockId \/ accepted[sid] = id
        PROVE  WriteBack(id, InFlightAs(m, sid))
    <2>1. /\ InFlightAs(m, sid) \in StoredMessage /\ InFlightAs(m, sid).state = "InFlight"
          /\ InFlightAs(m, sid).attempts = 1 /\ InFlightAs(m, sid).smsc = sid
      BY Marks
    <2>2. QED  BY <1>2, <2>1 DEF WriteBack
  <1>3. QED  BY <1>1, <1>2

\* The last update of a forward task keeps the records as they should be.
LEMMA FwdWritesBack ==
    ASSUME IInv, NEW id \in MessageIds, NEW m, Update(id, m), fwd_pc[id] \in TaskSteps,
           messages[id] # NoMessage => WriteBack(id, m),
           fwd_pc' = [fwd_pc EXCEPT ![id] = "done"],
           UNCHANGED <<retry_pc, retry_id, accepted, fate, dlr>>
    PROVE  Records'
  <1> SUFFICES ASSUME NEW i \in MessageIds, messages'[i] # NoMessage
               PROVE  RecordOK(i, messages[i])'
    BY DEF Records
  <1>1. TypeOK /\ Records  BY DEF IInv
  <1>2. /\ messages'[id] = IF messages[id] = NoMessage THEN NoMessage ELSE m
        /\ \A j \in MessageIds \ {id} : messages'[j] = messages[j]
        /\ \A j \in MessageIds \ {id} : j \in retry_queue' <=> j \in retry_queue
        /\ messages[id] # NoMessage /\ m.state = "Retrying" =>
             id \in retry_queue' \/ (messages[id].state = "Retrying" /\ id \notin retry_queue)
    BY <1>1, UpdateEffect DEF WriteBack
  <1>3. ASSUME i # id PROVE RecordOK(i, messages[i])'
    <2>1. messages'[i] = messages[i] /\ fwd_pc'[i] = fwd_pc[i] /\ (i \in retry_queue => i \in retry_queue')
      BY <1>1, <1>2, <1>3 DEF TypeOK
    <2>2. RecordOK(i, messages[i])  BY <1>1, <2>1 DEF Records
    <2>3. fwd_pc'[i] \notin NotStarted  BY <2>1, <2>2 DEF RecordOK
    <2>4. QED  BY <2>1, <2>2, <2>3, RecordKept
  <1>4. ASSUME i = id PROVE RecordOK(i, messages[i])'
    <2>1. messages[id] # NoMessage /\ messages'[id] = m /\ WriteBack(id, m)  BY <1>2, <1>4
    <2>2. fwd_pc'[id] = "done"  BY <1>1 DEF TypeOK
    <2>3. m.state = "Retrying" => id \in retry_queue'  BY <1>2, <2>1, InTask
    <2>4. /\ ~(retry_pc' \in RetrySteps /\ retry_id' = id)
          /\ ~(dlr'.on /\ dlr'.id = id)
      BY <2>1, InTask
    <2>5. RecordOK(id, m)'
      BY <2>1, <2>2, <2>3, <2>4, StoreAssumption DEF RecordOK, WriteBack, NotStarted, TaskSteps
    <2>6. QED  BY <1>4, <2>1, <2>5
  <1>5. QED  BY <1>3, <1>4

\* So does the last update of retry_message.
LEMMA RetryWritesBack ==
    ASSUME IInv, NEW m, Update(retry_id, m), retry_pc \in RetrySteps,
           messages[retry_id] # NoMessage => WriteBack(retry_id, m),
           retry_pc' = "list", UNCHANGED <<fwd_pc, accepted, fate, dlr>>
    PROVE  Records'
  <1> SUFFICES ASSUME NEW i \in MessageIds, messages'[i] # NoMessage
               PROVE  RecordOK(i, messages[i])'
    BY DEF Records
  <1>1. TypeOK /\ Records /\ retry_id \in MessageIds  BY DEF IInv, Control
  <1>2. /\ messages'[retry_id] = IF messages[retry_id] = NoMessage THEN NoMessage ELSE m
        /\ \A j \in MessageIds \ {retry_id} : messages'[j] = messages[j]
        /\ \A j \in MessageIds \ {retry_id} : j \in retry_queue' <=> j \in retry_queue
        /\ messages[retry_id] # NoMessage /\ m.state = "Retrying" =>
             \/ retry_id \in retry_queue'
             \/ messages[retry_id].state = "Retrying" /\ retry_id \notin retry_queue
    BY <1>1, UpdateEffect DEF WriteBack
  <1>3. ASSUME i # retry_id PROVE RecordOK(i, messages[i])'
    <2>1. messages'[i] = messages[i] /\ (i \in retry_queue => i \in retry_queue')
      BY <1>2, <1>3
    <2>2. RecordOK(i, messages[i])  BY <1>1, <2>1 DEF Records
    <2>3. fwd_pc'[i] \notin NotStarted  BY <2>2 DEF RecordOK
    <2>4. QED  BY <2>1, <2>2, <2>3, RecordKept DEF RetrySteps
  <1>4. ASSUME i = retry_id PROVE RecordOK(i, messages[i])'
    <2>1. messages[i] # NoMessage /\ messages'[i] = m /\ WriteBack(i, m)  BY <1>2, <1>4
    <2>2. fwd_pc'[i] = "done"  BY <1>4, <2>1, InRetry
    <2>3. m.state = "Retrying" => i \in retry_queue'  BY <1>2, <1>4, <2>1, InRetry
    <2>4. ~(dlr'.on /\ dlr'.id = i)  BY <1>4, <2>1, InRetry
    <2>5. RecordOK(i, m)'
      BY <2>1, <2>2, <2>3, <2>4, StoreAssumption DEF RecordOK, WriteBack, NotStarted, TaskSteps, RetrySteps
    <2>6. QED  BY <2>1, <2>5
  <1>5. QED  BY <1>3, <1>4


\* A step that leaves the store alone keeps the records, when forward tasks stay forward
\* tasks, the retry loop takes up only what is Retrying, a receipt finds only what is in
\* flight under its identifier, and no identifier in use changes hands or fate.
LEMMA StoreRests ==
    ASSUME IInv, UNCHANGED store_vars,
           \A i \in MessageIds : messages[i] # NoMessage =>
              /\ fwd_pc'[i] \notin NotStarted
              /\ fwd_pc'[i] \in TaskSteps => fwd_pc[i] \in TaskSteps
              /\ messages[i].smsc \in SmscIds =>
                    /\ accepted'[messages[i].smsc] = accepted[messages[i].smsc]
                    /\ \/ fate'[messages[i].smsc] = fate[messages[i].smsc]
                       \/ fate[messages[i].smsc] = "none"
              /\ retry_pc' \in RetrySteps /\ retry_id' = i =>
                    \/ retry_pc \in RetrySteps /\ retry_id = i
                    \/ messages[i].state = "Retrying"
              /\ dlr'.on /\ dlr'.id = i =>
                    dlr' = dlr \/ (messages[i].smsc = dlr'.sid /\ messages[i].state = "InFlight")
    PROVE  Records'
  <1> SUFFICES ASSUME NEW i \in MessageIds, messages[i] # NoMessage
               PROVE  RecordOK(i, messages[i])'
    BY DEF Records, store_vars
  <1>1. RecordOK(i, messages[i])  BY DEF IInv, Records
  <1>2. messages'[i] = messages[i] /\ retry_queue' = retry_queue  BY DEF store_vars
  <1>3. QED  BY <1>1, <1>2, StoreAssumption DEF RecordOK

\* Where the steps of a forward task that leave the store alone lead.
LEMMA TaskRests ==
    ASSUME IInv, NEW id \in MessageIds,
           \/ Forward(id) \/ Recv(id) \/ Dropped(id)
           \/ Route(id) \/ TryFails(id) \/ Send(id) \/ ForwardFails(id) \/ AllFailed(id)
    PROVE  Records'
  <1>1. TypeOK /\ Records  BY DEF IInv
  <1>2. UNCHANGED <<store_vars, retry_pc, retry_id, accepted, fate, dlr>>
    BY DEF Forward, Recv, Dropped, Route, TryFails, Send, ForwardFails, AllFailed, retry_vars,
       smsc_vars, dlr_vars
  <1>3. \/ fwd_pc' = fwd_pc
        \/ fwd_pc[id] \in NotStarted /\ \E x \in NotStarted \cup {"done"} : fwd_pc' = [fwd_pc EXCEPT ![id] = x]
        \/ fwd_pc[id] \in TaskSteps /\ \E x \in TaskSteps : fwd_pc' = [fwd_pc EXCEPT ![id] = x]
    BY DEF Forward, Recv, Dropped, Route, TryFails, Send, ForwardFails, AllFailed, Reply, FwdGoto,
       NotStarted, TaskSteps
  <1>4. \A i \in MessageIds : messages[i] # NoMessage => fwd_pc[i] \notin NotStarted
    BY <1>1 DEF Records, RecordOK
  <1>5. \A i \in MessageIds : messages[i] # NoMessage =>
           fwd_pc'[i] \notin NotStarted /\ (fwd_pc'[i] \in TaskSteps => fwd_pc[i] \in TaskSteps)
    BY <1>1, <1>3, <1>4 DEF TypeOK, NotStarted, TaskSteps
  <1>6. QED  BY <1>2, <1>5, StoreRests

\* The steps of the retry loop between two updates.
LEMMA RetryRests ==
    ASSUME IInv,
           \/ RetryTick \/ (\E id \in MessageIds : RetryGet(id)) \/ RetryListDone \/ RetryRoute
           \/ RetryTryFails \/ RetrySend \/ RetryFails
    PROVE  Records'
  <1>1. UNCHANGED <<store_vars, fwd_pc, accepted, fate, dlr>>
    BY DEF RetryTick, RetryGet, RetryListDone, RetryRoute, RetryTryFails, RetrySend, RetryFails,
       RetryUnchanged, fwd_vars, smsc_vars, dlr_vars
  <1>2. retry_pc' \in RetrySteps =>
           \/ retry_pc \in RetrySteps /\ retry_id' = retry_id
           \/ retry_id' \in InState("Retrying")
    BY DEF RetryTick, RetryGet, RetryListDone, RetryRoute, RetryTryFails, RetrySend, RetryFails,
       RetrySteps
  <1>3. \A i \in MessageIds : messages[i] # NoMessage => fwd_pc[i] \notin NotStarted
    BY DEF IInv, Records, RecordOK
  <1>4. QED  BY <1>1, <1>2, <1>3, StoreRests DEF InState

\* The steps of the SMSCs: an identifier is given once, and its fate is settled once.
LEMMA SmscRests == ASSUME IInv, Smsc PROVE Records'
  <1>1. UNCHANGED <<store_vars, fwd_pc, retry_pc, retry_id, dlr>>
    BY DEF Smsc, SmscAccepts, SmscSettles, SmscSendsDlr, SmscUnchanged, fwd_vars, retry_vars
  <1>2. \A i \in MessageIds : messages[i] # NoMessage =>
           /\ fwd_pc[i] \notin NotStarted
           /\ messages[i].smsc \in SmscIds => accepted[messages[i].smsc] = i
    BY DEF IInv, Records, RecordOK
  <1>3. \A sid \in SmscIds : /\ accepted'[sid] = accepted[sid] \/ accepted[sid] = NoMessage
                             /\ fate'[sid] = fate[sid] \/ fate[sid] = "none"
    BY DEF Smsc, SmscAccepts, SmscSettles, SmscSendsDlr, SmscUnchanged, IInv, TypeOK
  <1>4. QED  BY <1>1, <1>2, <1>3, StoreRests, DeliveryAssumption

\* A receipt that finds nobody, or finds a message in flight under its identifier: a
\* Retrying message has no identifier.
LEMMA DlrRests == ASSUME IInv, NEW d \in dlrs, DlrOrphaned(d) \/ DlrFound(d) PROVE Records'
  <1>1. UNCHANGED <<store_vars, fwd_pc, retry_pc, retry_id, accepted, fate>>
    BY DEF DlrOrphaned, DlrFound, DlrUnchanged, fwd_vars, retry_vars, smsc_vars
  <1>2. \A i \in MessageIds : messages[i] # NoMessage =>
           /\ fwd_pc[i] \notin NotStarted
           /\ messages[i].state = "Retrying" => messages[i].smsc = NoId
    BY DEF IInv, Records, RecordOK
  <1>3. d.sid \in SmscIds  BY DEF IInv, TypeOK, Receipts
  <1>4. CASE DlrOrphaned(d)
    BY <1>1, <1>2, <1>4, StoreRests DEF DlrOrphaned
  <1>5. CASE DlrFound(d)
    <2>1. PICK id \in UNION FoundFor(d.sid) :
             dlr' = [on |-> TRUE, sid |-> d.sid, status |-> d.status, id |-> id]
      BY <1>5 DEF DlrFound
    <2>2. /\ id \in MessageIds /\ messages[id] # NoMessage /\ messages[id].smsc = d.sid
          /\ messages[id].state \in {"InFlight", "Retrying"}
      BY FoundEffect
    <2>3. messages[id].state = "InFlight"
      BY <1>2, <1>3, <2>2, StoreAssumption
    <2>4. \A i \in MessageIds : dlr'.id = i => messages[i].smsc = dlr'.sid /\ messages[i].state = "InFlight"
      BY <2>1, <2>2, <2>3
    <2>5. QED  BY <1>1, <1>2, <2>4, StoreRests
  <1>6. QED  BY <1>4, <1>5

\* The update of a final receipt: the message it was found for still has its identifier
\* and is with no sender, and the receipt tells the truth about it.
LEMMA DlrWrites == ASSUME IInv, DlrApplied PROVE Records'
  <1>1. /\ TypeOK /\ Records /\ ReceiptsAreTrue /\ dlr.on /\ dlr'.on = FALSE /\ dlr.id \in MessageIds
        /\ UNCHANGED <<fwd_pc, retry_pc, retry_id, accepted, fate>>
    BY DEF IInv, Control, DlrApplied, DlrUnchanged, fwd_vars, retry_vars, smsc_vars, IdleDlr
  <1>2. \A i \in MessageIds : messages[i] # NoMessage => fwd_pc[i] \notin NotStarted
    BY <1>1 DEF Records, RecordOK
  <1>3. CASE dlr.status \notin Fates
    BY <1>1, <1>2, <1>3, StoreRests DEF DlrApplied
  <1>4. CASE dlr.status \in Fates
    <2> DEFINE id == dlr.id
               st == IF dlr.status = "Delivered" THEN "Delivered" ELSE "Failed"
               m == [messages[id] EXCEPT !.state = st]
    <2>1. Update(id, m)  BY <1>4 DEF DlrApplied
    <2>2. ASSUME messages[id] # NoMessage
          PROVE  /\ m \in StoredMessage /\ m.state = st
                 /\ m.attempts = messages[id].attempts /\ m.smsc = messages[id].smsc
      <3>1. messages[id] \in StoredMessage  BY <1>1, <2>2, StoredIsMessage
      <3>2. QED  BY <3>1 DEF StoredMessage, MessageState
    <2> HIDE DEF m
    <2>3. /\ messages'[id] = IF messages[id] = NoMessage THEN NoMessage ELSE m
          /\ \A j \in MessageIds \ {id} : messages'[j] = messages[j]
          /\ \A j \in MessageIds \ {id} : j \in retry_queue' <=> j \in retry_queue
      BY <1>1, <2>1, <2>2, UpdateEffect
    <2> SUFFICES ASSUME NEW i \in MessageIds, messages'[i] # NoMessage
                 PROVE  RecordOK(i, messages[i])'
      BY DEF Records
    <2>4. ASSUME i # id PROVE RecordOK(i, messages[i])'
      <3>1. messages'[i] = messages[i] /\ (i \in retry_queue => i \in retry_queue')
        BY <2>3, <2>4
      <3>2. RecordOK(i, messages[i]) /\ fwd_pc'[i] \notin NotStarted  BY <1>1, <1>2, <3>1 DEF Records
      <3>3. QED  BY <1>1, <3>1, <3>2, RecordKept
    <2>5. ASSUME i = id PROVE RecordOK(i, messages[i])'
      <3>1. messages[i] # NoMessage /\ messages'[i] = m  BY <2>3, <2>5
      <3>2. RecordOK(i, messages[i])  BY <1>1, <3>1 DEF Records
      <3>3. /\ messages[i].smsc = dlr.sid /\ dlr.sid \in SmscIds /\ fate[dlr.sid] = dlr.status
            /\ messages[i].smsc # NoId
        BY <1>1, <1>4, <2>5, <3>2, StoreAssumption DEF RecordOK, ReceiptsAreTrue
      <3>4. messages[i].attempts = 1 /\ accepted[messages[i].smsc] = i
        BY <3>2, <3>3 DEF RecordOK
      <3>5. fwd_pc[i] \notin TaskSteps /\ ~(retry_pc \in RetrySteps /\ retry_id = i)
        BY <3>2, <3>4 DEF RecordOK
      <3>6. m.state = dlr.status \/ (m.state = "Failed" /\ dlr.status = "Undeliverable")
        BY <1>4, <2>2, <2>5, <3>1 DEF Fates
      <3>7. m.attempts = 1 /\ m.smsc = dlr.sid /\ m.state \in {"Delivered", "Failed"}
        BY <2>2, <2>5, <3>1, <3>3, <3>4
      <3>8. m.state = "Delivered" => dlr.status = "Delivered"
        BY <1>4, <3>6 DEF Fates
      <3>9. m.state = "Failed" => dlr.status = "Undeliverable"
        BY <1>4, <3>6 DEF Fates
      <3>10. QED
        BY <1>1, <3>1, <3>2, <3>3, <3>4, <3>5, <3>7, <3>8, <3>9 DEF RecordOK
    <2>6. QED  BY <2>4, <2>5
  <1>5. QED  BY <1>3, <1>4

\* A step that at most ages, expires or removes messages keeps the records.
LEMMA QuietStep ==
    ASSUME IInv, UNCHANGED <<fwd_pc, retry_pc, retry_id, accepted, fate, dlr, retry_queue>>,
           \A i \in MessageIds : messages'[i] # NoMessage =>
              /\ messages[i] # NoMessage
              /\ messages'[i].attempts = messages[i].attempts /\ messages'[i].smsc = messages[i].smsc
              /\ \/ messages'[i].state = messages[i].state
                 \/ messages'[i].state = "Expired" /\ ~is_terminal(messages[i].state)
    PROVE  Records'
  <1> SUFFICES ASSUME NEW i \in MessageIds, messages'[i] # NoMessage
               PROVE  RecordOK(i, messages[i])'
    BY DEF Records
  <1>1. RecordOK(i, messages[i]) /\ messages[i] \in StoredMessage
    BY StoredIsMessage DEF IInv, Records
  <1>2. QED  BY <1>1 DEF RecordOK, StoredMessage, MessageState, is_terminal

\* Maintenance and the passing of time are such steps.
LEMMA QuietRecords ==
    ASSUME IInv, Maintenance \/ \E id \in MessageIds : Time(id)
    PROVE  StoreTypeOK' /\ Records'
  <1>1. TypeOK /\ StoreTypeOK  BY DEF IInv, TypeOK
  <1>2. UNCHANGED <<fwd_pc, retry_pc, retry_id, accepted, fate, dlr, retry_queue>>
    BY DEF Maintenance, MaintenanceExpires, MaintenancePrunes, Time, QuietUnchanged, ExpireOld,
       PruneTerminal, Ages, RetryComesDue, fwd_vars, retry_vars, smsc_vars, dlr_vars
  <1>3. ASSUME MaintenanceExpires PROVE StoreTypeOK' /\ Records'
    <2>1. messages' = [id \in MessageIds |->
                        IF id \in Stored \ TerminalIds /\ is_expired(messages[id])
                        THEN mark_expired(messages[id]) ELSE messages[id]]
      BY <1>3 DEF MaintenanceExpires, ExpireOld
    <2>2. ASSUME NEW i \in MessageIds, messages[i] # NoMessage
          PROVE  /\ messages'[i] \in StoredMessage
                 /\ messages'[i].attempts = messages[i].attempts /\ messages'[i].smsc = messages[i].smsc
                 /\ \/ messages'[i].state = messages[i].state
                    \/ messages'[i].state = "Expired" /\ ~is_terminal(messages[i].state)
      BY <1>1, <2>1, <2>2, StoredIsMessage, Marks DEF TerminalIds
    <2>3. ASSUME NEW i \in MessageIds, messages[i] = NoMessage PROVE messages'[i] = NoMessage
      BY <2>1, <2>3 DEF Stored
    <2>4. StoreTypeOK'  BY <1>1, <1>2, <2>1, <2>2, <2>3 DEF StoreTypeOK
    <2>5. QED  BY <1>2, <2>2, <2>3, <2>4, QuietStep
  <1>4. ASSUME MaintenancePrunes PROVE StoreTypeOK' /\ Records'
    <2>1. PICK pruned \in SUBSET TerminalIds :
             messages' = [id \in MessageIds |-> IF id \in pruned THEN NoMessage ELSE messages[id]]
      BY <1>4 DEF MaintenancePrunes, PruneTerminal
    <2>2. StoreTypeOK'  BY <1>1, <1>2, <2>1 DEF StoreTypeOK
    <2>3. QED  BY <1>2, <2>1, <2>2, QuietStep
  <1>5. ASSUME NEW id \in MessageIds, Time(id) PROVE StoreTypeOK' /\ Records'
    <2>1. PICK f \in {"old", "due"} : messages[id] # NoMessage /\
             messages' = [messages EXCEPT ![id] = IF f = "old" THEN [messages[id] EXCEPT !.old = TRUE]
                                                              ELSE [messages[id] EXCEPT !.due = TRUE]]
      BY <1>5 DEF Time, Ages, RetryComesDue, InState, Stored
    <2>2. messages[id] \in StoredMessage  BY <1>1, <2>1, StoredIsMessage
    <2>3. /\ [messages[id] EXCEPT !.old = TRUE] \in StoredMessage
          /\ [messages[id] EXCEPT !.old = TRUE].state = messages[id].state
          /\ [messages[id] EXCEPT !.old = TRUE].attempts = messages[id].attempts
          /\ [messages[id] EXCEPT !.old = TRUE].smsc = messages[id].smsc
      BY <2>2 DEF StoredMessage
    <2>4. /\ [messages[id] EXCEPT !.due = TRUE] \in StoredMessage
          /\ [messages[id] EXCEPT !.due = TRUE].state = messages[id].state
          /\ [messages[id] EXCEPT !.due = TRUE].attempts = messages[id].attempts
          /\ [messages[id] EXCEPT !.due = TRUE].smsc = messages[id].smsc
      BY <2>2 DEF StoredMessage
    <2>5. /\ messages'[id] \in StoredMessage /\ messages'[id].state = messages[id].state
          /\ messages'[id].attempts = messages[id].attempts /\ messages'[id].smsc = messages[id].smsc
          /\ \A i \in MessageIds \ {id} : messages'[i] = messages[i]
      BY <1>1, <2>1, <2>3, <2>4 DEF StoreTypeOK
    <2>6. StoreTypeOK'  BY <1>1, <1>2, <2>1, <2>5 DEF StoreTypeOK
    <2>7. QED  BY <1>2, <2>1, <2>5, <2>6, QuietStep
  <1>6. QED  BY <1>3, <1>4, <1>5 DEF Maintenance

\* A new message: its task is routing, nobody else knows it, and what makes room for it
\* is only removed.
LEMMA SpawnStep ==
    ASSUME IInv, NEW id \in MessageIds, SpawnAndStore(id)
    PROVE  StoreTypeOK' /\ Records'
  <1>1. TypeOK /\ Records /\ Control /\ StoreTypeOK  BY DEF IInv, TypeOK
  <1>2. /\ fwd_pc[id] = "received" /\ fwd_pc' = [fwd_pc EXCEPT ![id] = "routing"]
        /\ UNCHANGED <<retry_pc, retry_id, accepted, fate, dlr, retry_queue>>
    BY DEF SpawnAndStore, Store, FwdGoto, retry_vars, smsc_vars, dlr_vars
  <1>3. PICK evicted \in Evictable :
           messages' = [i \in MessageIds |-> IF i = id THEN NewMessage
                                             ELSE IF i \in evicted THEN NoMessage
                                             ELSE messages[i]]
    BY DEF SpawnAndStore, Store
  <1>4. NewMessage \in StoredMessage  BY DEF NewMessage, StoredMessage, MessageState
  <1>5. StoreTypeOK'  BY <1>1, <1>2, <1>3, <1>4 DEF StoreTypeOK
  <1> SUFFICES ASSUME NEW i \in MessageIds, messages'[i] # NoMessage
               PROVE  RecordOK(i, messages[i])'
    BY <1>5 DEF Records
  <1>6. CASE i # id
    <2>1. messages'[i] = messages[i] /\ fwd_pc'[i] = fwd_pc[i]  BY <1>1, <1>2, <1>3, <1>6 DEF TypeOK
    <2>2. RecordOK(i, messages[i])  BY <1>1, <2>1 DEF Records
    <2>3. fwd_pc'[i] \notin NotStarted  BY <2>1, <2>2 DEF RecordOK
    <2>4. QED  BY <1>2, <2>1, <2>2, <2>3, RecordKept
  <1>7. CASE i = id
    <2>1. messages'[i] = NewMessage /\ fwd_pc'[i] = "routing"  BY <1>1, <1>2, <1>3, <1>7 DEF TypeOK
    <2>2. /\ ~(retry_pc' \in RetrySteps /\ retry_id' = i)
          /\ ~(dlr'.on /\ dlr'.id = i)
      BY <1>1, <1>2, <1>7 DEF Control, NotStarted
    <2>3. QED
      BY <2>1, <2>2, StoreAssumption DEF RecordOK, NewMessage, NotStarted, TaskSteps
  <1>8. QED  BY <1>6, <1>7

\* The update that ends a forward task is such a write-back.
LEMMA TaskUpdates ==
    ASSUME IInv, NEW id \in MessageIds,
           NoRoute(id) \/ MockForwarded(id) \/ Forwarded(id) \/ Requeue(id)
    PROVE  \E m : Update(id, m) /\ (messages[id] # NoMessage => WriteBack(id, m))
  <1>0. /\ TypeOK /\ Wires /\ fwd_pc[id] \in TaskSteps
        /\ fwd_pc' = [fwd_pc EXCEPT ![id] = "done"]
        /\ UNCHANGED <<retry_pc, retry_id, accepted, fate, dlr>>
    BY DEF IInv, NoRoute, MockForwarded, Forwarded, Requeue, Reply, FwdGoto, TaskSteps, retry_vars,
       smsc_vars, dlr_vars
  <1>1. messages[id] # NoMessage => /\ messages[id] \in StoredMessage
                                    /\ messages[id].attempts = 0 /\ messages[id].smsc = NoId
    BY <1>0, InTask
  <1>2. CASE NoRoute(id)
    <2>1. Update(id, mark_failed(messages[id]))  BY <1>2 DEF NoRoute
    <2>2. messages[id] # NoMessage => WriteBack(id, mark_failed(messages[id]))
      BY <1>1, MarksWriteBack
    <2>3. QED  BY <2>1, <2>2
  <1>3. CASE MockForwarded(id)
    <2>1. Update(id, InFlightAs(messages[id], MockId))  BY <1>3 DEF MockForwarded
    <2>2. messages[id] # NoMessage => WriteBack(id, InFlightAs(messages[id], MockId))
      BY <1>1, MarksWriteBack
    <2>3. QED  BY <2>1, <2>2
  <1>4. CASE Forwarded(id)
    <2>1. Update(id, InFlightAs(messages[id], wire[id].sid)) /\ wire[id].sid # NoId
      BY <1>4 DEF Forwarded
    <2>2. wire[id].sid \in SmscIds /\ accepted[wire[id].sid] = id
      BY <1>0, <2>1, DeliveryAssumption DEF Wires, Sending, Senders, TypeOK
    <2>3. messages[id] # NoMessage => WriteBack(id, InFlightAs(messages[id], wire[id].sid))
      BY <1>1, <2>2, MarksWriteBack
    <2>4. QED  BY <2>1, <2>3
  <1>5. CASE Requeue(id)
    <2>1. Update(id, mark_retry(messages[id])) \/ Update(id, mark_failed(messages[id]))
      BY <1>5 DEF Requeue
    <2>2. messages[id] # NoMessage => /\ WriteBack(id, mark_retry(messages[id]))
                                      /\ WriteBack(id, mark_failed(messages[id]))
      BY <1>1, MarksWriteBack
    <2>3. QED  BY <2>1, <2>2
  <1>6. QED  BY <1>2, <1>3, <1>4, <1>5

\* So the end of a forward task keeps the records.
LEMMA TaskWrites ==
    ASSUME IInv, NEW id \in MessageIds,
           NoRoute(id) \/ MockForwarded(id) \/ Forwarded(id) \/ Requeue(id)
    PROVE  StoreTypeOK' /\ Records'
  <1>1. /\ TypeOK /\ Wires /\ fwd_pc[id] \in TaskSteps
        /\ fwd_pc' = [fwd_pc EXCEPT ![id] = "done"]
        /\ UNCHANGED <<retry_pc, retry_id, accepted, fate, dlr>>
    BY DEF IInv, NoRoute, MockForwarded, Forwarded, Requeue, Reply, FwdGoto, TaskSteps, retry_vars,
       smsc_vars, dlr_vars
  <1>2. PICK m : Update(id, m) /\ (messages[id] # NoMessage => WriteBack(id, m))
    BY TaskUpdates
  <1>3. StoreTypeOK'  BY <1>1, <1>2, UpdateEffect DEF WriteBack
  <1>4. QED  BY <1>1, <1>2, <1>3, FwdWritesBack

\* The update that ends retry_message is one too.
LEMMA RetryUpdates ==
    ASSUME IInv, RetryGiveUp \/ RetryMocked \/ RetryAnswered \/ RetryAgain
    PROVE  \E m : Update(retry_id, m) /\ (messages[retry_id] # NoMessage => WriteBack(retry_id, m))
  <1>0. /\ TypeOK /\ Wires /\ retry_pc \in RetrySteps /\ retry_id \in MessageIds
        /\ retry_pc' = "list" /\ UNCHANGED <<fwd_pc, accepted, fate, dlr>>
    BY DEF IInv, Control, RetryGiveUp, RetryMocked, RetryAnswered, RetryAgain, RetrySucceeds, RetryDone,
       RetryUnchanged, RetrySteps, fwd_vars, smsc_vars, dlr_vars
  <1>1. messages[retry_id] # NoMessage =>
           /\ messages[retry_id] \in StoredMessage
           /\ messages[retry_id].attempts = 0 /\ messages[retry_id].smsc = NoId
    BY <1>0, InRetry
  <1>2. CASE RetryGiveUp
    <2>1. \/ Update(retry_id, mark_failed(messages[retry_id]))
          \/ Update(retry_id, mark_expired(messages[retry_id]))
      BY <1>2 DEF RetryGiveUp
    <2>2. messages[retry_id] # NoMessage =>
             /\ WriteBack(retry_id, mark_failed(messages[retry_id]))
             /\ WriteBack(retry_id, mark_expired(messages[retry_id]))
      BY <1>1, MarksWriteBack
    <2>3. QED  BY <2>1, <2>2
  <1>3. CASE RetryMocked
    <2>1. Update(retry_id, InFlightAs(messages[retry_id], MockId))
      BY <1>3 DEF RetryMocked, RetrySucceeds
    <2>2. messages[retry_id] # NoMessage =>
             WriteBack(retry_id, InFlightAs(messages[retry_id], MockId))
      BY <1>1, MarksWriteBack
    <2>3. QED  BY <2>1, <2>2
  <1>4. CASE RetryAnswered
    <2> DEFINE sid == wire[RetryLoop].sid
    <2>1. Update(retry_id, InFlightAs(messages[retry_id], sid)) /\ sid # NoId
      BY <1>4 DEF RetryAnswered, RetrySucceeds
    <2>2. sid \in SmscIds /\ accepted[sid] = retry_id
      BY <1>0, <2>1, DeliveryAssumption DEF Wires, Sending, Senders, TypeOK
    <2>3. messages[retry_id] # NoMessage => WriteBack(retry_id, InFlightAs(messages[retry_id], sid))
      BY <1>1, <2>2, MarksWriteBack
    <2>4. QED  BY <2>1, <2>3
  <1>5. CASE RetryAgain
    <2>1. Update(retry_id, mark_retry(messages[retry_id]))  BY <1>5 DEF RetryAgain
    <2>2. messages[retry_id] # NoMessage => WriteBack(retry_id, mark_retry(messages[retry_id]))
      BY <1>1, MarksWriteBack
    <2>3. QED  BY <2>1, <2>2
  <1>6. QED  BY <1>2, <1>3, <1>4, <1>5

\* So the end of retry_message keeps the records.
LEMMA RetryWrites ==
    ASSUME IInv, RetryGiveUp \/ RetryMocked \/ RetryAnswered \/ RetryAgain
    PROVE  StoreTypeOK' /\ Records'
  <1>1. /\ TypeOK /\ Wires /\ retry_pc \in RetrySteps /\ retry_id \in MessageIds
        /\ retry_pc' = "list" /\ UNCHANGED <<fwd_pc, accepted, fate, dlr>>
    BY DEF IInv, Control, RetryGiveUp, RetryMocked, RetryAnswered, RetryAgain, RetrySucceeds, RetryDone,
       RetryUnchanged, RetrySteps, fwd_vars, smsc_vars, dlr_vars
  <1>2. PICK m : /\ Update(retry_id, m)
                 /\ messages[retry_id] # NoMessage => WriteBack(retry_id, m)
    BY RetryUpdates
  <1>3. StoreTypeOK'  BY <1>1, <1>2, UpdateEffect DEF WriteBack
  <1>4. QED  BY <1>1, <1>2, <1>3, RetryWritesBack

\* Every step keeps the records.
LEMMA RecordsStep == ASSUME IInv, Next PROVE Records'
  <1>1. ASSUME ShutsDown PROVE Records'
    <2>1. \A i \in MessageIds : messages[i] # NoMessage => fwd_pc[i] \notin NotStarted
      BY DEF IInv, Records, RecordOK
    <2>2. UNCHANGED <<store_vars, fwd_pc, retry_pc, retry_id, accepted, fate, dlr>>
      BY <1>1 DEF ShutsDown, fwd_vars, retry_vars, smsc_vars, dlr_vars
    <2>3. QED  BY <2>1, <2>2, StoreRests
  <1>2. ASSUME NEW id \in MessageIds,
               Forward(id) \/ Recv(id) \/ Dropped(id) \/ SpawnAndStore(id) \/ ForwardTask(id)
        PROVE  Records'
    BY <1>2, TaskRests, TaskWrites, SpawnStep DEF ForwardTask
  <1>3. ASSUME RetryTick \/ RetryMessage PROVE Records'
    BY <1>3, RetryRests, RetryWrites DEF RetryMessage
  <1>4. ASSUME Dlr PROVE Records'
    BY <1>4, DlrRests, DlrWrites DEF Dlr
  <1>5. QED  BY <1>1, <1>2, <1>3, <1>4, SmscRests, QuietRecords DEF Next

\* Heads and tails of the cluster lists.
LEMMA TailIsList == ASSUME NEW r \in Seq(ClusterKind), r # << >> PROVE Tail(r) \in Seq(ClusterKind)
  OBVIOUS

\* The store's values stay messages.
LEMMA StoreTypeStep == ASSUME IInv, Next PROVE StoreTypeOK'
  <1>1. TypeOK /\ StoreTypeOK  BY DEF IInv, TypeOK
  <1>2. ASSUME UNCHANGED store_vars PROVE StoreTypeOK'
    BY <1>1, <1>2 DEF StoreTypeOK, store_vars
  <1>3. ASSUME NEW id \in MessageIds, \/ Forward(id) \/ Recv(id) \/ Dropped(id) \/ Route(id)
                                      \/ TryFails(id) \/ Send(id) \/ ForwardFails(id) \/ AllFailed(id)
        PROVE  StoreTypeOK'
    BY <1>2, <1>3 DEF Forward, Recv, Dropped, Route, TryFails, Send, ForwardFails, AllFailed
  <1>4. ASSUME \/ RetryTick \/ (\E id \in MessageIds : RetryGet(id)) \/ RetryListDone \/ RetryRoute
               \/ RetryTryFails \/ RetrySend \/ RetryFails
        PROVE  StoreTypeOK'
    BY <1>2, <1>4 DEF RetryTick, RetryGet, RetryListDone, RetryRoute, RetryTryFails, RetrySend, RetryFails
  <1>5. ASSUME Smsc \/ ShutsDown \/ \E d \in dlrs : DlrOrphaned(d) \/ DlrFound(d)
        PROVE  StoreTypeOK'
    BY <1>2, <1>5 DEF Smsc, SmscAccepts, SmscSettles, SmscSendsDlr, SmscUnchanged, ShutsDown,
       DlrOrphaned, DlrFound
  <1>6. ASSUME DlrApplied PROVE StoreTypeOK'
    <2>1. CASE dlr.status \notin Fates  BY <1>2, <1>6, <2>1 DEF DlrApplied
    <2>2. CASE dlr.status \in Fates
      <3> DEFINE m == [messages[dlr.id] EXCEPT
                        !.state = IF dlr.status = "Delivered" THEN "Delivered" ELSE "Failed"]
      <3>1. Update(dlr.id, m) /\ dlr.id \in MessageIds
        BY <1>6, <2>2 DEF DlrApplied, IInv, Control
      <3>2. messages[dlr.id] # NoMessage => messages[dlr.id] \in StoredMessage
        BY <1>1, <3>1, StoredIsMessage
      <3>3. messages[dlr.id] # NoMessage => m \in StoredMessage
        BY <3>2 DEF StoredMessage, MessageState
      <3> HIDE DEF m
      <3>4. QED  BY <1>1, <3>1, <3>3, UpdateEffect
    <2>3. QED  BY <2>1, <2>2
  <1>7. QED
    BY <1>3, <1>4, <1>5, <1>6, TaskWrites, SpawnStep, RetryWrites, QuietRecords
       DEF Next, ForwardTask, RetryMessage, Dlr

\* The forwarder's variables keep their types.
LEMMA FwdTypeStep ==
    ASSUME IInv, Next
    PROVE  /\ running' \in BOOLEAN
           /\ fwd_pc' \in [MessageIds -> {"new", "queued", "received", "done"} \cup TaskSteps]
           /\ fwd_left' \in [MessageIds -> Seq(ClusterKind)]
           /\ result' \in [MessageIds -> {"none", "success", "error", "closed"}]
  <1> DEFINE Goal == /\ running' \in BOOLEAN
                     /\ fwd_pc' \in [MessageIds -> {"new", "queued", "received", "done"} \cup TaskSteps]
                     /\ fwd_left' \in [MessageIds -> Seq(ClusterKind)]
                     /\ result' \in [MessageIds -> {"none", "success", "error", "closed"}]
  <1> SUFFICES Goal  OBVIOUS
  <1>1. /\ running \in BOOLEAN
        /\ fwd_pc \in [MessageIds -> {"new", "queued", "received", "done"} \cup TaskSteps]
        /\ fwd_left \in [MessageIds -> Seq(ClusterKind)]
        /\ result \in [MessageIds -> {"none", "success", "error", "closed"}]
    BY DEF IInv, TypeOK
  <1>2. ASSUME NEW id \in MessageIds,
               NEW x \in {"new", "queued", "received", "done"} \cup TaskSteps,
               NEW l \in Seq(ClusterKind), NEW r \in {"none", "success", "error", "closed"},
               running' = running, fwd_pc' = [fwd_pc EXCEPT ![id] = x] \/ fwd_pc' = fwd_pc,
               fwd_left' = [fwd_left EXCEPT ![id] = l] \/ fwd_left' = fwd_left,
               result' = [result EXCEPT ![id] = r] \/ result' = result
        PROVE  Goal
    BY <1>1, <1>2
  <1> HIDE DEF Goal
  <1>3. << >> \in Seq(ClusterKind)  OBVIOUS
  <1>4. ASSUME NEW id \in MessageIds,
               \/ Forward(id) \/ Recv(id) \/ Dropped(id) \/ SpawnAndStore(id) \/ NoRoute(id)
               \/ MockForwarded(id) \/ Forwarded(id) \/ AllFailed(id) \/ Requeue(id) \/ Send(id)
        PROVE  Goal
    <2>1. PICK x \in {"queued", "received", "done"} \cup TaskSteps : fwd_pc' = [fwd_pc EXCEPT ![id] = x]
      BY <1>4 DEF Forward, Recv, Dropped, SpawnAndStore, NoRoute, MockForwarded, Forwarded, AllFailed,
         Requeue, Send, Reply, FwdGoto, TaskSteps
    <2>2. fwd_left' = [fwd_left EXCEPT ![id] = << >>] \/ fwd_left' = fwd_left
      BY <1>4 DEF Forward, Recv, Dropped, SpawnAndStore, NoRoute, MockForwarded, Forwarded, AllFailed,
         Requeue, Send, Reply
    <2>3. PICK r \in {"none", "success", "error", "closed"} :
             result' = [result EXCEPT ![id] = r] \/ result' = result
      BY <1>4 DEF Forward, Recv, Dropped, SpawnAndStore, NoRoute, MockForwarded, Forwarded, AllFailed,
         Requeue, Send, Reply
    <2>4. running' = running
      BY <1>4 DEF Forward, Recv, Dropped, SpawnAndStore, NoRoute, MockForwarded, Forwarded, AllFailed,
         Requeue, Send
    <2>5. QED  BY <1>2, <1>3, <2>1, <2>2, <2>3, <2>4
  <1>5. ASSUME NEW id \in MessageIds, Route(id) PROVE Goal
    <2>1. PICK r \in Routes : fwd_left' = [fwd_left EXCEPT ![id] = r]  BY <1>5 DEF Route
    <2>2. r \in Seq(ClusterKind)  BY DeliveryAssumption
    <2>3. fwd_pc' = [fwd_pc EXCEPT ![id] = "trying"] /\ result' = result /\ running' = running
      BY <1>5 DEF Route, FwdGoto
    <2>4. QED  BY <1>2, <2>1, <2>2, <2>3 DEF TaskSteps
  <1>6. ASSUME NEW id \in MessageIds, TryFails(id) \/ ForwardFails(id) PROVE Goal
    <2>1. fwd_left[id] # << >>  BY <1>6 DEF TryFails, ForwardFails, IInv, Control
    <2>2. Tail(fwd_left[id]) \in Seq(ClusterKind)  BY <1>1, <2>1, TailIsList
    <2>3. /\ fwd_left' = [fwd_left EXCEPT ![id] = Tail(fwd_left[id])]
          /\ fwd_pc' = [fwd_pc EXCEPT ![id] = "trying"] \/ fwd_pc' = fwd_pc
          /\ result' = result /\ running' = running
      BY <1>6 DEF TryFails, ForwardFails, FwdGoto
    <2>4. QED  BY <1>2, <2>2, <2>3 DEF TaskSteps
  <1>7. ASSUME running' \in BOOLEAN, UNCHANGED fwd_vars PROVE Goal
    BY <1>1, <1>7 DEF fwd_vars, Goal
  <1>8. ASSUME RetryTick \/ RetryMessage PROVE Goal
    BY <1>1, <1>7, <1>8 DEF RetryTick, RetryMessage, RetryGet, RetryListDone, RetryRoute, RetryGiveUp,
       RetryTryFails, RetrySend, RetryMocked, RetryAnswered, RetryFails, RetryAgain, RetrySucceeds,
       RetryDone, RetryUnchanged
  <1>9. ASSUME Smsc \/ Dlr PROVE Goal
    BY <1>1, <1>7, <1>9 DEF Smsc, SmscAccepts, SmscSettles, SmscSendsDlr, SmscUnchanged,
       Dlr, DlrApplied, DlrOrphaned, DlrFound, DlrUnchanged
  <1>10. ASSUME Maintenance \/ ShutsDown \/ \E id \in MessageIds : Time(id) PROVE Goal
    BY <1>1, <1>7, <1>10 DEF Maintenance, MaintenanceExpires, MaintenancePrunes, ShutsDown, Time,
       QuietUnchanged
  <1>11. QED  BY <1>4, <1>5, <1>6, <1>8, <1>9, <1>10 DEF Next, ForwardTask

\* The retry loop's variables keep their types.
LEMMA RetryTypeStep ==
    ASSUME IInv, Next
    PROVE  /\ retry_pc' \in {"idle", "list", "routing", "trying", "waiting", "fail", "expire"}
           /\ retry_id' \in Senders /\ retry_todo' \subseteq MessageIds
           /\ retry_left' \in Seq(ClusterKind)
  <1> DEFINE Goal == /\ retry_pc' \in {"idle", "list", "routing", "trying", "waiting", "fail", "expire"}
                     /\ retry_id' \in Senders /\ retry_todo' \subseteq MessageIds
                     /\ retry_left' \in Seq(ClusterKind)
  <1> SUFFICES Goal  OBVIOUS
  <1>1. /\ retry_pc \in {"idle", "list", "routing", "trying", "waiting", "fail", "expire"}
        /\ retry_id \in Senders /\ retry_todo \subseteq MessageIds
        /\ retry_left \in Seq(ClusterKind) /\ << >> \in Seq(ClusterKind) /\ RetryLoop \in Senders
    BY DEF IInv, TypeOK, Senders
  <1>2. ASSUME UNCHANGED retry_vars PROVE Goal
    BY <1>1, <1>2 DEF retry_vars
  <1>3. ASSUME RetryTick PROVE Goal
    BY <1>1, <1>3 DEF RetryTick, get_ready_for_retry, InState, Stored
  <1>4. ASSUME NEW id \in MessageIds, RetryGet(id) PROVE Goal
    BY <1>1, <1>4 DEF RetryGet, Senders
  <1>5. ASSUME RetryListDone PROVE Goal
    BY <1>1, <1>5 DEF RetryListDone
  <1>6. ASSUME RetryRoute PROVE Goal
    BY <1>1, <1>6, DeliveryAssumption DEF RetryRoute
  <1>7. ASSUME RetryGiveUp \/ RetryMocked \/ RetryAnswered \/ RetryAgain PROVE Goal
    BY <1>1, <1>7 DEF RetryGiveUp, RetryMocked, RetryAnswered, RetryAgain, RetrySucceeds, RetryDone
  <1>8. ASSUME RetryTryFails \/ RetryFails PROVE Goal
    <2>1. retry_left # << >>  BY <1>8 DEF RetryTryFails, RetryFails, IInv, Control
    <2>2. Tail(retry_left) \in Seq(ClusterKind)  BY <1>1, <2>1, TailIsList
    <2>3. QED  BY <1>1, <1>8, <2>2 DEF RetryTryFails, RetryFails
  <1>9. ASSUME RetrySend PROVE Goal
    BY <1>1, <1>9 DEF RetrySend
  <1> HIDE DEF Goal
  <1>10. ASSUME NEW id \in MessageIds,
                \/ Forward(id) \/ Recv(id) \/ Dropped(id) \/ SpawnAndStore(id) \/ ForwardTask(id)
                \/ Time(id)
         PROVE  Goal
    BY <1>2, <1>10 DEF Forward, Recv, Dropped, SpawnAndStore, ForwardTask, NoRoute, Route, TryFails,
       Send, MockForwarded, Forwarded, ForwardFails, AllFailed, Requeue, Time, QuietUnchanged
  <1>11. ASSUME Smsc \/ Dlr \/ Maintenance \/ ShutsDown PROVE Goal
    BY <1>2, <1>11 DEF Smsc, SmscAccepts, SmscSettles, SmscSendsDlr, SmscUnchanged, Dlr, DlrApplied,
       DlrOrphaned, DlrFound, DlrUnchanged, Maintenance, MaintenanceExpires, MaintenancePrunes,
       ShutsDown, QuietUnchanged
  <1>12. QED
    BY <1>3, <1>4, <1>5, <1>6, <1>7, <1>8, <1>9, <1>10, <1>11 DEF Next, RetryMessage

\* So do those of the SMSCs.
LEMMA SmscTypeStep ==
    ASSUME IInv, Next
    PROVE  /\ wire' \in [Senders -> [sent : BOOLEAN, sid : SmscIds \cup {NoId}]]
           /\ accepted' \in [SmscIds -> MessageIds \cup {NoMessage}]
           /\ fate' \in [SmscIds -> Fates \cup {"none"}]
  <1> DEFINE Goal == /\ wire' \in [Senders -> [sent : BOOLEAN, sid : SmscIds \cup {NoId}]]
                     /\ accepted' \in [SmscIds -> MessageIds \cup {NoMessage}]
                     /\ fate' \in [SmscIds -> Fates \cup {"none"}]
  <1> SUFFICES Goal  OBVIOUS
  <1>1. /\ wire \in [Senders -> [sent : BOOLEAN, sid : SmscIds \cup {NoId}]]
        /\ accepted \in [SmscIds -> MessageIds \cup {NoMessage}]
        /\ fate \in [SmscIds -> Fates \cup {"none"}]
    BY DEF IInv, TypeOK
  <1>2. ASSUME NEW s \in Senders, NEW w \in {IdleWire, SentWire},
               wire' = [wire EXCEPT ![s] = w] \/ wire' = wire, UNCHANGED <<accepted, fate>>
        PROVE  Goal
    <2>1. IdleWire \in [sent : BOOLEAN, sid : SmscIds \cup {NoId}]  BY DEF IdleWire
    <2>2. SentWire \in [sent : BOOLEAN, sid : SmscIds \cup {NoId}]  BY DEF SentWire
    <2>3. w \in [sent : BOOLEAN, sid : SmscIds \cup {NoId}]  BY <2>1, <2>2
    <2>4. QED  BY <1>1, <1>2, <2>3
  <1>3. ASSUME NEW s \in Senders, NEW sid \in SmscIds, SmscAccepts(s, sid) PROVE Goal
    <2>1. Sending(s) \in MessageIds
      BY <1>3 DEF SmscAccepts, SentWire, IInv, Wires, Control, Sending, Senders, RetrySteps
    <2>2. QED  BY <1>1, <1>3, <2>1 DEF SmscAccepts, SmscUnchanged
  <1>4. ASSUME NEW sid \in SmscIds, NEW f \in Fates, SmscSettles(sid, f) PROVE Goal
    BY <1>1, <1>4 DEF SmscSettles, SmscUnchanged
  <1>5. ASSUME UNCHANGED smsc_vars PROVE Goal
    BY <1>1, <1>5 DEF smsc_vars
  <1> HIDE DEF Goal
  <1>6. ASSUME NEW sid \in SmscIds, SmscSendsDlr(sid) PROVE Goal
    BY <1>5, <1>6 DEF SmscSendsDlr, smsc_vars
  <1>7. ASSUME NEW id \in MessageIds,
               \/ Forward(id) \/ Recv(id) \/ Dropped(id) \/ SpawnAndStore(id) \/ ForwardTask(id)
               \/ Time(id)
        PROVE  Goal
    <2>1. ASSUME Send(id) \/ Forwarded(id) \/ ForwardFails(id) PROVE Goal
      BY <1>2, <2>1 DEF Send, Forwarded, ForwardFails, Senders
    <2>2. QED
      BY <1>5, <1>7, <2>1 DEF Forward, Recv, Dropped, SpawnAndStore, ForwardTask, NoRoute, Route, TryFails,
         MockForwarded, AllFailed, Requeue, Time, QuietUnchanged
  <1>8. ASSUME RetryTick \/ RetryMessage PROVE Goal
    <2>1. ASSUME RetrySend \/ RetryAnswered \/ RetryFails PROVE Goal
      BY <1>2, <2>1 DEF RetrySend, RetryAnswered, RetryFails, Senders
    <2>2. QED
      BY <1>5, <1>8, <2>1 DEF RetryTick, RetryMessage, RetryGet, RetryListDone, RetryRoute, RetryGiveUp,
         RetryTryFails, RetryMocked, RetryAgain
  <1>9. ASSUME Dlr \/ Maintenance \/ ShutsDown PROVE Goal
    BY <1>5, <1>9 DEF Dlr, DlrApplied, DlrOrphaned, DlrFound, DlrUnchanged, Maintenance,
       MaintenanceExpires, MaintenancePrunes, ShutsDown, QuietUnchanged
  <1>10. QED  BY <1>3, <1>4, <1>6, <1>7, <1>8, <1>9 DEF Next, Smsc

\* And the receipts.
LEMMA DlrTypeStep ==
    ASSUME IInv, Next
    PROVE  /\ dlrs' \subseteq Receipts
           /\ dlr' \in [on : BOOLEAN, sid : SmscIds \cup {NoId}, status : Fates \cup {"Enroute"},
                       id : Senders]
  <1> DEFINE Goal == /\ dlrs' \subseteq Receipts
                     /\ dlr' \in [on : BOOLEAN, sid : SmscIds \cup {NoId},
                                  status : Fates \cup {"Enroute"}, id : Senders]
  <1> SUFFICES Goal  OBVIOUS
  <1>1. /\ dlrs \subseteq Receipts /\ fate \in [SmscIds -> Fates \cup {"none"}]
        /\ dlr \in [on : BOOLEAN, sid : SmscIds \cup {NoId}, status : Fates \cup {"Enroute"},
                    id : Senders]
    BY DEF IInv, TypeOK
  <1>2. ASSUME NEW sid \in SmscIds, SmscSendsDlr(sid) PROVE Goal
    <2>1. PICK st \in {"Enroute", fate[sid]} \ {"none"} : dlrs' = dlrs \cup {[sid |-> sid, status |-> st]}
      BY <1>2 DEF SmscSendsDlr
    <2>2. [sid |-> sid, status |-> st] \in Receipts  BY <1>1 DEF Receipts
    <2>3. QED  BY <1>1, <1>2, <2>1, <2>2 DEF SmscSendsDlr, SmscUnchanged
  <1>3. ASSUME NEW d \in dlrs, DlrFound(d) PROVE Goal
    <2>1. PICK id \in UNION FoundFor(d.sid) :
             dlr' = [on |-> TRUE, sid |-> d.sid, status |-> d.status, id |-> id]
      BY <1>3 DEF DlrFound
    <2>2. id \in Senders  BY FoundEffect DEF Senders
    <2>3. d \in Receipts /\ dlrs' \subseteq Receipts  BY <1>1, <1>3 DEF DlrFound
    <2>4. QED  BY <2>1, <2>2, <2>3 DEF Receipts
  <1>4. ASSUME NEW d \in dlrs, DlrOrphaned(d) PROVE Goal
    BY <1>1, <1>4 DEF DlrOrphaned
  <1>5. ASSUME DlrApplied PROVE Goal
    BY <1>1, <1>5 DEF DlrApplied, IdleDlr, Senders
  <1>6. ASSUME UNCHANGED dlr_vars PROVE Goal
    BY <1>1, <1>6 DEF dlr_vars
  <1> HIDE DEF Goal
  <1>7. ASSUME NEW sid \in SmscIds, (\E s \in Senders : SmscAccepts(s, sid)) \/ \E f \in Fates : SmscSettles(sid, f)
        PROVE  Goal
    BY <1>6, <1>7 DEF SmscAccepts, SmscSettles, SmscUnchanged, dlr_vars
  <1>8. ASSUME NEW id \in MessageIds,
               \/ Forward(id) \/ Recv(id) \/ Dropped(id) \/ SpawnAndStore(id) \/ ForwardTask(id)
               \/ Time(id)
        PROVE  Goal
    BY <1>6, <1>8 DEF Forward, Recv, Dropped, SpawnAndStore, ForwardTask, NoRoute, Route, TryFails,
       Send, MockForwarded, Forwarded, ForwardFails, AllFailed, Requeue, Time, QuietUnchanged
  <1>9. ASSUME RetryTick \/ RetryMessage PROVE Goal
    BY <1>6, <1>9 DEF RetryTick, RetryMessage, RetryGet, RetryListDone, RetryRoute, RetryGiveUp,
       RetryTryFails, RetrySend, RetryMocked, RetryAnswered, RetryFails, RetryAgain, RetrySucceeds,
       RetryDone, RetryUnchanged
  <1>10. ASSUME Maintenance \/ ShutsDown PROVE Goal
    BY <1>6, <1>10 DEF Maintenance, MaintenanceExpires, MaintenancePrunes, ShutsDown, QuietUnchanged
  <1>11. QED  BY <1>2, <1>3, <1>4, <1>5, <1>7, <1>8, <1>9, <1>10 DEF Next, Smsc, Dlr

---------------------------------------------------------------------------
(* The theorems *)

\* The inductive invariant: what senders, wires, receipts and records agree on, whatever
\* the interleaving of forward tasks, retry loop, receipts, maintenance and time.
THEOREM DeliveryInvariant == Spec => []IInv
  <1>1. ASSUME IInv, Next PROVE IInv'
    <2>1. TypeOK'
      BY <1>1, StoreTypeStep, FwdTypeStep, RetryTypeStep, SmscTypeStep, DlrTypeStep DEF TypeOK
    <2>2. QED
      BY <1>1, <2>1, ControlStep, WiresStep, ReceiptsStep, RecordsStep DEF IInv
  <1>2. ASSUME IInv, UNCHANGED vars PROVE IInv'
    <2>1. UNCHANGED <<messages, retry_queue, running, fwd_pc, fwd_left, result, retry_pc, retry_id,
                      retry_todo, retry_left, wire, accepted, fate, dlrs, dlr>>
      BY <1>2 DEF vars, store_vars, fwd_vars, retry_vars, smsc_vars, dlr_vars
    <2>2. TypeOK'  BY <1>2, <2>1 DEF IInv, TypeOK, StoreTypeOK
    <2>3. Control'  BY <1>2, <2>1 DEF IInv, Control
    <2>4. Wires'  BY <1>2, <2>1 DEF IInv, Wires, Sending
    <2>5. ReceiptsAreTrue'  BY <1>2, <2>1 DEF IInv, ReceiptsAreTrue
    <2>6. Records'  BY <1>2, <2>1 DEF IInv, Records, RecordOK
    <2>7. QED  BY <2>2, <2>3, <2>4, <2>5, <2>6 DEF IInv
  <1>3. QED  BY <1>1, <1>2, InitIInv, PTL DEF Spec

\* Type correctness of the delivery system.
THEOREM TypeCorrect == Spec => []TypeOK
  <1>1. IInv => TypeOK  BY DEF IInv
  <1>2. QED  BY <1>1, DeliveryInvariant, PTL

\* The forward task and the retry loop never have one message at once, and nobody settles
\* a message a sender has in hand (processor.rs and retry.rs write messages back blindly).
THEOREM SenderExclusive == Spec => []OneSenderAtATime
  <1>1. IInv => OneSenderAtATime
    <2> SUFFICES ASSUME IInv, NEW id \in MessageIds
                 PROVE  /\ \A s, t \in Working(id) : s = t
                        /\ Working(id) # {} /\ id \in Stored =>
                              messages[id].state \in {"Pending", "Retrying", "Expired"}
      BY DEF OneSenderAtATime
    <2>1. \A s, t \in Working(id) : s = t
      BY DEF Working, IInv, Control, RetrySteps, TaskSteps
    <2>2. ASSUME Working(id) # {}, id \in Stored
          PROVE  messages[id].state \in {"Pending", "Retrying", "Expired"}
      <3>1. RecordOK(id, messages[id])  BY <2>2 DEF Stored, IInv, Records
      <3>2. fwd_pc[id] \in TaskSteps \/ (retry_pc \in RetrySteps /\ retry_id = id)
        BY <2>2 DEF Working, RetrySteps
      <3>3. QED  BY <3>1, <3>2 DEF RecordOK
    <2>3. QED  BY <2>1, <2>2
  <1>2. QED  BY <1>1, DeliveryInvariant, PTL

\* A stored message carries an identifier exactly when it was submitted with success
\* once, and the identifier is its own.
THEOREM IdentifierOwned == Spec => []IdentifierIsTheAcceptances
  <1>1. IInv => IdentifierIsTheAcceptances
    BY DEF IInv, Records, RecordOK, IdentifierIsTheAcceptances, Stored
  <1>2. QED  BY <1>1, DeliveryInvariant, PTL

\* What the store says of a message some SMSC accepted is what became of it.
THEOREM OutcomeTrue == Spec => []OutcomeIsTrue
  <1>1. IInv => OutcomeIsTrue
    BY DEF IInv, Records, RecordOK, OutcomeIsTrue, Stored
  <1>2. QED  BY <1>1, DeliveryInvariant, PTL

\* retry_queue never misses a message that waits for its retry.
THEOREM RetryQueueComplete == Spec => []RetryQueueCoversRetrying
  <1>1. IInv => RetryQueueCoversRetrying
    BY DEF IInv, Records, RecordOK, RetryQueueCoversRetrying, InState, Stored
  <1>2. QED  BY <1>1, DeliveryInvariant, PTL

\* The update of a receipt removes nothing.
LEMMA DlrKeeps ==
    ASSUME IInv, DlrApplied, NEW i \in MessageIds, messages[i] # NoMessage
    PROVE  messages'[i] # NoMessage
  <1>1. CASE dlr.status \notin Fates  BY <1>1 DEF DlrApplied, store_vars
  <1>2. CASE dlr.status \in Fates
    <2> DEFINE m == [messages[dlr.id] EXCEPT
                      !.state = IF dlr.status = "Delivered" THEN "Delivered" ELSE "Failed"]
    <2>1. Update(dlr.id, m) /\ dlr.id \in MessageIds /\ TypeOK
      BY <1>2 DEF DlrApplied, IInv, Control
    <2>2. messages[dlr.id] # NoMessage => m \in StoredMessage
      <3>1. messages[dlr.id] # NoMessage => messages[dlr.id] \in StoredMessage
        BY <2>1, StoredIsMessage
      <3>2. QED  BY <3>1 DEF StoredMessage, MessageState
    <2> HIDE DEF m
    <2>3. QED  BY <2>1, <2>2, UpdateEffect, StoreAssumption
  <1>3. QED  BY <1>1, <1>2

\* What a step can do to a stored message: leave it, age
\* it, remove it when terminal, or change one that has no final outcome.
LEMMA MessageStep ==
    ASSUME IInv, Next, NEW i \in MessageIds, messages[i] # NoMessage
    PROVE  \/ messages'[i] = messages[i]
           \/ messages'[i] = [messages[i] EXCEPT !.old = TRUE]
           \/ messages'[i] = NoMessage /\ is_terminal(messages[i].state)
           \/ messages'[i] \in StoredMessage /\ messages[i].state \notin {"Delivered", "Failed"}
  <1> DEFINE Goal == \/ messages'[i] = messages[i]
                     \/ messages'[i] = [messages[i] EXCEPT !.old = TRUE]
                     \/ messages'[i] = NoMessage /\ is_terminal(messages[i].state)
                     \/ messages'[i] \in StoredMessage /\ messages[i].state \notin {"Delivered", "Failed"}
  <1> SUFFICES Goal  OBVIOUS
  <1>1. TypeOK /\ RecordOK(i, messages[i]) /\ StoreTypeOK' /\ StoreTypeOK
    BY StoreTypeStep DEF IInv, Records, TypeOK
  <1>2. ASSUME NEW id \in MessageIds, NEW m, Update(id, m),
               messages[id] # NoMessage =>
                  m \in StoredMessage /\ messages[id].state \notin {"Delivered", "Failed"}
        PROVE  Goal
    BY <1>1, <1>2, UpdateEffect
  <1>3. ASSUME UNCHANGED store_vars PROVE Goal
    BY <1>3 DEF store_vars
  <1>4. ASSUME NEW id \in MessageIds, SpawnAndStore(id) PROVE Goal
    <2>1. id # i  BY <1>1, <1>4 DEF SpawnAndStore, RecordOK, NotStarted
    <2>2. PICK evicted \in Evictable :
             messages' = [j \in MessageIds |-> IF j = id THEN NewMessage
                                               ELSE IF j \in evicted THEN NoMessage
                                               ELSE messages[j]]
      BY <1>4 DEF SpawnAndStore, Store
    <2>3. evicted \subseteq TerminalIds  BY DEF Evictable
    <2>4. QED  BY <2>1, <2>2, <2>3 DEF TerminalIds
  <1>5. ASSUME MaintenanceExpires PROVE Goal
    <2>1. messages'[i] = IF i \in Stored \ TerminalIds /\ is_expired(messages[i])
                         THEN mark_expired(messages[i]) ELSE messages[i]
      BY <1>5 DEF MaintenanceExpires, ExpireOld
    <2>2. mark_expired(messages[i]) \in StoredMessage  BY <1>1, StoredIsMessage, Marks
    <2>3. i \in Stored \ TerminalIds => messages[i].state \notin {"Delivered", "Failed"}
      BY DEF TerminalIds, is_terminal
    <2>4. QED  BY <2>1, <2>2, <2>3
  <1>6. ASSUME MaintenancePrunes PROVE Goal
    BY <1>6 DEF MaintenancePrunes, PruneTerminal, TerminalIds
  <1>7. ASSUME NEW id \in MessageIds, Time(id) PROVE Goal
    <2>1. CASE Ages(id)  BY <1>1, <2>1 DEF Ages, StoreTypeOK
    <2>2. CASE RetryComesDue(id)
      <3>1. messages' = [messages EXCEPT ![id] = [messages[id] EXCEPT !.due = TRUE]]
        BY <2>2 DEF RetryComesDue
      <3>2. id = i => messages[i].state = "Retrying" /\ messages'[i] \in StoredMessage
        <4>1. messages[i] \in StoredMessage  BY <1>1, StoredIsMessage
        <4>2. [messages[i] EXCEPT !.due = TRUE] \in StoredMessage  BY <4>1 DEF StoredMessage
        <4>3. QED  BY <1>1, <2>2, <3>1, <4>2 DEF RetryComesDue, InState, StoreTypeOK
      <3>3. id # i => messages'[i] = messages[i]  BY <1>1, <3>1 DEF StoreTypeOK
      <3>4. QED  BY <3>2, <3>3
    <2>3. QED  BY <1>7, <2>1, <2>2 DEF Time
  <1>8. ASSUME NEW id \in MessageIds,
               NoRoute(id) \/ MockForwarded(id) \/ Forwarded(id) \/ Requeue(id)
        PROVE  Goal
    <2>1. PICK m : Update(id, m) /\ (messages[id] # NoMessage => WriteBack(id, m))
      BY <1>8, TaskUpdates
    <2>2. fwd_pc[id] \in TaskSteps
      BY <1>8 DEF NoRoute, MockForwarded, Forwarded, Requeue, TaskSteps
    <2>3. messages[id] # NoMessage => messages[id].state \notin {"Delivered", "Failed"}
      BY <2>2 DEF IInv, Records, RecordOK
    <2>4. QED  BY <1>2, <2>1, <2>3 DEF WriteBack
  <1>9. ASSUME RetryGiveUp \/ RetryMocked \/ RetryAnswered \/ RetryAgain PROVE Goal
    <2>1. PICK m : /\ Update(retry_id, m)
                   /\ messages[retry_id] # NoMessage => WriteBack(retry_id, m)
      BY <1>9, RetryUpdates
    <2>2. retry_pc \in RetrySteps /\ retry_id \in MessageIds
      BY <1>9 DEF RetryGiveUp, RetryMocked, RetryAnswered, RetryAgain, RetrySteps, IInv, Control
    <2>3. messages[retry_id] # NoMessage => messages[retry_id].state \notin {"Delivered", "Failed"}
      BY <2>2 DEF IInv, Records, RecordOK
    <2>4. QED  BY <1>2, <2>1, <2>2, <2>3 DEF WriteBack
  <1>10. ASSUME DlrApplied PROVE Goal
    <2>1. dlr.on /\ dlr.id \in MessageIds  BY <1>10 DEF DlrApplied, IInv, Control
    <2>2. messages[dlr.id] # NoMessage => messages[dlr.id].state \notin {"Delivered", "Failed"}
      BY <2>1 DEF IInv, Records, RecordOK
    <2>3. messages'[i] = messages[i] \/ i = dlr.id
      BY <1>1, <1>10, <2>1 DEF DlrApplied, Update, store_vars, StoreTypeOK
    <2>4. messages'[i] # NoMessage
      BY <1>1, <1>10, <2>1, StoreAssumption, DlrKeeps
    <2>5. QED  BY <1>1, <2>2, <2>3, <2>4 DEF StoreTypeOK
  <1> HIDE DEF Goal
  <1>11. QED
    <2>1. ASSUME NEW id \in MessageIds, \/ Forward(id) \/ Recv(id) \/ Dropped(id) \/ Route(id)
                                        \/ TryFails(id) \/ Send(id) \/ ForwardFails(id) \/ AllFailed(id)
          PROVE  Goal
      BY <1>3, <2>1 DEF Forward, Recv, Dropped, Route, TryFails, Send, ForwardFails, AllFailed
    <2>2. ASSUME \/ RetryTick \/ (\E id \in MessageIds : RetryGet(id)) \/ RetryListDone \/ RetryRoute
                 \/ RetryTryFails \/ RetrySend \/ RetryFails
          PROVE  Goal
      BY <1>3, <2>2 DEF RetryTick, RetryGet, RetryListDone, RetryRoute, RetryTryFails, RetrySend, RetryFails
    <2>3. ASSUME Smsc \/ ShutsDown \/ \E d \in dlrs : DlrOrphaned(d) \/ DlrFound(d)
          PROVE  Goal
      BY <1>3, <2>3 DEF Smsc, SmscAccepts, SmscSettles, SmscSendsDlr, SmscUnchanged, ShutsDown,
         DlrOrphaned, DlrFound
    <2>4. QED
      BY <1>4, <1>5, <1>6, <1>7, <1>8, <1>9, <1>10, <2>1, <2>2, <2>3
         DEF Next, ForwardTask, RetryMessage, Dlr, Maintenance

\* Delivered and Failed are final: no late write-back or receipt changes such a message.
THEOREM FinalIsFinal == Spec => FinalOutcomesStick
  <1>1. IInv /\ [Next]_vars =>
          [\A id \in MessageIds :
             id \in InState("Delivered") \cup InState("Failed") =>
                messages'[id] \in {messages[id], [messages[id] EXCEPT !.old = TRUE], NoMessage}]_vars
    BY MessageStep DEF InState, Stored
  <1>2. QED  BY <1>1, DeliveryInvariant, PTL DEF Spec, FinalOutcomesStick

\* A message leaves the store only from a terminal state.
THEOREM LiveMessagesStay == Spec => LiveMessageNeverDropped
  <1>1. IInv /\ [Next]_vars =>
          [\A id \in Stored : messages'[id] = NoMessage => id \in TerminalIds]_vars
    <2> SUFFICES ASSUME IInv, Next, NEW id \in MessageIds, messages[id] # NoMessage,
                        messages'[id] = NoMessage
                 PROVE  id \in TerminalIds
      BY DEF Stored
    <2>1. messages[id] \in StoredMessage  BY StoredIsMessage DEF IInv
    <2>2. [messages[id] EXCEPT !.old = TRUE] \in StoredMessage  BY <2>1 DEF StoredMessage
    <2>3. QED  BY <2>2, MessageStep, StoreAssumption DEF TerminalIds, Stored
  <1>2. QED  BY <1>1, DeliveryInvariant, PTL DEF Spec, LiveMessageNeverDropped

(* Delivery implements MessageLife *)

\* Phase and identifier of one message, as the refinement maps them.
LifeAt(i) == IF messages[i] # NoMessage THEN Phase(messages[i]) ELSE Absence(i)
CarrierAt(i) == IF messages[i] # NoMessage THEN messages[i].smsc ELSE NoId
GoesTo(i, phase) == LifeAt(i)' = phase /\ CarrierAt(i)' = CarrierAt(i)

\* The steps MessageLife allows a message, in these terms.
LEMMA AllowedSteps ==
    ASSUME NEW i \in MessageIds
    PROVE  /\ GoesTo(i, LifeAt(i)) => Promised!Lives(i)
           /\ LifeAt(i) = "new" /\ (GoesTo(i, "waiting") \/ GoesTo(i, "refused")) => Promised!Lives(i)
           /\ LifeAt(i) \in {"waiting", "lapsed"} /\ (GoesTo(i, "waiting") \/ GoesTo(i, "failed"))
                => Promised!Lives(i)
           /\ LifeAt(i) = "waiting" /\ GoesTo(i, "lapsed") => Promised!Lives(i)
           /\ LifeAt(i) = "in_flight" /\ GoesTo(i, "overdue") => Promised!Lives(i)
           /\ /\ LifeAt(i) \in {"waiting", "lapsed"} /\ CarrierAt(i) = NoId
              /\ LifeAt(i)' = "in_flight" /\ CarrierAt(i)' \in SmscIds \cup {MockId}
              /\ CarrierAt(i)' \in SmscIds => \A j \in MessageIds : CarrierAt(j) # CarrierAt(i)'
              => Promised!Lives(i)
           /\ /\ LifeAt(i) \in {"in_flight", "overdue"} /\ CarrierAt(i) \in SmscIds
              /\ \/ fate[CarrierAt(i)] = "Delivered" /\ GoesTo(i, "delivered")
                 \/ fate[CarrierAt(i)] = "Undeliverable" /\ GoesTo(i, "failed")
              => Promised!Lives(i)
           /\ /\ LifeAt(i) \in {"lapsed", "overdue", "delivered", "failed"}
              /\ LifeAt(i)' = "gone" /\ CarrierAt(i)' = NoId
              => Promised!Lives(i)
  <1> DEFINE L == [id \in MessageIds |-> IF messages[id] # NoMessage THEN Phase(messages[id]) ELSE Absence(id)]
             C == [id \in MessageIds |-> IF messages[id] # NoMessage THEN messages[id].smsc ELSE NoId]
  <1>1. \A j \in MessageIds : L[j] = LifeAt(j) /\ C[j] = CarrierAt(j)  BY DEF LifeAt, CarrierAt
  <1>2. \A j \in MessageIds : L'[j] = LifeAt(j)' /\ C'[j] = CarrierAt(j)'
    BY DEF LifeAt, CarrierAt
  <1>3. QED
    BY <1>1, <1>2 DEF GoesTo, Promised!Lives, Promised!Enters, Promised!Taken, Promised!PutOff,
       Promised!GivenUp, Promised!Expires, Promised!HandedOver, Promised!Settles, Promised!Forgotten,
       Promised!Unsent, Promised!WithCarrier, Promised!Over

\* A request that was turned away is finished and was never stored.
Closed ==
    \A id \in MessageIds : result[id] = "closed" => fwd_pc[id] = "done" /\ messages[id] = NoMessage

\* What a step does to a request and its answer.
LEMMA RequestStep ==
    ASSUME IInv, Next, NEW i \in MessageIds
    PROVE  \/ fwd_pc'[i] = fwd_pc[i] /\ result'[i] = result[i]
           \/ /\ fwd_pc[i] \in NotStarted /\ fwd_pc'[i] \in NotStarted /\ result'[i] = result[i]
           \/ fwd_pc[i] = "queued" /\ fwd_pc'[i] = "done" /\ result'[i] = "closed" /\ UNCHANGED store_vars
           \/ SpawnAndStore(i) /\ fwd_pc'[i] = "routing" /\ result'[i] = result[i]
           \/ /\ fwd_pc[i] \in TaskSteps /\ fwd_pc'[i] \in TaskSteps \cup {"done"}
              /\ result'[i] \in {result[i], "success", "error"}
  <1> DEFINE Goal == \/ fwd_pc'[i] = fwd_pc[i] /\ result'[i] = result[i]
                     \/ /\ fwd_pc[i] \in NotStarted /\ fwd_pc'[i] \in NotStarted /\ result'[i] = result[i]
                     \/ /\ fwd_pc[i] = "queued" /\ fwd_pc'[i] = "done" /\ result'[i] = "closed"
                        /\ UNCHANGED store_vars
                     \/ SpawnAndStore(i) /\ fwd_pc'[i] = "routing" /\ result'[i] = result[i]
                     \/ /\ fwd_pc[i] \in TaskSteps /\ fwd_pc'[i] \in TaskSteps \cup {"done"}
                        /\ result'[i] \in {result[i], "success", "error"}
  <1> SUFFICES Goal  OBVIOUS
  <1>1. /\ fwd_pc \in [MessageIds -> {"new", "queued", "received", "done"} \cup TaskSteps]
        /\ result \in [MessageIds -> {"none", "success", "error", "closed"}]
    BY DEF IInv, TypeOK
  <1>2. ASSUME UNCHANGED <<fwd_pc, result>> PROVE Goal
    BY <1>2
  <1>3. ASSUME NEW id \in MessageIds, Forward(id) \/ Recv(id) PROVE Goal
    BY <1>1, <1>3 DEF Forward, Recv, FwdGoto, NotStarted
  <1>4. ASSUME NEW id \in MessageIds, Dropped(id) PROVE Goal
    <2>1. /\ fwd_pc[id] = "queued" /\ UNCHANGED store_vars
          /\ fwd_pc' = [fwd_pc EXCEPT ![id] = "done"] /\ result' = [result EXCEPT ![id] = "closed"]
      BY <1>4 DEF Dropped, Reply, FwdGoto
    <2>2. CASE id = i  BY <1>1, <2>1, <2>2
    <2>3. CASE id # i  BY <1>1, <2>1, <2>3
    <2>4. QED  BY <2>2, <2>3
  <1>5. ASSUME NEW id \in MessageIds, SpawnAndStore(id) PROVE Goal
    <2>1. fwd_pc' = [fwd_pc EXCEPT ![id] = "routing"] /\ result' = result
      BY <1>5 DEF SpawnAndStore, FwdGoto
    <2>2. CASE id = i  BY <1>1, <1>5, <2>1, <2>2
    <2>3. CASE id # i  BY <1>1, <2>1, <2>3
    <2>4. QED  BY <2>2, <2>3
  <1>6. ASSUME NEW id \in MessageIds, ForwardTask(id) PROVE Goal
    <2>1. fwd_pc[id] \in TaskSteps
      BY <1>6 DEF ForwardTask, NoRoute, Route, TryFails, Send, MockForwarded, Forwarded, ForwardFails,
         AllFailed, Requeue, TaskSteps
    <2>2. \E x \in TaskSteps \cup {"done"} : fwd_pc' = [fwd_pc EXCEPT ![id] = x]
      <3>1. CASE TryFails(id)
        <4>1. fwd_pc' = [fwd_pc EXCEPT ![id] = fwd_pc[id]]  BY <1>1, <3>1 DEF TryFails
        <4>2. QED  BY <2>1, <4>1
      <3>2. CASE ~TryFails(id)
        BY <1>6, <3>2 DEF ForwardTask, NoRoute, Route, Send, MockForwarded, Forwarded, ForwardFails,
           AllFailed, Requeue, Reply, FwdGoto, TaskSteps
      <3>3. QED  BY <3>1, <3>2
    <2>3. \E x \in {"success", "error"} : result' = [result EXCEPT ![id] = x] \/ result' = result
      BY <1>6 DEF ForwardTask, NoRoute, Route, TryFails, Send, MockForwarded, Forwarded, ForwardFails,
         AllFailed, Requeue, Reply
    <2>4. CASE id = i  BY <1>1, <2>1, <2>2, <2>3, <2>4
    <2>5. CASE id # i  BY <1>1, <2>2, <2>3, <2>5
    <2>6. QED  BY <2>4, <2>5
  <1> HIDE DEF Goal
  <1>7. ASSUME RetryTick \/ RetryMessage PROVE Goal
    BY <1>2, <1>7 DEF RetryTick, RetryMessage, RetryGet, RetryListDone, RetryRoute, RetryGiveUp,
       RetryTryFails, RetrySend, RetryMocked, RetryAnswered, RetryFails, RetryAgain, RetrySucceeds,
       RetryDone, RetryUnchanged, fwd_vars
  <1>8. ASSUME Smsc \/ Dlr PROVE Goal
    BY <1>2, <1>8 DEF Smsc, SmscAccepts, SmscSettles, SmscSendsDlr, SmscUnchanged,
       Dlr, DlrApplied, DlrOrphaned, DlrFound, DlrUnchanged, fwd_vars
  <1>9. ASSUME Maintenance \/ ShutsDown \/ \E id \in MessageIds : Time(id) PROVE Goal
    BY <1>2, <1>9 DEF Maintenance, MaintenanceExpires, MaintenancePrunes, ShutsDown, Time,
       QuietUnchanged, fwd_vars
  <1>10. QED  BY <1>3, <1>4, <1>5, <1>6, <1>7, <1>8, <1>9 DEF Next

\* What is not in the store comes into it only when its request is taken.
LEMMA AbsentStep ==
    ASSUME IInv, Next, NEW i \in MessageIds, messages[i] = NoMessage, ~SpawnAndStore(i)
    PROVE  messages'[i] = NoMessage
  <1>1. TypeOK /\ StoreTypeOK  BY DEF IInv, TypeOK
  <1>2. ASSUME UNCHANGED store_vars PROVE messages'[i] = NoMessage
    BY <1>2 DEF store_vars
  <1>3. ASSUME NEW id \in MessageIds, NEW m, Update(id, m) PROVE messages'[i] = NoMessage
    BY <1>1, <1>3 DEF Update, store_vars, StoreTypeOK
  <1>4. ASSUME NEW id \in MessageIds, SpawnAndStore(id) PROVE messages'[i] = NoMessage
    <2>1. id # i  BY <1>4
    <2>2. QED  BY <1>4, <2>1 DEF SpawnAndStore, Store
  <1>5. ASSUME Maintenance \/ \E id \in MessageIds : Time(id) PROVE messages'[i] = NoMessage
    <2>1. CASE MaintenanceExpires  BY <2>1 DEF MaintenanceExpires, ExpireOld, Stored
    <2>2. CASE MaintenancePrunes  BY <2>2 DEF MaintenancePrunes, PruneTerminal
    <2>3. ASSUME NEW id \in MessageIds, Time(id) PROVE messages'[i] = NoMessage
      <3>1. id # i  BY <2>3 DEF Time, Ages, RetryComesDue, InState, Stored
      <3>2. QED  BY <1>1, <2>3, <3>1 DEF Time, Ages, RetryComesDue, StoreTypeOK
    <2>4. QED  BY <1>5, <2>1, <2>2, <2>3 DEF Maintenance
  <1>6. ASSUME NEW id \in MessageIds, ForwardTask(id) PROVE messages'[i] = NoMessage
    <2>1. CASE NoRoute(id) \/ MockForwarded(id) \/ Forwarded(id) \/ Requeue(id)
      BY <1>3, <2>1, TaskUpdates
    <2>2. QED  BY <1>2, <1>6, <2>1 DEF ForwardTask, Route, TryFails, Send, ForwardFails, AllFailed
  <1>7. ASSUME RetryTick \/ RetryMessage PROVE messages'[i] = NoMessage
    <2>1. CASE RetryGiveUp \/ RetryMocked \/ RetryAnswered \/ RetryAgain
      <3>1. retry_id \in MessageIds
        BY <2>1 DEF RetryGiveUp, RetryMocked, RetryAnswered, RetryAgain, RetrySteps, IInv, Control
      <3>2. QED  BY <1>3, <2>1, <3>1, RetryUpdates
    <2>2. QED
      BY <1>2, <1>7, <2>1 DEF RetryTick, RetryMessage, RetryGet, RetryListDone, RetryRoute,
         RetryTryFails, RetrySend, RetryFails
  <1>8. ASSUME DlrApplied PROVE messages'[i] = NoMessage
    <2>1. dlr.id \in MessageIds  BY <1>8 DEF DlrApplied, IInv, Control
    <2>2. QED  BY <1>2, <1>3, <1>8, <2>1 DEF DlrApplied
  <1>9. ASSUME Smsc \/ ShutsDown \/ \E d \in dlrs : DlrOrphaned(d) \/ DlrFound(d)
        PROVE  messages'[i] = NoMessage
    BY <1>2, <1>9 DEF Smsc, SmscAccepts, SmscSettles, SmscSendsDlr, SmscUnchanged, ShutsDown,
       DlrOrphaned, DlrFound
  <1>10. ASSUME NEW id \in MessageIds, Forward(id) \/ Recv(id) \/ Dropped(id) PROVE messages'[i] = NoMessage
    BY <1>2, <1>10 DEF Forward, Recv, Dropped
  <1>11. QED  BY <1>4, <1>5, <1>6, <1>7, <1>8, <1>9, <1>10 DEF Next, Dlr

\* So a request that was turned away stays so.
LEMMA ClosedStep == ASSUME IInv, Closed, Next PROVE Closed'
  <1> SUFFICES ASSUME NEW i \in MessageIds, result'[i] = "closed"
               PROVE  fwd_pc'[i] = "done" /\ messages'[i] = NoMessage
    BY DEF Closed
  <1>1. CASE result[i] = "closed"
    <2>1. fwd_pc[i] = "done" /\ messages[i] = NoMessage  BY <1>1 DEF Closed
    <2>2. ~SpawnAndStore(i)  BY <2>1 DEF SpawnAndStore
    <2>3. fwd_pc'[i] = "done"  BY <2>1, <2>2, RequestStep DEF NotStarted, TaskSteps
    <2>4. QED  BY <2>1, <2>2, <2>3, AbsentStep
  <1>2. CASE result[i] # "closed"
    <2>1. fwd_pc[i] = "queued" /\ fwd_pc'[i] = "done" /\ UNCHANGED store_vars
      BY <1>2, RequestStep
    <2>2. messages[i] = NoMessage  BY <2>1 DEF IInv, Records, RecordOK, NotStarted
    <2>3. QED  BY <2>1, <2>2 DEF store_vars
  <1>3. QED  BY <1>1, <1>2

\* The step of a message outside the store.
LEMMA AbsentLives ==
    ASSUME IInv, Closed, Next, NEW i \in MessageIds, messages[i] = NoMessage
    PROVE  Promised!Lives(i)
  <1>1. CarrierAt(i) = NoId /\ LifeAt(i) = Absence(i)  BY DEF CarrierAt, LifeAt
  <1>2. CASE SpawnAndStore(i)
    <2>1. messages'[i] = NewMessage /\ fwd_pc[i] = "received"
      BY <1>2 DEF SpawnAndStore, Store
    <2>2. NewMessage # NoMessage
      <3>1. NewMessage \in StoredMessage
        BY DEF NewMessage, StoredMessage, MessageState
      <3>2. QED  BY <3>1, StoreAssumption
    <2>3. LifeAt(i) = "new"  BY <1>1, <2>1 DEF Absence
    <2>4. GoesTo(i, "waiting")
      BY <1>1, <2>1, <2>2 DEF GoesTo, LifeAt, CarrierAt, NewMessage, Phase
    <2>5. QED  BY <2>3, <2>4, AllowedSteps
  <1>3. CASE ~SpawnAndStore(i)
    <2>1. messages'[i] = NoMessage  BY <1>3, AbsentStep
    <2>2. CarrierAt(i)' = NoId /\ LifeAt(i)' = Absence(i)'  BY <2>1 DEF CarrierAt, LifeAt
    <2>3. \/ Absence(i)' = Absence(i)
          \/ Absence(i) = "new" /\ Absence(i)' = "refused"
      <3>1. fwd_pc[i] \in TaskSteps => result[i] # "closed"
        BY DEF Closed, TaskSteps
      <3>2. QED  BY <1>3, <3>1, RequestStep DEF Absence, NotStarted, TaskSteps
    <2>4. QED  BY <1>1, <2>2, <2>3, AllowedSteps DEF GoesTo
  <1>4. QED  BY <1>2, <1>3

\* What is unsent carries nothing, what is with a carrier carries an identifier.
LEMMA StoredLife ==
    ASSUME IInv, NEW i \in MessageIds, messages[i] # NoMessage
    PROVE  /\ messages[i] \in StoredMessage /\ RecordOK(i, messages[i])
           /\ LifeAt(i) = Phase(messages[i]) /\ CarrierAt(i) = messages[i].smsc
           /\ messages[i].state \in {"Pending", "Retrying"} => messages[i].smsc = NoId
           /\ messages[i].state = "InFlight" => messages[i].smsc # NoId
  <1>1. messages[i] \in StoredMessage /\ RecordOK(i, messages[i])
    BY StoredIsMessage DEF IInv, Records
  <1>2. QED  BY <1>1 DEF RecordOK, LifeAt, CarrierAt

\* A sender's write-back.
LEMMA WriteBackLives ==
    ASSUME IInv, NEW i \in MessageIds, NEW m, messages[i] # NoMessage, WriteBack(i, m),
           messages'[i] = m, messages[i].smsc = NoId,
           messages[i].state \in {"Pending", "Retrying", "Expired"}
    PROVE  Promised!Lives(i)
  <1>1. LifeAt(i) \in {"waiting", "lapsed"} /\ CarrierAt(i) = NoId
    BY StoredLife DEF Phase
  <1>2. m \in StoredMessage /\ m # NoMessage  BY StoreAssumption DEF WriteBack
  <1>3. LifeAt(i)' = Phase(m) /\ CarrierAt(i)' = m.smsc
    BY <1>2 DEF LifeAt, CarrierAt, Phase
  <1>4. CASE m.smsc = NoId /\ m.state \in {"Failed", "Expired", "Retrying"}
    <2>1. Phase(m) \in {"failed", "lapsed", "waiting"}  BY <1>4 DEF Phase
    <2>2. QED  BY <1>1, <1>3, <1>4, <2>1, AllowedSteps DEF GoesTo
  <1>5. CASE m.state = "InFlight" /\ (m.smsc = MockId \/ (m.smsc \in SmscIds /\ accepted[m.smsc] = i))
    <2>1. Phase(m) = "in_flight"  BY <1>5 DEF Phase
    <2>2. ASSUME m.smsc \in SmscIds, NEW j \in MessageIds, CarrierAt(j) = m.smsc PROVE FALSE
      <3>1. messages[j] # NoMessage /\ messages[j].smsc = m.smsc
        BY <2>2, StoreAssumption DEF CarrierAt
      <3>2. accepted[m.smsc] = j  BY <2>2, <3>1, StoredLife DEF RecordOK
      <3>3. accepted[m.smsc] = i  BY <1>5, <2>2, StoreAssumption
      <3>4. QED  BY <2>2, <3>1, <3>2, <3>3, StoreAssumption
    <2>3. QED  BY <1>1, <1>3, <1>5, <2>1, <2>2, AllowedSteps
  <1>6. QED  BY <1>4, <1>5 DEF WriteBack

\* The step of a stored message.
LEMMA StoredLives ==
    ASSUME IInv, Closed, Next, NEW i \in MessageIds, messages[i] # NoMessage
    PROVE  Promised!Lives(i)
  <1>1. /\ TypeOK /\ StoreTypeOK /\ messages[i] \in StoredMessage /\ RecordOK(i, messages[i])
        /\ LifeAt(i) = Phase(messages[i]) /\ CarrierAt(i) = messages[i].smsc
    BY StoredLife DEF IInv, TypeOK
  <1>2. ASSUME messages'[i] # NoMessage, messages'[i].smsc = messages[i].smsc,
               messages'[i].state = messages[i].state
        PROVE  Promised!Lives(i)
    <2>1. LifeAt(i)' = Phase(messages'[i]) /\ CarrierAt(i)' = messages'[i].smsc
      BY <1>2 DEF LifeAt, CarrierAt, Phase
    <2>2. Phase(messages'[i]) = Phase(messages[i])  BY <1>2 DEF Phase
    <2>3. QED  BY <1>1, <1>2, <2>1, <2>2, AllowedSteps DEF GoesTo
  <1>3. ASSUME messages'[i] # NoMessage, messages'[i].smsc = messages[i].smsc,
               messages'[i].state = "Expired", ~is_terminal(messages[i].state)
        PROVE  Promised!Lives(i)
    <2>1. LifeAt(i)' = Phase(messages'[i]) /\ CarrierAt(i)' = messages'[i].smsc
      BY <1>3 DEF LifeAt, CarrierAt, Phase
    <2>2. messages[i].state \in {"Pending", "Retrying", "InFlight"}
      BY <1>1, <1>3 DEF StoredMessage, MessageState, is_terminal
    <2>3. CASE messages[i].state = "InFlight"
      <3>1. Phase(messages[i]) = "in_flight" /\ Phase(messages'[i]) = "overdue"
        BY <1>3, <2>3, StoredLife DEF Phase
      <3>2. QED  BY <1>1, <1>3, <2>1, <3>1, AllowedSteps DEF GoesTo
    <2>4. CASE messages[i].state # "InFlight"
      <3>1. Phase(messages[i]) = "waiting" /\ Phase(messages'[i]) = "lapsed"
        BY <1>3, <2>2, <2>4, StoredLife DEF Phase
      <3>2. QED  BY <1>1, <1>3, <2>1, <3>1, AllowedSteps DEF GoesTo
    <2>5. QED  BY <2>3, <2>4
  <1>4. ASSUME messages'[i] = NoMessage, is_terminal(messages[i].state)
        PROVE  Promised!Lives(i)
    <2>1. Phase(messages[i]) \in {"lapsed", "overdue", "delivered", "failed"}
      BY <1>4 DEF Phase, is_terminal
    <2>2. fwd_pc[i] \notin NotStarted  BY <1>1 DEF RecordOK
    <2>3. result[i] # "closed"  BY DEF Closed
    <2>4. fwd_pc'[i] \notin NotStarted /\ result'[i] # "closed"
      BY <2>2, <2>3, RequestStep DEF NotStarted, TaskSteps
    <2>5. Absence(i)' = "gone"  BY <2>4 DEF Absence, NotStarted
    <2>6. LifeAt(i)' = "gone" /\ CarrierAt(i)' = NoId  BY <1>4, <2>5 DEF LifeAt, CarrierAt
    <2>7. QED  BY <1>1, <2>1, <2>6, AllowedSteps
  <1>5. ASSUME UNCHANGED store_vars PROVE Promised!Lives(i)
    BY <1>2, <1>5 DEF store_vars
  <1>6. ASSUME NEW id \in MessageIds, SpawnAndStore(id) PROVE Promised!Lives(i)
    <2>1. id # i  BY <1>1, <1>6 DEF SpawnAndStore, RecordOK, NotStarted
    <2>2. PICK evicted \in Evictable :
             messages' = [j \in MessageIds |-> IF j = id THEN NewMessage
                                               ELSE IF j \in evicted THEN NoMessage
                                               ELSE messages[j]]
      BY <1>6 DEF SpawnAndStore, Store
    <2>3. evicted \subseteq TerminalIds  BY DEF Evictable
    <2>4. CASE i \in evicted
      BY <1>4, <2>1, <2>2, <2>3, <2>4 DEF TerminalIds
    <2>5. CASE i \notin evicted
      BY <1>2, <2>1, <2>2, <2>5
    <2>6. QED  BY <2>4, <2>5
  <1>7. ASSUME MaintenanceExpires PROVE Promised!Lives(i)
    <2>1. messages'[i] = IF i \in Stored \ TerminalIds /\ is_expired(messages[i])
                         THEN mark_expired(messages[i]) ELSE messages[i]
      BY <1>7 DEF MaintenanceExpires, ExpireOld
    <2>2. CASE messages'[i] = messages[i]  BY <1>2, <2>2
    <2>3. CASE i \in Stored \ TerminalIds /\ messages'[i] = mark_expired(messages[i])
      <3>1. /\ mark_expired(messages[i]) \in StoredMessage
            /\ mark_expired(messages[i]).smsc = messages[i].smsc
            /\ mark_expired(messages[i]).state = "Expired"
        BY <1>1, Marks
      <3>2. ~is_terminal(messages[i].state)  BY <2>3 DEF TerminalIds
      <3>3. QED  BY <1>3, <2>3, <3>1, <3>2, StoreAssumption
    <2>4. QED  BY <2>1, <2>2, <2>3
  <1>8. ASSUME MaintenancePrunes PROVE Promised!Lives(i)
    <2>1. PICK pruned \in SUBSET TerminalIds :
             messages' = [id \in MessageIds |-> IF id \in pruned THEN NoMessage ELSE messages[id]]
      BY <1>8 DEF MaintenancePrunes, PruneTerminal
    <2>2. CASE i \in pruned  BY <1>4, <2>1, <2>2 DEF TerminalIds
    <2>3. CASE i \notin pruned  BY <1>2, <2>1, <2>3
    <2>4. QED  BY <2>2, <2>3
  <1>9. ASSUME NEW id \in MessageIds, Time(id) PROVE Promised!Lives(i)
    <2>1. PICK f \in {"old", "due"} :
             messages' = [messages EXCEPT ![id] = IF f = "old" THEN [messages[id] EXCEPT !.old = TRUE]
                                                              ELSE [messages[id] EXCEPT !.due = TRUE]]
      BY <1>9 DEF Time, Ages, RetryComesDue
    <2>2. /\ [messages[i] EXCEPT !.old = TRUE] \in StoredMessage
          /\ [messages[i] EXCEPT !.old = TRUE].state = messages[i].state
          /\ [messages[i] EXCEPT !.old = TRUE].smsc = messages[i].smsc
          /\ [messages[i] EXCEPT !.due = TRUE] \in StoredMessage
          /\ [messages[i] EXCEPT !.due = TRUE].state = messages[i].state
          /\ [messages[i] EXCEPT !.due = TRUE].smsc = messages[i].smsc
      BY <1>1 DEF StoredMessage
    <2>3. \/ messages'[i] = messages[i]
          \/ messages'[i] = [messages[i] EXCEPT !.old = TRUE]
          \/ messages'[i] = [messages[i] EXCEPT !.due = TRUE]
      BY <1>1, <2>1 DEF StoreTypeOK
    <2>4. /\ messages'[i] # NoMessage
          /\ messages'[i].state = messages[i].state /\ messages'[i].smsc = messages[i].smsc
      BY <1>1, <2>2, <2>3, StoreAssumption
    <2>5. QED  BY <1>2, <2>4
  <1>10. ASSUME NEW id \in MessageIds, NEW m, Update(id, m),
                messages[id] # NoMessage =>
                   /\ WriteBack(id, m) /\ messages[id].smsc = NoId
                   /\ messages[id].state \in {"Pending", "Retrying", "Expired"}
         PROVE  Promised!Lives(i)
    <2>1. CASE id = i
      <3>1. messages'[i] = m  BY <1>1, <1>10, <2>1, UpdateEffect DEF WriteBack
      <3>2. QED  BY <1>10, <2>1, <3>1, WriteBackLives
    <2>2. CASE id # i
      <3>1. messages'[i] = messages[i]  BY <1>1, <1>10, <2>2, UpdateEffect DEF WriteBack
      <3>2. QED  BY <1>2, <3>1
    <2>3. QED  BY <2>1, <2>2
  <1>11. ASSUME NEW id \in MessageIds,
                NoRoute(id) \/ MockForwarded(id) \/ Forwarded(id) \/ Requeue(id)
         PROVE  Promised!Lives(i)
    <2>1. PICK m : Update(id, m) /\ (messages[id] # NoMessage => WriteBack(id, m))
      BY <1>11, TaskUpdates
    <2>2. fwd_pc[id] \in TaskSteps
      BY <1>11 DEF NoRoute, MockForwarded, Forwarded, Requeue, TaskSteps
    <2>3. messages[id] # NoMessage => /\ messages[id].state \in {"Pending", "Retrying", "Expired"}
                                      /\ messages[id].smsc = NoId
      BY <2>2 DEF IInv, Records, RecordOK
    <2>4. QED  BY <1>10, <2>1, <2>3
  <1>12. ASSUME RetryGiveUp \/ RetryMocked \/ RetryAnswered \/ RetryAgain PROVE Promised!Lives(i)
    <2>1. PICK m : /\ Update(retry_id, m)
                   /\ messages[retry_id] # NoMessage => WriteBack(retry_id, m)
      BY <1>12, RetryUpdates
    <2>2. retry_pc \in RetrySteps /\ retry_id \in MessageIds
      BY <1>12 DEF RetryGiveUp, RetryMocked, RetryAnswered, RetryAgain, RetrySteps, IInv, Control
    <2>3. messages[retry_id] # NoMessage =>
             /\ messages[retry_id].state \in {"Pending", "Retrying", "Expired"}
             /\ messages[retry_id].smsc = NoId
      BY <2>2 DEF IInv, Records, RecordOK
    <2>4. QED  BY <1>10, <2>1, <2>2, <2>3
  <1>13. ASSUME DlrApplied PROVE Promised!Lives(i)
    <2>1. CASE dlr.status \notin Fates  BY <1>5, <1>13, <2>1 DEF DlrApplied
    <2>2. CASE dlr.status \in Fates
      <3> DEFINE st == IF dlr.status = "Delivered" THEN "Delivered" ELSE "Failed"
                 m == [messages[dlr.id] EXCEPT !.state = st]
      <3>1. Update(dlr.id, m) /\ dlr.on /\ dlr.id \in MessageIds
        BY <1>13, <2>2 DEF DlrApplied, IInv, Control
      <3>2. messages[dlr.id] # NoMessage =>
               m \in StoredMessage /\ m.state = st /\ m.smsc = messages[dlr.id].smsc
        <4>1. messages[dlr.id] # NoMessage => messages[dlr.id] \in StoredMessage
          BY <1>1, <3>1, StoredIsMessage
        <4>2. QED  BY <4>1 DEF StoredMessage, MessageState
      <3> HIDE DEF m
      <3>3. CASE dlr.id # i
        <4>1. messages'[i] = messages[i]  BY <1>1, <3>1, <3>2, <3>3, UpdateEffect
        <4>2. QED  BY <1>2, <4>1
      <3>4. CASE dlr.id = i
        <4>1. messages'[i] = m /\ m \in StoredMessage /\ m.state = st /\ m.smsc = messages[i].smsc
          BY <1>1, <3>1, <3>2, <3>4, UpdateEffect
        <4>2. messages[i].smsc = dlr.sid /\ messages[i].state \in {"InFlight", "Expired"}
          BY <1>1, <3>1, <3>4 DEF RecordOK
        <4>3. dlr.sid \in SmscIds /\ fate[dlr.sid] = dlr.status
          BY <2>2, <3>1 DEF IInv, ReceiptsAreTrue
        <4>4. Phase(messages[i]) \in {"in_flight", "overdue"}
          BY <4>2, <4>3, StoreAssumption DEF Phase
        <4>5. m # NoMessage  BY <4>1, StoreAssumption
        <4>6. LifeAt(i)' = Phase(m) /\ CarrierAt(i)' = m.smsc
          BY <4>1, <4>5 DEF LifeAt, CarrierAt, Phase
        <4>7. CASE dlr.status = "Delivered"
          <5>1. Phase(m) = "delivered"  BY <4>1, <4>7 DEF Phase
          <5>2. QED  BY <1>1, <4>1, <4>2, <4>3, <4>4, <4>6, <4>7, <5>1, AllowedSteps DEF GoesTo
        <4>8. CASE dlr.status = "Undeliverable"
          <5>1. Phase(m) = "failed"  BY <4>1, <4>8 DEF Phase
          <5>2. QED  BY <1>1, <4>1, <4>2, <4>3, <4>4, <4>6, <4>8, <5>1, AllowedSteps DEF GoesTo
        <4>9. QED  BY <2>2, <4>7, <4>8 DEF Fates
      <3>5. QED  BY <3>3, <3>4
    <2>3. QED  BY <2>1, <2>2
  <1>14. QED
    <2>1. ASSUME NEW id \in MessageIds, \/ Forward(id) \/ Recv(id) \/ Dropped(id) \/ Route(id)
                                        \/ TryFails(id) \/ Send(id) \/ ForwardFails(id) \/ AllFailed(id)
          PROVE  Promised!Lives(i)
      BY <1>5, <2>1 DEF Forward, Recv, Dropped, Route, TryFails, Send, ForwardFails, AllFailed
    <2>2. ASSUME \/ RetryTick \/ (\E id \in MessageIds : RetryGet(id)) \/ RetryListDone \/ RetryRoute
                 \/ RetryTryFails \/ RetrySend \/ RetryFails
          PROVE  Promised!Lives(i)
      BY <1>5, <2>2 DEF RetryTick, RetryGet, RetryListDone, RetryRoute, RetryTryFails, RetrySend, RetryFails
    <2>3. ASSUME Smsc \/ ShutsDown \/ \E d \in dlrs : DlrOrphaned(d) \/ DlrFound(d)
          PROVE  Promised!Lives(i)
      BY <1>5, <2>3 DEF Smsc, SmscAccepts, SmscSettles, SmscSendsDlr, SmscUnchanged, ShutsDown,
         DlrOrphaned, DlrFound
    <2>4. QED
      BY <1>6, <1>7, <1>8, <1>9, <1>11, <1>12, <1>13, <2>1, <2>2, <2>3
         DEF Next, ForwardTask, RetryMessage, Dlr, Maintenance

\* A carrier decides once.
LEMMA VerdictStep ==
    ASSUME IInv, Next, NEW sid \in SmscIds
    PROVE  fate'[sid] = fate[sid] \/ fate[sid] = "none"
  <1>1. fate \in [SmscIds -> Fates \cup {"none"}]  BY DEF IInv, TypeOK
  <1>2. ASSUME NEW t \in SmscIds, NEW f \in Fates, SmscSettles(t, f)
        PROVE  fate'[sid] = fate[sid] \/ fate[sid] = "none"
    BY <1>1, <1>2 DEF SmscSettles
  <1>3. UNCHANGED fate \/ \E t \in SmscIds, f \in Fates : SmscSettles(t, f)
    <2>1. ASSUME NEW id \in MessageIds,
                 \/ Forward(id) \/ Recv(id) \/ Dropped(id) \/ SpawnAndStore(id) \/ ForwardTask(id)
                 \/ Time(id)
          PROVE  UNCHANGED fate
      BY <2>1 DEF Forward, Recv, Dropped, SpawnAndStore, ForwardTask, NoRoute, Route, TryFails, Send,
         MockForwarded, Forwarded, ForwardFails, AllFailed, Requeue, Time, QuietUnchanged, smsc_vars
    <2>2. ASSUME RetryTick \/ RetryMessage PROVE UNCHANGED fate
      BY <2>2 DEF RetryTick, RetryMessage, RetryGet, RetryListDone, RetryRoute, RetryGiveUp,
         RetryTryFails, RetrySend, RetryMocked, RetryAnswered, RetryFails, RetryAgain, smsc_vars
    <2>3. ASSUME NEW t \in SmscIds, SmscSendsDlr(t) \/ \E s \in Senders : SmscAccepts(s, t)
          PROVE  UNCHANGED fate
      BY <2>3 DEF SmscSendsDlr, SmscAccepts
    <2>4. ASSUME Dlr \/ Maintenance \/ ShutsDown PROVE UNCHANGED fate
      BY <2>4 DEF Dlr, DlrApplied, DlrOrphaned, DlrFound, DlrUnchanged, Maintenance,
         MaintenanceExpires, MaintenancePrunes, ShutsDown, QuietUnchanged, smsc_vars
    <2>5. QED  BY <2>1, <2>2, <2>3, <2>4 DEF Next, Smsc
  <1>4. QED  BY <1>2, <1>3

\* Delivery implements MessageLife, for any messages, routes, limits and numbers of tasks:
\* its initial states map to initial states, and every step of a task, the retry loop, an
\* SMSC, a receipt, maintenance, time or shutdown maps to a step or to none.
THEOREM PromiseKept == Spec => KeepsPromise
  <1>1. Init => Closed /\ Promised!LifeInit
    <2> SUFFICES ASSUME Init PROVE Closed /\ Promised!LifeInit
      OBVIOUS
    <2>1. Closed  BY DEF Init, Closed
    <2>2. \A i \in MessageIds : messages[i] = NoMessage /\ Absence(i) = "new"
      BY DEF Init, StoreInit, Absence
    <2>3. QED  BY <2>1, <2>2 DEF Init, Promised!LifeInit
  <1>2. IInv /\ Closed /\ [Next]_vars => Closed'
    <2>1. ASSUME IInv, Closed, UNCHANGED vars PROVE Closed'
      BY <2>1 DEF Closed, vars, store_vars, fwd_vars
    <2>2. QED  BY <2>1, ClosedStep
  <1>3. IInv /\ Closed /\ [Next]_vars => [Promised!LifeNext]_(Promised!life_vars)
    <2>1. ASSUME IInv, Closed, Next PROVE Promised!LifeNext
      BY <2>1, StoredLives, AbsentLives, VerdictStep DEF Promised!LifeNext
    <2>2. ASSUME UNCHANGED vars PROVE UNCHANGED Promised!life_vars
      <3>1. UNCHANGED <<messages, fwd_pc, result, fate>>
        BY <2>2 DEF vars, store_vars, fwd_vars, smsc_vars
      <3>2. QED  BY <3>1 DEF Promised!life_vars, Phase, Absence
    <2>3. QED  BY <2>1, <2>2
  <1>4. QED
    BY <1>1, <1>2, <1>3, DeliveryInvariant, PTL DEF Spec, KeepsPromise, Promised!LifeSpec
===========================================================================
