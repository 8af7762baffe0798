-------------------------- MODULE FrontendProofs --------------------------
(***************************************************************************)
(* Proofs about Frontend, for any peers, workers, limits and binds.        *)
(***************************************************************************)
EXTENDS Frontend, FiniteSetTheorems, TLAPS

ConnState == Bound \cup {"Open", "Unbinding", "Closed"}
Lives == Bound \cup {"fresh", "unbound"}
NotServed == {"arriving", "refused", "handed"}
Places == NotServed \cup {"spawned", "loop", "select", "handle", "unbinding", "left",
                          "unregistered", "gone"}

\* What is in each variable.
FrontendTypes ==
    /\ shutdown \in {"Running", "Draining", "Terminated"}
    /\ main \in {"signals", "reload", "join", "stopped"}
    /\ listener \in {"starting", "accepting", "draining", "stopped"}
    /\ permits \in Nat
    /\ connections \subseteq Conns /\ channel \subseteq Conns
    /\ to_close \subseteq Conns /\ registered \subseteq Conns
    /\ state \in [Conns -> ConnState] /\ closing \in [Conns -> BOOLEAN]
    /\ system_id \in [Conns -> BOOLEAN]
    /\ at \in [Conns -> Places]
    /\ pdu \in [Conns -> [kind : Pdus \cup {"none"}, read : ConnState]]
    /\ owed \in [Conns -> Nat] /\ life \in [Conns -> Lives] /\ late \in [Conns -> Nat]

\* The connections that were given a permit, and with it a place in the channel or the
\* acceptor's hands.
Admitted == {c \in Conns : at[c] \notin {"arriving", "refused"}}

\* The connection map has the admitted connections whose task has not ended, the channel
\* all whose task has begun; every admitted connection has its permit for good.
Admission ==
    /\ connections = {c \in Conns : at[c] \notin {"arriving", "refused", "gone"}}
    /\ channel = {c \in Conns : at[c] \notin NotServed}
    /\ IsFiniteSet(channel) /\ Cardinality(channel) <= ChannelSize
    /\ IsFiniteSet(Admitted) /\ permits + Cardinality(Admitted) = MaxConnections

\* A PDU or response taken up after closing was set is the last: its session has passed
\* the select, and the check at the top of the loop will end it.
LastOne ==
    \A c \in Conns : late[c] # 0 => late[c] = 1 /\ closing[c] /\ at[c] # "select"

\* What the state says of the client, now and when the PDU in hand was taken up: it has not
\* bound while Open, and is bound as the state says, with its system_id, until it unbinds.
StateTells ==
    \A c \in Conns :
        /\ state[c] = "Open" => life[c] = "fresh"
        /\ state[c] \in Bound => life[c] = state[c] /\ system_id[c]
        /\ state[c] = "Unbinding" => life[c] = "unbound"
        /\ at[c] = "handle" /\ pdu[c].read = "Open" => life[c] = "fresh"

FrontendInv == FrontendTypes /\ Admission /\ LastOne /\ StateTells
---------------------------------------------------------------------------
(* The initial state *)

\* No connection has arrived and every permit is free.
LEMMA FrontendInit == Init => FrontendInv
  <1> SUFFICES ASSUME Init PROVE FrontendInv
    OBVIOUS
  <1>1. FrontendTypes
    BY LimitsAssumption DEF Init, FrontendTypes, ConnState, Lives, NotServed, Places, NoPdu
  <1>2. Admitted = {} /\ channel = {} /\ connections = {}  BY DEF Init, Admitted
  <1>3. Admission
    BY <1>2, FS_EmptySet, LimitsAssumption DEF Init, Admission, NotServed
  <1>4. LastOne /\ StateTells
    BY DEF Init, LastOne, StateTells, Bound
  <1>5. QED  BY <1>1, <1>3, <1>4 DEF FrontendInv
---------------------------------------------------------------------------
(* Types *)

\* A bind leads to the state that is bound that way.
LEMMA BindsBind == \A b \in Binds : BindOf[b] \in Bound
  BY LimitsAssumption DEF BindOf, Bound

\* Going on somewhere puts the PDU down; leaving closes the connection as well.
LEMMA GoOnTypes ==
    ASSUME FrontendTypes, NEW c \in Conns, NEW place \in Places, GoOn(c, place)
    PROVE  /\ at' \in [Conns -> Places]
           /\ pdu' \in [Conns -> [kind : Pdus \cup {"none"}, read : ConnState]]
  BY DEF FrontendTypes, GoOn, NoPdu, ConnState

\* A step of a connection's task keeps the types.
LEMMA SessionTypes ==
    ASSUME FrontendInv, NEW c \in Conns, Session(c)
    PROVE  FrontendTypes'
  <1> USE DEF FrontendInv, FrontendTypes, TaskUnchanged, server_vars
  <1> USE DEF Places, NotServed, ConnState, Lives
  <1>1. CASE Register(c)  BY <1>1, GoOnTypes DEF Register
  <1>2. CASE CheckClosing(c)  BY <1>2, GoOnTypes DEF CheckClosing, Leave
  <1>3. ASSUME NEW p \in Pdus, ReceivePdu(c, p) PROVE FrontendTypes'
    BY <1>3 DEF ReceivePdu, TakenUp
  <1>4. CASE StreamEnds(c)  BY <1>4, GoOnTypes DEF StreamEnds, Leave
  <1>5. CASE IdleTimeout(c)  BY <1>5, GoOnTypes DEF IdleTimeout, send_enquire_link, Leave
  <1>6. CASE handle_async_response(c)  BY <1>6, GoOnTypes DEF handle_async_response, TakenUp
  <1>7. CASE check_pending_timeouts(c)  BY <1>7, GoOnTypes DEF check_pending_timeouts
  <1>8. CASE handle_bind(c)  BY <1>8, GoOnTypes, BindsBind DEF handle_bind, Leave
  <1>9. CASE handle_unbind(c)  BY <1>9, GoOnTypes DEF handle_unbind, Leave
  <1>10. CASE Unbound(c)  BY <1>10, GoOnTypes DEF Unbound, Leave
  <1>11. CASE handle_submit_sm(c)
    <2>1. owed' \in [Conns -> Nat]  BY <1>11 DEF handle_submit_sm
    <2>2. /\ at' \in [Conns -> Places]
          /\ pdu' \in [Conns -> [kind : Pdus \cup {"none"}, read : ConnState]]
          /\ state' \in [Conns -> ConnState]
      BY <1>11, GoOnTypes DEF handle_submit_sm, Leave
    <2>3. QED  BY <1>11, <2>1, <2>2 DEF handle_submit_sm
  <1>12. CASE handle_response(c)  BY <1>12, GoOnTypes DEF handle_response
  <1>13. CASE handle_enquire_link(c)  BY <1>13, GoOnTypes DEF handle_enquire_link, Leave
  <1>14. CASE Unregister(c)  BY <1>14, GoOnTypes DEF Unregister
  <1>15. CASE Remove(c)  BY <1>15, GoOnTypes DEF Remove
  <1>16. QED
    BY <1>1, <1>2, <1>3, <1>4, <1>5, <1>6, <1>7, <1>8, <1>9, <1>10, <1>11, <1>12, <1>13,
       <1>14, <1>15 DEF Session

\* So do the steps of the listener, the peers, the workers and the server.
LEMMA ProcessTypes ==
    ASSUME FrontendInv,
           \/ ListenerStep \/ Sighup \/ Sigterm \/ WorkersJoined
           \/ \E c \in Conns : handle_accept(c) \/ PeerChanges(c)
           \/ \E w \in Workers : WorkerStep(w)
           \/ UNCHANGED vars
    PROVE  FrontendTypes'
  <1> USE DEF FrontendInv, FrontendTypes, server_vars, listener_vars, conn_vars, session_vars
  <1>1. CASE ListenerStarts \/ ListenerLeaves \/ ListenerStops
    BY <1>1 DEF ListenerStarts, ListenerLeaves, ListenerStops
  <1>2. ASSUME NEW c \in Conns, initiate_close(c) PROVE FrontendTypes'
    BY <1>2 DEF initiate_close, ConnState
  <1>3. ASSUME NEW c \in Conns, HandOver(c) PROVE FrontendTypes'
    BY <1>3 DEF HandOver, Places
  <1>4. ASSUME NEW c \in Conns, handle_accept(c) PROVE FrontendTypes'
    <2>1. at' \in [Conns -> Places]  BY <1>4 DEF handle_accept, Places, NotServed
    <2>2. permits' \in Nat /\ connections' \subseteq Conns  BY <1>4 DEF handle_accept
    <2>3. QED  BY <1>4, <2>1, <2>2 DEF handle_accept
  <1>5. ASSUME NEW c \in Conns, PeerChanges(c) PROVE FrontendTypes'
    BY <1>5 DEF PeerChanges
  <1>6. ASSUME NEW w \in Workers, WorkerStep(w) PROVE FrontendTypes'
    BY <1>6 DEF WorkerStep, WorkerSubscribes, WorkerExits
  <1>7. CASE Sighup \/ Sigterm \/ WorkersJoined
    BY <1>7 DEF Sighup, Sigterm, WorkersJoined
  <1>8. CASE UNCHANGED vars
    BY <1>8 DEF vars
  <1>9. QED
    BY <1>1, <1>2, <1>3, <1>4, <1>5, <1>6, <1>7, <1>8 DEF ListenerStep
---------------------------------------------------------------------------
(* Admission *)

\* A step in which every connection keeps its standing leaves admission as it is.
LEMMA AdmissionRests ==
    ASSUME FrontendInv, UNCHANGED <<permits, connections, channel>>,
           \A c \in Conns : \/ at'[c] = at[c]
                            \/ {at[c], at'[c]} \cap (NotServed \cup {"gone"}) = {}
    PROVE  Admission'
  <1>1. \A c \in Conns : /\ at'[c] \in {"arriving", "refused"} <=> at[c] \in {"arriving", "refused"}
                         /\ at'[c] \in NotServed <=> at[c] \in NotServed
                         /\ at'[c] = "gone" <=> at[c] = "gone"
    BY DEF NotServed
  <1>2. Admitted' = Admitted  BY <1>1 DEF Admitted
  <1>3. connections' = {c \in Conns : at'[c] \notin {"arriving", "refused", "gone"}}
    <2>1. connections = {c \in Conns : at[c] \notin {"arriving", "refused", "gone"}}
      BY DEF FrontendInv, Admission
    <2>2. \A c \in Conns : at'[c] \in {"arriving", "refused", "gone"}
                              <=> at[c] \in {"arriving", "refused", "gone"}
      BY <1>1
    <2>3. QED  BY <2>1, <2>2
  <1>4. channel' = {c \in Conns : at'[c] \notin NotServed}
    <2>1. channel = {c \in Conns : at[c] \notin NotServed}
      BY DEF FrontendInv, Admission
    <2>2. QED  BY <1>1, <2>1
  <1>5. QED  BY <1>2, <1>3, <1>4 DEF FrontendInv, Admission

\* A connection is admitted with a permit, or refused without one.
LEMMA Admits ==
    ASSUME FrontendInv, NEW c \in Conns, handle_accept(c)
    PROVE  Admission'
  <1> USE DEF FrontendInv, Admission, FrontendTypes
  <1>1. at[c] = "arriving" /\ channel' = channel  BY DEF handle_accept
  <1>2. CASE /\ permits > 0 /\ permits' = permits - 1
             /\ connections' = connections \cup {c} /\ at' = [at EXCEPT ![c] = "handed"]
    <2>1. Admitted' = Admitted \cup {c} /\ c \notin Admitted
      BY <1>1, <1>2 DEF Admitted
    <2>2. IsFiniteSet(Admitted') /\ Cardinality(Admitted') = Cardinality(Admitted) + 1
      BY <2>1, FS_AddElement
    <2>3. Cardinality(Admitted) \in Nat  BY FS_CardinalityType
    <2>4. permits' + Cardinality(Admitted') = MaxConnections
      BY <1>2, <2>2, <2>3, LimitsAssumption
    <2>5. connections' = {d \in Conns : at'[d] \notin {"arriving", "refused", "gone"}}
      BY <1>1, <1>2
    <2>6. channel' = {d \in Conns : at'[d] \notin NotServed}
      BY <1>1, <1>2 DEF NotServed
    <2>7. QED  BY <1>1, <2>2, <2>4, <2>5, <2>6
  <1>3. CASE at' = [at EXCEPT ![c] = "refused"] /\ UNCHANGED <<permits, connections>>
    <2>1. Admitted' = Admitted  BY <1>1, <1>3 DEF Admitted
    <2>2. connections' = {d \in Conns : at'[d] \notin {"arriving", "refused", "gone"}}
      BY <1>1, <1>3
    <2>3. channel' = {d \in Conns : at'[d] \notin NotServed}
      BY <1>1, <1>3 DEF NotServed
    <2>4. QED  BY <1>1, <1>3, <2>1, <2>2, <2>3
  <1>4. QED  BY <1>2, <1>3 DEF handle_accept

\* The channel takes a connection while it has room.
LEMMA HandsOver ==
    ASSUME FrontendInv, NEW c \in Conns, HandOver(c)
    PROVE  Admission'
  <1> USE DEF FrontendInv, Admission, FrontendTypes
  <1>1. /\ at[c] = "handed" /\ at' = [at EXCEPT ![c] = "spawned"]
        /\ channel' = channel \cup {c} /\ Cardinality(channel) < ChannelSize
        /\ UNCHANGED <<permits, connections>>
    BY DEF HandOver
  <1>2. Admitted' = Admitted  BY <1>1 DEF Admitted
  <1>3. c \notin channel  BY <1>1 DEF NotServed
  <1>4. IsFiniteSet(channel') /\ Cardinality(channel') = Cardinality(channel) + 1
    BY <1>1, <1>3, FS_AddElement
  <1>5. Cardinality(channel) \in Nat  BY FS_CardinalityType
  <1>6. Cardinality(channel') <= ChannelSize  BY <1>1, <1>4, <1>5, LimitsAssumption
  <1>7. connections' = {d \in Conns : at'[d] \notin {"arriving", "refused", "gone"}}  BY <1>1
  <1>8. channel' = {d \in Conns : at'[d] \notin NotServed}  BY <1>1 DEF NotServed
  <1>9. QED  BY <1>1, <1>2, <1>4, <1>6, <1>7, <1>8

\* The end of a task takes its connection from the map, not from the channel, and so does
\* not give the permit back.
LEMMA Removes ==
    ASSUME FrontendInv, NEW c \in Conns, Remove(c)
    PROVE  Admission' /\ permits' = permits
  <1> USE DEF FrontendInv, Admission, FrontendTypes
  <1>1. /\ at[c] = "unregistered" /\ at' = [at EXCEPT ![c] = "gone"]
        /\ connections' = connections \ {c} /\ channel' = channel
        /\ permits' = IF c \in channel THEN permits ELSE permits + 1
    BY DEF Remove, GoOn, TaskUnchanged
  <1>2. c \in channel  BY <1>1 DEF NotServed
  <1>3. Admitted' = Admitted  BY <1>1 DEF Admitted
  <1>4. connections' = {d \in Conns : at'[d] \notin {"arriving", "refused", "gone"}}  BY <1>1
  <1>5. channel' = {d \in Conns : at'[d] \notin NotServed}  BY <1>1 DEF NotServed
  <1>6. QED  BY <1>1, <1>2, <1>3, <1>4, <1>5

\* Every other step of a task stays between the channel and the end.
LEMMA SessionAdmission ==
    ASSUME FrontendInv, NEW c \in Conns, Session(c)
    PROVE  Admission'
  <1> DEFINE Served == Places \ (NotServed \cup {"gone"})
  <1>1. CASE Remove(c)  BY <1>1, Removes
  <1>2. CASE ~Remove(c)
    <2>1. UNCHANGED <<permits, connections, channel>>
      BY <1>2 DEF Session, Register, CheckClosing, ReceivePdu, StreamEnds, IdleTimeout,
             handle_async_response, check_pending_timeouts, handle_bind, handle_unbind, Unbound,
             handle_submit_sm, handle_response, handle_enquire_link, Unregister, TaskUnchanged
    <2>2. at[c] \in Served /\ \E place \in Served : at' = [at EXCEPT ![c] = place]
      BY <1>2 DEF Session, Register, CheckClosing, ReceivePdu, StreamEnds, IdleTimeout,
             handle_async_response, check_pending_timeouts, handle_bind, handle_unbind, Unbound,
             handle_submit_sm, handle_response, handle_enquire_link, Unregister,
             send_enquire_link, GoOn, Leave, Places, NotServed
    <2>3. \A d \in Conns : at'[d] = at[d] \/ {at[d], at'[d]} \cap (NotServed \cup {"gone"}) = {}
      BY <2>2 DEF FrontendInv, FrontendTypes
    <2>4. QED  BY <2>1, <2>3, AdmissionRests
  <1>3. QED  BY <1>1, <1>2

\* The listener's other steps, the peers, the workers and the server leave admission alone.
LEMMA ProcessAdmission ==
    ASSUME FrontendInv,
           \/ ListenerStep \/ Sighup \/ Sigterm \/ WorkersJoined
           \/ \E c \in Conns : handle_accept(c) \/ PeerChanges(c)
           \/ \E w \in Workers : WorkerStep(w)
           \/ UNCHANGED vars
    PROVE  Admission'
  <1>1. CASE \E c \in Conns : handle_accept(c)  BY <1>1, Admits
  <1>2. CASE \E c \in Conns : HandOver(c)  BY <1>2, HandsOver
  <1>3. CASE UNCHANGED <<permits, connections, channel, at>>  BY <1>3, AdmissionRests
  <1>4. QED
    BY <1>1, <1>2, <1>3
    DEF ListenerStep, ListenerStarts, ListenerLeaves, ListenerStops, initiate_close, Sighup,
        Sigterm, WorkersJoined, PeerChanges, WorkerStep, WorkerSubscribes, WorkerExits,
        listener_vars, session_vars, vars
---------------------------------------------------------------------------
(* The last PDU or response *)

\* A task that takes up a PDU or response after closing was set leaves the select with it,
\* and the check at the top of the loop does not let it back.
LEMMA SessionLastOne ==
    ASSUME FrontendInv, NEW c \in Conns, Session(c)
    PROVE  LastOne'
  <1> USE DEF FrontendInv, FrontendTypes, LastOne
  <1>1. closing' = closing  
    BY DEF Session, Register, CheckClosing, ReceivePdu, StreamEnds, IdleTimeout,
           handle_async_response, check_pending_timeouts, handle_bind, handle_unbind, Unbound,
           handle_submit_sm, handle_response, handle_enquire_link, Unregister, Remove,
           TaskUnchanged
  <1>2. \A d \in Conns \ {c} : late'[d] = late[d] /\ at'[d] = at[d]
    BY DEF Session, Register, CheckClosing, ReceivePdu, StreamEnds, IdleTimeout,
           handle_async_response, check_pending_timeouts, handle_bind, handle_unbind, Unbound,
           handle_submit_sm, handle_response, handle_enquire_link, Unregister, Remove,
           send_enquire_link, GoOn, Leave, TakenUp
  <1>3. late'[c] # 0 => late'[c] = 1 /\ closing'[c] /\ at'[c] # "select"
    <2>1. CASE \/ \E p \in Pdus : ReceivePdu(c, p)
               \/ handle_async_response(c)
      <3>1. at[c] = "select" /\ late[c] = 0  
        BY <2>1 DEF ReceivePdu, handle_async_response
      <3>2. late'[c] = (IF closing[c] THEN 1 ELSE 0)
        BY <2>1, <3>1 DEF ReceivePdu, handle_async_response, TakenUp
      <3>3. at'[c] # "select"
        BY <2>1 DEF ReceivePdu, handle_async_response, GoOn
      <3>4. QED  BY <1>1, <3>2, <3>3
    <2>2. CASE CheckClosing(c)
      BY <1>1, <2>2 DEF CheckClosing, GoOn, Leave
    <2>3. CASE late' = late /\ at'[c] # "select"
      BY <1>1, <2>3
    <2>4. QED
      BY <2>1, <2>2, <2>3
      DEF Session, Register, StreamEnds, IdleTimeout, check_pending_timeouts, handle_bind,
          handle_unbind, Unbound, handle_submit_sm, handle_response, handle_enquire_link,
          Unregister, Remove, send_enquire_link, GoOn, Leave
  <1>4. QED  BY <1>1, <1>2, <1>3

\* Nobody takes the order to close back.
LEMMA ProcessLastOne ==
    ASSUME FrontendInv,
           \/ ListenerStep \/ Sighup \/ Sigterm \/ WorkersJoined
           \/ \E c \in Conns : handle_accept(c) \/ PeerChanges(c)
           \/ \E w \in Workers : WorkerStep(w)
           \/ UNCHANGED vars
    PROVE  LastOne'
  <1> USE DEF FrontendInv, FrontendTypes, LastOne
  <1>1. late' = late
    BY DEF ListenerStep, ListenerStarts, ListenerLeaves, ListenerStops, initiate_close, Sighup,
           HandOver, handle_accept,
           Sigterm, WorkersJoined, PeerChanges, WorkerStep, WorkerSubscribes, WorkerExits,
           session_vars, vars
  <1>2. \A c \in Conns : closing[c] => closing'[c]
    BY DEF ListenerStep, ListenerStarts, ListenerLeaves, ListenerStops, initiate_close, Sighup,
           HandOver, handle_accept,
           Sigterm, WorkersJoined, PeerChanges, WorkerStep, WorkerSubscribes, WorkerExits,
           conn_vars, vars
  <1>3. \A c \in Conns : at[c] # "select" => at'[c] # "select"
    BY DEF ListenerStep, ListenerStarts, ListenerLeaves, ListenerStops, initiate_close, Sighup,
           HandOver, handle_accept,
           Sigterm, WorkersJoined, PeerChanges, WorkerStep, WorkerSubscribes, WorkerExits,
           session_vars, vars
  <1>4. QED  BY <1>1, <1>2, <1>3
---------------------------------------------------------------------------
(* The state and the client *)

\* The variables of the other connections stay as they are in a step of one task.
LEMMA SessionAlone ==
    ASSUME FrontendInv, NEW c \in Conns, Session(c), NEW d \in Conns \ {c}
    PROVE  /\ state'[d] = state[d] /\ life'[d] = life[d] /\ system_id'[d] = system_id[d]
           /\ at'[d] = at[d] /\ pdu'[d] = pdu[d] /\ owed'[d] = owed[d]
  BY DEF FrontendInv, FrontendTypes, Session, Register, CheckClosing, ReceivePdu, StreamEnds,
         IdleTimeout, handle_async_response, check_pending_timeouts, handle_bind, handle_unbind,
         Unbound, handle_submit_sm, handle_response, handle_enquire_link, Unregister, Remove,
         send_enquire_link, GoOn, Leave

\* A step of a task keeps the state true to the client: it binds only a client that was found
\* Open and so had not bound, and unbinds one that is bound.
LEMMA SessionTells ==
    ASSUME FrontendInv, NEW c \in Conns, Session(c)
    PROVE  StateTells'
  <1> USE DEF FrontendInv, FrontendTypes
  <1> DEFINE Tells ==
        /\ state'[c] = "Open" => life'[c] = "fresh"
        /\ state'[c] \in Bound => life'[c] = state'[c] /\ system_id'[c]
        /\ state'[c] = "Unbinding" => life'[c] = "unbound"
        /\ at'[c] = "handle" /\ pdu'[c].read = "Open" => life'[c] = "fresh"
  <1>1. Tells
    <2> USE DEF StateTells, Bound
    <2>1. CASE /\ UNCHANGED <<life, system_id>> /\ at'[c] # "handle"
               /\ state'[c] \in {state[c], "Closed"}
      BY <2>1
    <2>2. ASSUME NEW p \in Pdus, ReceivePdu(c, p) PROVE Tells
      BY <2>2 DEF ReceivePdu
    <2>3. CASE handle_bind(c)
      <3>1. at'[c] # "handle"  BY <2>3 DEF handle_bind, GoOn, Leave
      <3>2. CASE /\ UNCHANGED <<life, system_id>>
                 /\ state'[c] \in {state[c], "Closed"}
        BY <3>1, <3>2, <2>1
      <3>3. CASE /\ system_id' = [system_id EXCEPT ![c] = TRUE]
                 /\ life' = [life EXCEPT ![c] = BindOf[pdu[c].kind]]
                 /\ state'[c] \in {BindOf[pdu[c].kind], "Closed"}
        <4>1. BindOf[pdu[c].kind] \in Bound  BY <2>3, BindsBind DEF handle_bind
        <4>2. QED  BY <3>1, <3>3, <4>1
      <3>4. QED  BY <2>3, <3>2, <3>3 DEF handle_bind, Leave
    <2>4. CASE handle_unbind(c)
      <3>1. at'[c] # "handle"  BY <2>4 DEF handle_unbind, GoOn, Leave
      <3>2. CASE state[c] \in Bound
        BY <2>4, <3>1, <3>2 DEF handle_unbind
      <3>3. CASE state[c] \notin Bound
        BY <2>4, <3>1, <3>3, <2>1 DEF handle_unbind, Leave
      <3>4. QED  BY <3>2, <3>3
    <2>5. QED
      BY <2>1, <2>2, <2>3, <2>4
      DEF Session, Register, CheckClosing, StreamEnds, IdleTimeout, handle_async_response,
          check_pending_timeouts, Unbound, handle_submit_sm, handle_response,
          handle_enquire_link, Unregister, Remove, send_enquire_link, GoOn, Leave
  <1>2. QED  BY <1>1, SessionAlone DEF StateTells

\* The listener closes a connection whatever the client has done; no other step outside the
\* task changes its state.
LEMMA ProcessTells ==
    ASSUME FrontendInv,
           \/ ListenerStep \/ Sighup \/ Sigterm \/ WorkersJoined
           \/ \E c \in Conns : handle_accept(c) \/ PeerChanges(c)
           \/ \E w \in Workers : WorkerStep(w)
           \/ UNCHANGED vars
    PROVE  /\ StateTells'
           /\ UNCHANGED <<life, owed>> 
           /\ \A c \in Conns : state'[c] \in {state[c], "Closed"}
  <1> USE DEF FrontendInv, FrontendTypes, StateTells, Bound
  <1>1. UNCHANGED <<life, owed, system_id, pdu>>
    BY DEF ListenerStep, ListenerStarts, ListenerLeaves, ListenerStops, initiate_close, Sighup,
           HandOver, handle_accept, Sigterm, WorkersJoined, PeerChanges, WorkerStep,
           WorkerSubscribes, WorkerExits, session_vars, conn_vars, vars
  <1>2. \A c \in Conns : state'[c] \in {state[c], "Closed"}
    BY DEF ListenerStep, ListenerStarts, ListenerLeaves, ListenerStops, initiate_close, Sighup,
           HandOver, handle_accept, Sigterm, WorkersJoined, PeerChanges, WorkerStep,
           WorkerSubscribes, WorkerExits, conn_vars, vars
  <1>3. \A c \in Conns : at'[c] = "handle" => at[c] = "handle"
    BY DEF ListenerStep, ListenerStarts, ListenerLeaves, ListenerStops, initiate_close, Sighup,
           HandOver, handle_accept, Sigterm, WorkersJoined, PeerChanges, WorkerStep,
           WorkerSubscribes, WorkerExits, session_vars, vars
  <1>4. QED  BY <1>1, <1>2, <1>3
---------------------------------------------------------------------------
(* The theorems *)

\* Every step keeps the invariant.
LEMMA FrontendInductive == FrontendInv /\ [Next]_vars => FrontendInv'
  <1> SUFFICES ASSUME FrontendInv, [Next]_vars PROVE FrontendInv'
    OBVIOUS
  <1>1. ASSUME NEW c \in Conns, Session(c) PROVE FrontendInv'
    BY <1>1, SessionTypes, SessionAdmission, SessionLastOne, SessionTells DEF FrontendInv
  <1>2. CASE \/ ListenerStep \/ Sighup \/ Sigterm \/ WorkersJoined
             \/ \E c \in Conns : handle_accept(c) \/ PeerChanges(c)
             \/ \E w \in Workers : WorkerStep(w)
             \/ UNCHANGED vars
    BY <1>2, ProcessTypes, ProcessAdmission, ProcessLastOne, ProcessTells DEF FrontendInv
  <1>3. QED  BY <1>1, <1>2 DEF Next

\* The listener, the sessions and the process keep the whole invariant, for any number of
\* peers and workers (listener/acceptor.rs, listener/session.rs, bootstrap).
THEOREM FrontendInvariant == Spec => []FrontendInv
  BY FrontendInit, FrontendInductive, PTL DEF Spec

\* The state of the front end has its types, and a connection is in the listener's map from
\* its acceptance to the end of its task (handle_accept).
THEOREM FrontendTyped == Spec => []TypeOK
  <1>1. FrontendInv => TypeOK
    <2> SUFFICES ASSUME FrontendInv PROVE TypeOK
      OBVIOUS
    <2>1. permits \in 0..MaxConnections
      <3>1. Cardinality(Admitted) \in Nat
        BY FS_CardinalityType DEF FrontendInv, Admission
      <3>2. QED  BY <3>1, LimitsAssumption DEF FrontendInv, FrontendTypes, Admission
    <2>2. QED  
      BY <2>1 DEF FrontendInv, FrontendTypes, Admission, TypeOK, ConnState, Lives
  <1>2. QED  BY <1>1, FrontendInvariant, PTL

\* A session told to close takes up one more PDU or response at most, whenever the listener
\* sets the flag (run_loop, initiate_close).
THEOREM LastIsOneMore == Spec => []OneMoreAtMost
  <1>1. FrontendInv => OneMoreAtMost
    BY DEF FrontendInv, FrontendTypes, LastOne, OneMoreAtMost
  <1>2. QED  BY <1>1, FrontendInvariant, PTL

\* Every permit is free or held by one connection of the map or the channel
\* (handle_accept, Connection._permit).
THEOREM EveryPermitHeld == Spec => []PermitsHeld
  <1>1. FrontendInv => PermitsHeld
    <2> SUFFICES ASSUME FrontendInv PROVE PermitsHeld
      OBVIOUS
    <2>1. connections \cup channel = Admitted
      BY DEF FrontendInv, Admission, NotServed, Admitted
    <2>2. QED  BY <2>1 DEF FrontendInv, Admission, PermitsHeld
  <1>2. QED  BY <1>1, FrontendInvariant, PTL

\* What a task's own steps do to its client: a bind finds it fresh, an unbind finds it bound,
\* and a submission is published only for one that is bound to transmit.
LEMMA SessionOrder ==
    ASSUME FrontendInv, NEW c \in Conns, Session(c)
    PROVE  /\ life'[c] # life[c] => \/ life[c] = "fresh" /\ life'[c] \in Bound
                                    \/ life[c] \in Bound /\ life'[c] = "unbound"
           /\ owed'[c] > owed[c] => life[c] \in {"BoundTx", "BoundTrx"} /\ system_id[c]
           /\ state'[c] = "Unbinding" => life'[c] = "unbound"
  <1> USE DEF FrontendInv, FrontendTypes
  <1>1. state'[c] = "Unbinding" => life'[c] = "unbound"
    BY SessionTells DEF StateTells
  <1>2. life'[c] # life[c] => \/ life[c] = "fresh" /\ life'[c] \in Bound
                              \/ life[c] \in Bound /\ life'[c] = "unbound"
    <2>1. CASE handle_bind(c)
      <3>1. CASE life' = life  BY <3>1
      <3>2. CASE pdu[c].read = "Open" /\ life' = [life EXCEPT ![c] = BindOf[pdu[c].kind]]
        BY <2>1, <3>2, BindsBind DEF handle_bind, StateTells
      <3>3. QED  BY <2>1, <3>1, <3>2 DEF handle_bind
    <2>2. CASE handle_unbind(c)  BY <2>2 DEF handle_unbind, StateTells
    <2>3. CASE life' = life  BY <2>3
    <2>4. QED
      BY <2>1, <2>2, <2>3
      DEF Session, Register, CheckClosing, ReceivePdu, StreamEnds, IdleTimeout,
          handle_async_response, check_pending_timeouts, Unbound, handle_submit_sm,
          handle_response, handle_enquire_link, Unregister, Remove
  <1>3. owed'[c] > owed[c] => life[c] \in {"BoundTx", "BoundTrx"} /\ system_id[c]
    <2>1. CASE handle_submit_sm(c)
      <3>1. CASE state[c] \in {"BoundTx", "BoundTrx"}  BY <3>1 DEF StateTells, Bound
      <3>2. CASE state[c] \notin {"BoundTx", "BoundTrx"}  BY <2>1, <3>2 DEF handle_submit_sm
      <3>3. QED  BY <3>1, <3>2
    <2>2. CASE handle_async_response(c)
      <3>1. owed[c] \in Nat /\ owed'[c] = owed[c] - 1  BY <2>2 DEF handle_async_response
      <3>2. QED  BY <3>1
    <2>3. CASE Unregister(c)
      <3>1. owed[c] \in Nat /\ owed'[c] = 0  BY <2>3 DEF Unregister
      <3>2. QED  BY <3>1
    <2>4. CASE owed' = owed  BY <2>4
    <2>5. QED
      BY <2>1, <2>2, <2>3, <2>4
      DEF Session, Register, CheckClosing, ReceivePdu, StreamEnds, IdleTimeout,
          check_pending_timeouts, handle_bind, handle_unbind, Unbound, handle_response,
          handle_enquire_link, Remove
  <1>4. QED  BY <1>1, <1>2, <1>3

\* A client binds once, is not bound again after it unbound, and submits only in between, with
\* its system_id known, however the listener closes its connection meanwhile (handle_pdu,
\* handle_bind_*, handle_unbind, handle_submit_sm).
THEOREM ClientKeepsOrder == Spec => ProtocolOrder
  <1> DEFINE InOrder(c) ==
        /\ life'[c] # life[c] => \/ life[c] = "fresh" /\ life'[c] \in Bound
                                 \/ life[c] \in Bound /\ life'[c] = "unbound"
        /\ owed'[c] > owed[c] => life[c] \in {"BoundTx", "BoundTrx"} /\ system_id[c]
        /\ state'[c] = "Unbinding" => life'[c] = "unbound"
  <1>1. FrontendInv /\ [Next]_vars => [\A c \in Conns : InOrder(c)]_vars
    <2> SUFFICES ASSUME FrontendInv, [Next]_vars, NEW c \in Conns PROVE InOrder(c)
      OBVIOUS
    <2> USE DEF FrontendInv, FrontendTypes
    <2>1. ASSUME NEW d \in Conns, Session(d) PROVE InOrder(c)
      <3>1. CASE c = d  BY <2>1, <3>1, SessionOrder
      <3>2. CASE c # d
        <4>1. state'[c] = state[c] /\ life'[c] = life[c] /\ owed'[c] = owed[c]
          BY <2>1, <3>2, SessionAlone
        <4>2. QED  BY <4>1 DEF StateTells
      <3>3. QED  BY <3>1, <3>2
    <2>2. CASE \/ ListenerStep \/ Sighup \/ Sigterm \/ WorkersJoined
               \/ \E d \in Conns : handle_accept(d) \/ PeerChanges(d)
               \/ \E w \in Workers : WorkerStep(w)
               \/ UNCHANGED vars
      <3>1. life' = life /\ owed' = owed /\ state'[c] \in {state[c], "Closed"}
        BY <2>2, ProcessTells
      <3>2. QED  BY <3>1 DEF StateTells
    <2>3. QED  BY <2>1, <2>2 DEF Next
  <1>2. QED  BY <1>1, FrontendInvariant, PTL DEF Spec, ProtocolOrder
===========================================================================
