------------------------------ MODULE Frontend ------------------------------
(***************************************************************************)
(* The life of connections and of the process: a listener and its accept   *)
(* loop (listener/acceptor.rs), the connections (listener/connection.rs)   *)
(* and their SMPP sessions (listener/session.rs), the shutdown state       *)
(* (bootstrap/shutdown.rs), the worker threads (bootstrap/worker.rs) and   *)
(* the signals the server waits for (bootstrap/server.rs).                 *)
(*                                                                         *)
(* Tasks meet in the connection's state and closing flag, the connection   *)
(* map, the connection channel and the watch channel of the shutdown       *)
(* state; a task's step goes from one of those to the next, or from one    *)
(* await to the next.  What a response says, and where it comes from, is   *)
(* Pipeline's business: here a session is owed one or it is not.           *)
(***************************************************************************)
EXTENDS Naturals, FiniteSets

CONSTANTS
    Conns,              \* peers that connect, once each: 1..n, in the order of their ConnectionIds
    Workers,            \* worker threads
    Acceptor,           \* the task of Listener::run
    Binds,              \* the bind requests that clients send
    BindVerdicts,       \* what a credential store may say of a bind; OpenCredentialStore says "ok"
    MaxConnections,     \* limits.max_connections
    ChannelSize,        \* capacity of the connection channel: 1024
    MaxOwed             \* bound: a client submits no more while so many responses are owed

Watchers == Workers \cup {Acceptor}
NotYet == "not subscribed"
BindOf == [bind_transmitter |-> "BoundTx", bind_receiver |-> "BoundRx", bind_transceiver |-> "BoundTrx"]
Pdus == Binds \cup {"unbind", "submit_sm", "response", "other"}
Bound == {"BoundTx", "BoundRx", "BoundTrx"}
NoPdu == [kind |-> "none", read |-> "Open"]

ASSUME LimitsAssumption == {MaxConnections, ChannelSize, MaxOwed} \subseteq Nat \ {0} /\ Binds \subseteq DOMAIN BindOf

VARIABLES
    shutdown,       \* Shutdown.state
    seen,           \* the state a watcher has seen, once it has subscribed
    main,           \* where Server::run is
    workers,        \* the workers that have not left their thread
    listener,       \* where Listener::run is
    short_idle,     \* the idle timeout is at most the one second of the third branch
    permits,        \* Listener.connection_limit
    connections,    \* Listener.connections
    channel,        \* the connections in the channel nobody receives from
    to_close,       \* the connections drain_connections has still to close
    peer,           \* a peer is connected, silent, or gone
    state, closing, system_id,  \* Connection
    at,             \* where the connection's task is
    pdu,            \* the PDU in hand and the state read before it was looked at
    pending,        \* whether an enquire_link of ours awaits its response
    owed,           \* responses in the session's channel
    registered,     \* sessions in the registry
    life,           \* history: what the client has achieved by its own requests
    late            \* history: PDUs and responses taken up since closing was set, counted to two

conn_vars == <<state, closing, system_id>>
session_vars == <<at, pdu, pending, owed, registered, life, late>>
listener_vars == <<listener, permits, connections, channel, to_close>>
server_vars == <<shutdown, seen, main, workers>>
vars == <<server_vars, listener_vars, short_idle, peer, conn_vars, session_vars>>

Init ==
    /\ shutdown = "Running" /\ main = "signals"
    /\ seen = [w \in Watchers |-> NotYet] /\ workers = Workers
    /\ listener = "starting" /\ permits = MaxConnections
    /\ connections = {} /\ channel = {} /\ to_close = {}
    /\ short_idle \in BOOLEAN
    /\ peer = [c \in Conns |-> "connected"]
    /\ state = [c \in Conns |-> "Open"] /\ closing = [c \in Conns |-> FALSE]
    /\ system_id = [c \in Conns |-> FALSE]
    /\ at = [c \in Conns |-> "arriving"]
    /\ pdu = [c \in Conns |-> NoPdu]
    /\ pending = [c \in Conns |-> FALSE] /\ owed = [c \in Conns |-> 0]
    /\ registered = {}
    /\ life = [c \in Conns |-> "fresh"] /\ late = [c \in Conns |-> 0]
---------------------------------------------------------------------------
(* The listener.                                                           *)

Handing == {c \in Conns : at[c] = "handed"}

\* TcpListener::bind, then Shutdown::subscribe: changes made before go unseen.
ListenerStarts ==
    /\ listener = "starting"
    /\ \/ listener' = "accepting" /\ seen' = [seen EXCEPT ![Acceptor] = shutdown]
       \/ listener' = "stopped" /\ UNCHANGED seen
    /\ UNCHANGED <<shutdown, main, workers, permits, connections, channel, to_close, short_idle, peer, conn_vars, session_vars>>

\* handle_accept up to the channel.  The select looks at the shutdown first.
handle_accept(c) ==
    /\ listener = "accepting" /\ Handing = {} /\ seen[Acceptor] = shutdown
    /\ at[c] = "arriving" /\ \A d \in Conns : d < c => at[d] # "arriving"
    /\ \/ /\ permits > 0
          /\ permits' = permits - 1
          /\ connections' = connections \cup {c}
          /\ at' = [at EXCEPT ![c] = "handed"]
       \/ \* no permit; or the socket or the TLS handshake failed, and the permit is back
          /\ at' = [at EXCEPT ![c] = "refused"]
          /\ UNCHANGED <<permits, connections>>
    /\ UNCHANGED <<server_vars, listener, channel, to_close, short_idle, peer, conn_vars,
                   pdu, pending, owed, registered, life, late>>

\* connection_tx.send waits for a free place; the accept loop waits with it.
HandOver(c) ==
    /\ at[c] = "handed" /\ Cardinality(channel) < ChannelSize
    /\ channel' = channel \cup {c}
    /\ at' = [at EXCEPT ![c] = "spawned"]
    /\ UNCHANGED <<server_vars, listener, permits, connections, to_close, short_idle, peer, conn_vars,
                   pdu, pending, owed, registered, life, late>>

\* The shutdown branch of Listener::run: leave the loop, list the connections.
ListenerLeaves ==
    /\ listener = "accepting" /\ Handing = {} /\ seen[Acceptor] # shutdown
    /\ listener' = "draining" /\ to_close' = connections
    /\ seen' = [seen EXCEPT ![Acceptor] = shutdown]
    /\ UNCHANGED <<shutdown, main, workers, permits, connections, channel, short_idle, peer, conn_vars, session_vars>>

\* drain_connections: Connection::initiate_close in its two steps, then the end.
initiate_close(c) ==
    /\ listener = "draining" /\ c \in to_close
    /\ \/ ~closing[c] /\ closing' = [closing EXCEPT ![c] = TRUE] /\ UNCHANGED <<state, to_close>>
       \/ /\ closing[c] /\ state' = [state EXCEPT ![c] = "Closed"]
          /\ to_close' = to_close \ {c} /\ UNCHANGED closing
    /\ UNCHANGED <<server_vars, listener, permits, connections, channel, short_idle, peer, system_id, session_vars>>

ListenerStops ==
    /\ listener = "draining" /\ to_close = {}
    /\ listener' = "stopped"
    /\ UNCHANGED <<server_vars, permits, connections, channel, to_close, short_idle, peer, conn_vars, session_vars>>
---------------------------------------------------------------------------
(* A connection's task: handle_accept's spawned block around run_loop.     *)

TaskUnchanged == UNCHANGED <<server_vars, listener, channel, to_close, short_idle, peer, closing>>
GoOn(c, place) == at' = [at EXCEPT ![c] = place] /\ pdu' = [pdu EXCEPT ![c] = NoPdu]

Register(c) ==
    /\ at[c] = "spawned"
    /\ registered' = registered \cup {c} /\ GoOn(c, "loop")
    /\ TaskUnchanged /\ UNCHANGED <<permits, connections, state, system_id, pending, owed, life, late>>

\* The end of run_loop.
Leave(c) == GoOn(c, "left") /\ state' = [state EXCEPT ![c] = "Closed"]

NeverLooks(c) ==
    /\ at[c] = "loop"
    /\ GoOn(c, "select") /\ UNCHANGED state
    /\ TaskUnchanged /\ UNCHANGED <<permits, connections, system_id, pending, owed, registered, life, late>>

\* The top of the loop.
CheckClosing(c) ==
    /\ at[c] = "loop"
    /\ IF closing[c] THEN Leave(c) ELSE GoOn(c, "select") /\ UNCHANGED state
    /\ TaskUnchanged /\ UNCHANGED <<permits, connections, system_id, pending, owed, registered, life, late>>

TakenUp(c) == late' = [late EXCEPT ![c] = IF closing[c] /\ @ < 2 THEN @ + 1 ELSE @]

\* First branch, a PDU: handle_pdu begins by reading the state.
ReceivePdu(c, p) ==
    /\ at[c] = "select" /\ peer[c] = "connected" /\ (p = "submit_sm" => owed[c] < MaxOwed)
    /\ pdu' = [pdu EXCEPT ![c] = [kind |-> p, read |-> state[c]]]
    /\ at' = [at EXCEPT ![c] = "handle"] /\ TakenUp(c)
    /\ TaskUnchanged /\ UNCHANGED <<permits, connections, state, system_id, pending, owed, registered, life>>

\* First branch: the end of the stream, or what the codec cannot decode.
StreamEnds(c) ==
    /\ at[c] = "select" /\ peer[c] # "silent"
    /\ Leave(c)
    /\ TaskUnchanged /\ UNCHANGED <<permits, connections, system_id, pending, owed, registered, life, late>>

\* A write succeeds, or fails because the peer is gone.
Writes(c) == {TRUE} \cup (IF peer[c] = "gone" THEN {FALSE} ELSE {})

\* The request is pending whether or not it could be written.
send_enquire_link(c) ==
    /\ pending' = [pending EXCEPT ![c] = TRUE]
    /\ \E sent \in Writes(c) : IF sent THEN GoOn(c, "loop") /\ UNCHANGED state ELSE Leave(c)

\* First branch, the idle timeout, which starts anew in each round of the loop.
IdleTimeout(c) ==
    /\ at[c] = "select" /\ short_idle
    /\ IF state[c] \in Bound THEN send_enquire_link(c) ELSE Leave(c) /\ UNCHANGED pending
    /\ TaskUnchanged /\ UNCHANGED <<permits, connections, system_id, owed, registered, life, late>>

\* Second branch: the response is written; an error is logged.
handle_async_response(c) ==
    /\ at[c] = "select" /\ owed[c] > 0
    /\ owed' = [owed EXCEPT ![c] = @ - 1]
    /\ GoOn(c, "loop") /\ TakenUp(c)
    /\ TaskUnchanged /\ UNCHANGED <<permits, connections, state, system_id, pending, registered, life>>

\* Third branch, once a second: a request that is pending too long is forgotten.
check_pending_timeouts(c) ==
    /\ at[c] = "select"
    /\ \/ pending' = [pending EXCEPT ![c] = FALSE]
       \/ UNCHANGED pending
    /\ GoOn(c, "loop")
    /\ TaskUnchanged /\ UNCHANGED <<permits, connections, state, system_id, owed, registered, life, late>>

BindInAnyState(c) ==
    /\ at[c] = "handle" /\ pdu[c].kind \in Binds
    /\ system_id' = [system_id EXCEPT ![c] = TRUE]
    /\ life' = [life EXCEPT ![c] = BindOf[pdu[c].kind]]
    /\ state' = [state EXCEPT ![c] = BindOf[pdu[c].kind]] /\ GoOn(c, "loop")
    /\ TaskUnchanged /\ UNCHANGED <<permits, connections, pending, owed, registered, late>>

\* handle_bind_*: the state that counts is the one read before; a bind may undo a close.
\* A response that cannot be written ends the session.
handle_bind(c) ==
    /\ at[c] = "handle" /\ pdu[c].kind \in Binds
    /\ \E sent \in Writes(c), verdict \in BindVerdicts :
          IF pdu[c].read = "Open" /\ verdict = "ok"
            THEN /\ system_id' = [system_id EXCEPT ![c] = TRUE]
                 /\ life' = [life EXCEPT ![c] = BindOf[pdu[c].kind]]
                 /\ IF sent THEN /\ state' = [state EXCEPT ![c] = BindOf[pdu[c].kind]]
                                 /\ GoOn(c, "loop")
                            ELSE Leave(c)
            ELSE /\ UNCHANGED <<system_id, life>>
                 /\ IF sent THEN GoOn(c, "loop") /\ UNCHANGED state ELSE Leave(c)
    /\ TaskUnchanged /\ UNCHANGED <<permits, connections, pending, owed, registered, late>>

\* handle_unbind: Unbinding until the response is written, then Closed; the loop goes on.
handle_unbind(c) ==
    /\ at[c] = "handle" /\ pdu[c].kind = "unbind"
    /\ IF state[c] \in Bound
         THEN /\ life' = [life EXCEPT ![c] = "unbound"]
              /\ state' = [state EXCEPT ![c] = "Unbinding"] /\ GoOn(c, "unbinding")
         ELSE /\ \E sent \in Writes(c) : IF sent THEN GoOn(c, "loop") /\ UNCHANGED state ELSE Leave(c)
              /\ UNCHANGED life
    /\ TaskUnchanged /\ UNCHANGED <<permits, connections, system_id, pending, owed, registered, late>>

Unbound(c) ==
    /\ at[c] = "unbinding"
    /\ \E sent \in Writes(c) :
          IF sent THEN GoOn(c, "loop") /\ state' = [state EXCEPT ![c] = "Closed"] ELSE Leave(c)
    /\ TaskUnchanged /\ UNCHANGED <<permits, connections, system_id, pending, owed, registered, life, late>>

\* handle_submit_sm: the state is read again; the envelope is published, to be answered later.
handle_submit_sm(c) ==
    /\ at[c] = "handle" /\ pdu[c].kind = "submit_sm"
    /\ IF state[c] \in {"BoundTx", "BoundTrx"}
         THEN /\ owed' = [owed EXCEPT ![c] = @ + 1]
              /\ GoOn(c, "loop") /\ UNCHANGED state
         ELSE /\ \E sent \in Writes(c) : IF sent THEN GoOn(c, "loop") /\ UNCHANGED state ELSE Leave(c)
              /\ UNCHANGED owed
    /\ TaskUnchanged /\ UNCHANGED <<permits, connections, system_id, pending, registered, life, late>>

\* A response, in whatever state, settles the request of its sequence number, if there is one.
handle_response(c) ==
    /\ at[c] = "handle" /\ pdu[c].kind = "response"
    /\ \E matches \in BOOLEAN : pending' = [pending EXCEPT ![c] = @ /\ ~matches]
    /\ GoOn(c, "loop")
    /\ TaskUnchanged /\ UNCHANGED <<permits, connections, state, system_id, owed, registered, life, late>>

\* enquire_link, in whatever state, and what is not supported: both are answered.
handle_enquire_link(c) ==
    /\ at[c] = "handle" /\ pdu[c].kind = "other"
    /\ \E sent \in Writes(c) : IF sent THEN GoOn(c, "loop") /\ UNCHANGED state ELSE Leave(c)
    /\ TaskUnchanged /\ UNCHANGED <<permits, connections, system_id, pending, owed, registered, life, late>>

\* The session is dropped, with its pending requests and its response channel.
Unregister(c) ==
    /\ at[c] = "left"
    /\ registered' = registered \ {c} /\ GoOn(c, "unregistered")
    /\ pending' = [pending EXCEPT ![c] = FALSE] /\ owed' = [owed EXCEPT ![c] = 0]
    /\ TaskUnchanged /\ UNCHANGED <<permits, connections, state, system_id, life, late>>

KeepsEntry(c) ==
    /\ at[c] = "unregistered" /\ GoOn(c, "gone")
    /\ TaskUnchanged /\ UNCHANGED <<permits, connections, state, system_id, pending, owed, registered, life, late>>

RemoveFreesPermit(c) ==
    /\ at[c] = "unregistered"
    /\ connections' = connections \ {c} /\ GoOn(c, "gone")
    /\ permits' = permits + 1
    /\ TaskUnchanged /\ UNCHANGED <<state, system_id, pending, owed, registered, life, late>>

\* The task's hold on the connection goes; the permit goes with the last one.
Remove(c) ==
    /\ at[c] = "unregistered"
    /\ connections' = connections \ {c} /\ GoOn(c, "gone")
    /\ permits' = IF c \in channel THEN permits ELSE permits + 1
    /\ TaskUnchanged /\ UNCHANGED <<state, system_id, pending, owed, registered, life, late>>

Session(c) ==
    \/ Register(c) \/ CheckClosing(c)
    \/ \E p \in Pdus : ReceivePdu(c, p)
    \/ StreamEnds(c) \/ IdleTimeout(c) \/ handle_async_response(c) \/ check_pending_timeouts(c)
    \/ handle_bind(c) \/ handle_unbind(c) \/ Unbound(c) \/ handle_submit_sm(c)
    \/ handle_response(c) \/ handle_enquire_link(c)
    \/ Unregister(c) \/ Remove(c)

\* A peer closes its end, or falls silent without closing it.
PeerChanges(c) ==
    /\ peer[c] = "connected" /\ c \in connections
    /\ \E p \in {"silent", "gone"} : peer' = [peer EXCEPT ![c] = p]
    /\ UNCHANGED <<server_vars, listener_vars, short_idle, conn_vars, session_vars>>
---------------------------------------------------------------------------
(* The workers and the server.                                             *)

\* A worker has said that it is ready before it subscribes.
WorkerSubscribes(w) ==
    /\ w \in workers /\ seen[w] = NotYet
    /\ seen' = [seen EXCEPT ![w] = shutdown]
    /\ UNCHANGED <<shutdown, main, workers, listener_vars, short_idle, peer, conn_vars, session_vars>>

ExitsWhenTerminated(w) ==
    /\ w \in workers /\ seen[w] # NotYet /\ shutdown = "Terminated"
    /\ workers' = workers \ {w}
    /\ UNCHANGED <<shutdown, seen, main, listener_vars, short_idle, peer, conn_vars, session_vars>>

WorkerExits(w) ==
    /\ w \in workers /\ seen[w] \notin {NotYet, shutdown}
    /\ workers' = workers \ {w}
    /\ UNCHANGED <<shutdown, seen, main, listener_vars, short_idle, peer, conn_vars, session_vars>>

\* SIGHUP: reload_config with a configuration that loads; nobody counts connections, so it
\* goes straight to joining the workers, and no other signal is waited for meanwhile.
Sighup ==
    /\ main = "signals"
    /\ main' = "reload"
    /\ UNCHANGED <<shutdown, seen, workers, listener_vars, short_idle, peer, conn_vars, session_vars>>

\* SIGTERM, SIGINT: start_drain; the wait for connections to drain finds a count of zero.
Sigterm ==
    /\ main = "signals"
    /\ shutdown' = "Draining" /\ main' = "join"
    /\ UNCHANGED <<seen, workers, listener_vars, short_idle, peer, conn_vars, session_vars>>

\* Workers::shutdown has joined them all.  A shutdown terminates; a reload puts the state in
\* place, starts new workers and waits for signals again.
WorkersJoined ==
    /\ main \in {"reload", "join"} /\ workers = {}
    /\ IF main = "join"
         THEN main' = "stopped" /\ shutdown' = "Terminated" /\ UNCHANGED <<workers, seen>>
         ELSE /\ main' = "signals" /\ workers' = Workers /\ UNCHANGED shutdown
              /\ seen' = [w \in Watchers |-> IF w \in Workers THEN NotYet ELSE seen[w]]
    /\ UNCHANGED <<listener_vars, short_idle, peer, conn_vars, session_vars>>

ListenerStep == ListenerStarts \/ ListenerLeaves \/ ListenerStops \/ \E c \in Conns : initiate_close(c) \/ HandOver(c)
WorkerStep(w) == WorkerSubscribes(w) \/ WorkerExits(w)

Next ==
    /\ main # "stopped"
    /\ \/ ListenerStep
       \/ \E c \in Conns : handle_accept(c) \/ Session(c) \/ PeerChanges(c)
       \/ \E w \in Workers : WorkerStep(w)
       \/ Sighup \/ Sigterm \/ WorkersJoined

Spec == Init /\ [][Next]_vars

Alive == main # "stopped"

\* The runtime polls every task that is ready; a timer that is due fires; writes end.
Fairness ==
    /\ WF_vars(Alive /\ ListenerStep) /\ WF_vars(Alive /\ WorkersJoined)
    /\ \A w \in Workers : WF_vars(Alive /\ WorkerStep(w))
    /\ \A c \in Conns : /\ WF_vars(Alive /\ Session(c))
                        /\ SF_vars(Alive /\ peer[c] = "gone" /\ StreamEnds(c))
                        /\ SF_vars(Alive /\ peer[c] = "silent" /\ IdleTimeout(c))

FairSpec == Spec /\ Fairness
---------------------------------------------------------------------------
TypeOK ==
    /\ shutdown \in {"Running", "Draining", "Terminated"}
    /\ main \in {"signals", "reload", "join", "stopped"}
    /\ listener \in {"starting", "accepting", "draining", "stopped"}
    /\ permits \in 0..MaxConnections
    /\ channel \subseteq Conns /\ to_close \subseteq Conns /\ registered \subseteq Conns
    /\ \A c \in Conns :
          /\ state[c] \in Bound \cup {"Open", "Unbinding", "Closed"}
          /\ life[c] \in Bound \cup {"fresh", "unbound"}
          /\ c \in connections <=> at[c] \notin {"arriving", "refused", "gone"}

\* Once a connection is told to close, its session takes up at most one more PDU or
\* response: the one it may be waiting for, past the check (run_loop, initiate_close).
OneMoreAtMost == \A c \in Conns : late[c] <= 1

\* Every permit is free or held by one connection that the map or the channel still has,
\* on every way in and out of handle_accept and its task: none is lost and none is freed
\* twice, so no more than MaxConnections are ever connected (Connection._permit).
PermitsHeld == permits + Cardinality(connections \cup channel) = MaxConnections

\* A client binds once at most and is never bound again after it unbound; it submits only in
\* between, as a transmitter or transceiver whose system_id is known, whatever closes the
\* connection meanwhile (handle_pdu, handle_bind_*, handle_unbind, handle_submit_sm).
ProtocolOrder ==
    [][\A c \in Conns :
          /\ life'[c] # life[c] => \/ life[c] = "fresh" /\ life'[c] \in Bound
                                   \/ life[c] \in Bound /\ life'[c] = "unbound"
          /\ owed'[c] > owed[c] => life[c] \in {"BoundTx", "BoundTrx"} /\ system_id[c]
          /\ state'[c] = "Unbinding" => life'[c] = "unbound"]_vars

\* A session whose peer is gone, or that is told to close, is unregistered and its connection
\* removed; so is one whose silent peer never bound, if the idle timeout is a second at most
\* (run_loop and the block handle_accept spawns).
SessionsEnd ==
    \A c \in Conns :
        (/\ c \in registered
         /\ \/ peer[c] = "gone" \/ closing[c]
            \/ peer[c] = "silent" /\ short_idle /\ state[c] = "Open" /\ pdu[c] = NoPdu)
        ~> (c \notin connections \/ ~Alive)

\* After a SIGTERM the process stops, provided that the workers subscribed before it came: one
\* that subscribes later waits for a change that only comes once it is joined (Server::run).
TermEnds == (main = "join" /\ \A w \in workers : seen[w] # shutdown /\ seen[w] # NotYet) ~> ~Alive

\* Violated: max_connections is the limit of "concurrent connections", so that a peer finds
\* no permit only while so many are connected.  The channel nobody receives from keeps every
\* connection, and with it the permit that is "released on drop".
LimitIsConcurrent == permits = 0 => Cardinality(connections) = MaxConnections

\* Violated: "Graceful reload sequence: ... 3. Shutdown old workers ... 5. Create new workers
\* 6. Resume accepting connections": a reload ends (Server::reload_config).
ReloadEnds == main = "reload" ~> main = "signals"
=============================================================================
