----------------------------- MODULE EventBus -----------------------------
(***************************************************************************)
(* The event bus (bootstrap/events.rs, Bus): one tokio broadcast channel   *)
(* that every component publishes to and every processor subscribes to.    *)
(*                                                                         *)
(* The channel keeps the last BusCapacity events.  A subscriber that has   *)
(* fallen further behind loses the oldest ones; its next recv answers      *)
(* Lagged, and the one after that goes on with what is left.  Publishing   *)
(* never waits.  Here each subscriber has the events it has still to see,  *)
(* and a mark that it has lost some.                                       *)
(***************************************************************************)
EXTENDS Naturals, Sequences

CONSTANTS Subscribers,   \* the tasks that called subscribe_filtered
          BusCapacity    \* capacity of the broadcast channel

ASSUME BusAssumption == BusCapacity \in Nat \ {0}

VARIABLES queue,         \* events each subscriber has still to receive
          missed         \* it has fallen behind since its last recv

bus_vars == <<queue, missed>>

BusInit == /\ queue = [p \in Subscribers |-> << >>]
           /\ missed = [p \in Subscribers |-> FALSE]

\* The last BusCapacity events of q followed by es.
Keep(q, es) ==
    LET all == q \o es
    IN IF Len(all) > BusCapacity
       THEN SubSeq(all, Len(all) - BusCapacity + 1, Len(all)) ELSE all

\* publish, for each of es in turn, by a task that is at queues q.
PublishFrom(q, es) ==
    /\ queue' = [p \in Subscribers |-> Keep(q[p], es)]
    /\ missed' = [p \in Subscribers |-> missed[p] \/ Len(q[p]) + Len(es) > BusCapacity]

Publish(es) == PublishFrom(queue, es)

\* recv has an event for p.
Receives(p) == ~missed[p] /\ queue[p] # << >>

\* p receives its next event and publishes es while handling it.
Handle(p, es) ==
    /\ Receives(p)
    /\ PublishFrom([queue EXCEPT ![p] = Tail(@)], es)

\* recv answers Lagged: the processor logs it and goes on.
Lagged(p) ==
    /\ missed[p]
    /\ missed' = [missed EXCEPT ![p] = FALSE]
    /\ UNCHANGED queue
===========================================================================
