---------------------------- MODULE MessageLife ----------------------------
(***************************************************************************)
(* What store-and-forward delivery promises about every message it takes,  *)
(* without saying how: no tasks, no retry loop, no queues, no receipts.    *)
(*                                                                         *)
(* A message is taken once.  While it waits it may be put off, given up,   *)
(* lapse, or be handed to a carrier, once, under an identifier no other    *)
(* message carries.  After that it fares as the carrier says, or becomes   *)
(* overdue.  Only what is over is forgotten, and it never comes back.      *)
(*                                                                         *)
(* A message that lapsed before any carrier had it may still be sent by    *)
(* the task that was about to.  Several messages may move in one step.     *)
(***************************************************************************)
CONSTANTS
    MessageIds,   \* the messages clients may send
    SmscIds,      \* the identifiers the carriers give
    NoId,         \* no identifier
    MockId        \* the identifier of a mock cluster, which many may carry

VARIABLES
    life,         \* the phase of each message
    carrier,      \* the identifier it carries
    verdict       \* what became of each identifier's submission

life_vars == <<life, carrier, verdict>>

Unsent == {"waiting", "lapsed"}
WithCarrier == {"in_flight", "overdue"}
Over == {"lapsed", "overdue", "delivered", "failed"}

LifeInit ==
    /\ life = [id \in MessageIds |-> "new"]
    /\ carrier = [id \in MessageIds |-> NoId]
    /\ verdict = [sid \in SmscIds |-> "none"]

\* The message enters the phase and goes on carrying what it carries.
Enters(id, phase) == life'[id] = phase /\ carrier'[id] = carrier[id]

Taken(id) == life[id] = "new" /\ (Enters(id, "waiting") \/ Enters(id, "refused"))

PutOff(id) == life[id] \in Unsent /\ Enters(id, "waiting")

GivenUp(id) == life[id] \in Unsent /\ Enters(id, "failed")

Expires(id) ==
    \/ life[id] = "waiting" /\ Enters(id, "lapsed")
    \/ life[id] = "in_flight" /\ Enters(id, "overdue")

HandedOver(id) ==
    /\ life[id] \in Unsent /\ carrier[id] = NoId
    /\ life'[id] = "in_flight"
    /\ carrier'[id] \in SmscIds \cup {MockId}
    /\ carrier'[id] \in SmscIds => \A i \in MessageIds : carrier[i] # carrier'[id]

Settles(id) ==
    /\ life[id] \in WithCarrier /\ carrier[id] \in SmscIds
    /\ \/ verdict[carrier[id]] = "Delivered" /\ Enters(id, "delivered")
       \/ verdict[carrier[id]] = "Undeliverable" /\ Enters(id, "failed")

Forgotten(id) ==
    /\ life[id] \in Over
    /\ life'[id] = "gone" /\ carrier'[id] = NoId

Lives(id) ==
    \/ Enters(id, life[id])
    \/ Taken(id) \/ PutOff(id) \/ GivenUp(id) \/ Expires(id)
    \/ HandedOver(id) \/ Settles(id) \/ Forgotten(id)

LifeNext ==
    /\ \A id \in MessageIds : Lives(id)
    /\ \A sid \in SmscIds : verdict'[sid] = verdict[sid] \/ verdict[sid] = "none"

LifeSpec == LifeInit /\ [][LifeNext]_life_vars
===========================================================================
