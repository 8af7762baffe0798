--------------------------- MODULE MessageStore ---------------------------
(***************************************************************************)
(* The life of a stored message (store/types.rs, StoredMessage) and the    *)
(* in-memory store that keeps it (store/memory.rs, MemoryStorage).         *)
(*                                                                         *)
(* Every operation of the store runs under the write lock of `messages`    *)
(* and is one atomic step; callers that read a message and update it later *)
(* do so in two steps.  The definitions here are those steps: the modules  *)
(* that extend this one put them into their actions.                       *)
(*                                                                         *)
(* A message keeps what decisions read: its state, the attempts counter,   *)
(* the identifier the SMSC gave it, whether retry_at has come and whether  *)
(* created_at is older than the time to live.  Texts, error codes and the  *)
(* event history are left out.  The memory estimate is a free choice at    *)
(* each store: at the memory limit or not.                                 *)
(***************************************************************************)
EXTENDS Naturals, FiniteSets

CONSTANTS
    MessageIds,     \* identifiers MessageId::new may draw
    SmscIds,        \* identifiers the upstream SMSCs may assign
    NoId,           \* smsc_message_id = None
    MockId,         \* the synthetic identifier of a mock cluster
    NoMessage,      \* an identifier with no message in the store
    MaxMessages,    \* MemoryStoreConfig.max_messages
    PrunePercent,   \* MemoryStoreConfig.prune_percent
    MaxAttempts     \* StoredMessage.max_attempts

MessageState == {"Pending", "InFlight", "Delivered", "Failed", "Expired", "Retrying"}

StoredMessage == [state    : MessageState,
                  attempts : Nat,
                  smsc     : SmscIds \cup {NoId, MockId},
                  due      : BOOLEAN,      \* retry_at <= now
                  old      : BOOLEAN]      \* created_at.elapsed() > ttl

ASSUME StoreAssumption ==
    /\ NoId \notin SmscIds /\ MockId \notin SmscIds /\ NoId # MockId
    /\ NoMessage \notin StoredMessage
    /\ MaxMessages \in Nat /\ PrunePercent \in 0..100
    /\ MaxAttempts \in Nat \ {0}

VARIABLES
    messages,       \* MemoryStorage.messages
    retry_queue     \* MemoryStorage.retry_queue, kept free of duplicates by its tests

store_vars == <<messages, retry_queue>>

StoreInit ==
    /\ messages = [id \in MessageIds |-> NoMessage]
    /\ retry_queue = {}
---------------------------------------------------------------------------
(* StoredMessage *)

is_terminal(s) == s \in {"Delivered", "Failed", "Expired"}

NewMessage == [state |-> "Pending", attempts |-> 0, smsc |-> NoId, due |-> FALSE, old |-> FALSE]

is_expired(m) == m.old

can_retry(m) == m.attempts < MaxAttempts /\ ~is_expired(m)

mark_in_flight(m) == [m EXCEPT !.state = "InFlight", !.attempts = @ + 1]

InFlightWithoutId(m, sid) == mark_in_flight(m)

\* The forwarders' update closure: smsc_message_id = Some(sid), then mark_in_flight.
InFlightAs(m, sid) == mark_in_flight([m EXCEPT !.smsc = sid])

mark_failed(m) == [m EXCEPT !.state = "Failed"]

mark_expired(m) == [m EXCEPT !.state = "Expired"]

RetryReturnsAttempt(m) == [m EXCEPT !.state = "Retrying", !.due = FALSE, !.attempts = @ - 1]

\* Every retry delay is positive, so retry_at lies ahead.
mark_retry(m) == [m EXCEPT !.state = "Retrying", !.due = FALSE]
---------------------------------------------------------------------------
(* MemoryStorage *)

Stored == {id \in MessageIds : messages[id] # NoMessage}

InState(s) == {id \in Stored : messages[id].state = s}

TerminalIds == {id \in Stored : is_terminal(messages[id].state)}

PruneAnything == SUBSET Stored

PruneCount ==
    LET n == (Cardinality(Stored) * PrunePercent) \div 100 IN IF n = 0 THEN 1 ELSE n

\* prune_if_needed: the sets of messages a store() may evict.  At the message limit, or
\* at the memory limit whenever the estimate says so, the PruneCount terminal messages
\* updated longest ago go; with fewer terminal messages than that, all of them.
Evictable ==
    LET n == IF PruneCount < Cardinality(TerminalIds) THEN PruneCount
                                                      ELSE Cardinality(TerminalIds)
        full == {S \in SUBSET TerminalIds : Cardinality(S) = n}
    IN IF Cardinality(Stored) >= MaxMessages THEN full ELSE full \cup {{}}

\* store: evict if needed, then insert whether or not anything was evicted.
Store(id) ==
    /\ \E evicted \in Evictable :
          messages' = [i \in MessageIds |-> IF i = id THEN NewMessage
                                            ELSE IF i \in evicted THEN NoMessage
                                            ELSE messages[i]]
    /\ UNCHANGED retry_queue

UpdateForgetsQueue(id, m) ==
    /\ messages' = IF messages[id] = NoMessage THEN messages
                   ELSE [messages EXCEPT ![id] = m]
    /\ UNCHANGED retry_queue

\* update: replace message id by m, which the caller's closure computes from it, and
\* keep retry_queue in step when the state changed.  No such message: nothing happens.
Update(id, m) ==
    IF messages[id] = NoMessage THEN UNCHANGED store_vars
    ELSE /\ messages' = [messages EXCEPT ![id] = m]
         /\ retry_queue' = IF m.state = messages[id].state THEN retry_queue
                           ELSE IF m.state = "Retrying" THEN retry_queue \cup {id}
                           ELSE retry_queue \ {id}

get_ready_for_retry == {id \in InState("Retrying") : messages[id].due}

ExpirePendingOnly ==
    /\ messages' = [id \in MessageIds |->
                        IF id \in InState("Pending") /\ is_expired(messages[id])
                        THEN mark_expired(messages[id]) ELSE messages[id]]
    /\ UNCHANGED retry_queue

ExpireTerminalToo ==
    /\ messages' = [id \in MessageIds |->
                        IF id \in Stored /\ is_expired(messages[id])
                        THEN mark_expired(messages[id]) ELSE messages[id]]
    /\ UNCHANGED retry_queue

\* expire_old, called with the messages' own time to live: every message that is not
\* terminal and too old expires.  retry_queue is not told.
ExpireOld ==
    /\ messages' = [id \in MessageIds |->
                        IF id \in Stored \ TerminalIds /\ is_expired(messages[id])
                        THEN mark_expired(messages[id]) ELSE messages[id]]
    /\ UNCHANGED retry_queue

\* prune_terminal: the terminal messages not updated for the pruning age are removed,
\* whichever those are.  retry_queue is not told.
PruneTerminal ==
    /\ \E pruned \in SUBSET TerminalIds :
          messages' = [id \in MessageIds |-> IF id \in pruned THEN NoMessage ELSE messages[id]]
    /\ UNCHANGED retry_queue
---------------------------------------------------------------------------
\* Time: a stored message outlives its time to live, and a retry instant comes.
Ages(id) ==
    /\ id \in Stored /\ ~messages[id].old
    /\ messages' = [messages EXCEPT ![id] = [messages[id] EXCEPT !.old = TRUE]]
    /\ UNCHANGED retry_queue

RetryComesDue(id) ==
    /\ id \in InState("Retrying") /\ ~messages[id].due
    /\ messages' = [messages EXCEPT ![id] = [messages[id] EXCEPT !.due = TRUE]]
    /\ UNCHANGED retry_queue

StoreTypeOK ==
    /\ messages \in [MessageIds -> StoredMessage \cup {NoMessage}]
    /\ retry_queue \subseteq MessageIds
===========================================================================
