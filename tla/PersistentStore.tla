-------------------------- MODULE PersistentStore --------------------------
(***************************************************************************)
(* The messages of the persistent store, store/persistent.rs: one partition *)
(* maps identifiers to records, a second one lists identifiers by state.    *)
(*                                                                         *)
(* Every access to a partition is atomic and durable against the end of the *)
(* process; nothing makes two of them one.  An operation is therefore a job *)
(* of its caller that takes one step per access, jobs of other callers come *)
(* in between, an access may fail, and a crash abandons all of them.        *)
(*                                                                         *)
(* A record is its state: no other field is used to find it.  The age tests *)
(* of the two sweeps are a free choice.                                     *)
(***************************************************************************)
EXTENDS Naturals, FiniteSets, FiniteSetsExt

CONSTANTS
    Clients,     \* tasks that use the store concurrently
    Sweeper,     \* the one of them that runs run_maintenance
    Marks,       \* the states update's callers move messages to
    MaxId,       \* bound: identifiers handed out
    MaxFaults    \* bound: failed accesses and crashes

ASSUME PersistentAssumption ==
    /\ Sweeper \in Clients
    /\ Marks \subseteq {"InFlight", "Delivered", "Failed", "Expired", "Retrying"}
    /\ MaxId \in Nat /\ MaxFaults \in Nat

VARIABLES
    messages,    \* partition "messages": identifier -> state, or "None"
    by_state,    \* partition "messages_by_state": set of <<state, identifier>>
    counter,     \* MESSAGE_COUNTER
    running,     \* the process runs
    job,         \* what each client has under way
    faults,      \* failed accesses and crashes so far
    torn,        \* history: messages an operation was abandoned on
    raced        \* history: messages two operations worked on at the same time

ps_vars == <<messages, by_state, counter, running, job, faults, torn, raced>>

Ids == 1..MaxId
Terminal == {"Delivered", "Failed", "Expired"}
States == {"Pending", "InFlight", "Retrying"} \cup Terminal

\* A job works on one message, moving it from state old to state new ("None" removes
\* it); at says which access is next, todo holds the messages a sweep has collected.
Job == [at : {"idle", "unindex", "record", "index", "remove"}, id : Ids \cup {0},
        old : States \cup {"None"}, new : States \cup {"None"}, todo : SUBSET Ids]
Idle == [at |-> "idle", id |-> 0, old |-> "None", new |-> "None", todo |-> {}]

Stored(S) == {i \in Ids : messages[i] \in S}

\* The messages client c works on or has collected, and the clients that have message i.
Claimed(c) == IF job[c].at = "idle" THEN {} ELSE {job[c].id} \cup job[c].todo
Busy(i) == {c \in Clients : i \in Claimed(c)}

\* Client c begins work on message i.
Begin(c, at, i, old, new, todo) ==
    /\ job' = [job EXCEPT ![c] = [at |-> at, id |-> i, old |-> old, new |-> new, todo |-> todo]]
    /\ raced' = raced \cup {k \in {i} \cup todo : Busy(k) \ {c} # {}}

Goto(c, at) == job' = [job EXCEPT ![c].at = at]

\* The job on the current message is over: the next one of the sweep, or none.
Finish(c) ==
    LET j == job[c] IN
    IF j.todo = {}
    THEN job' = [job EXCEPT ![c] = Idle] /\ UNCHANGED raced
    ELSE \E i \in j.todo : Begin(c, "unindex", i, j.old, j.new, j.todo \ {i})

open ==
    /\ messages = [i \in Ids |-> "None"]
    /\ by_state = {}
    /\ counter = 1
    /\ running = TRUE
    /\ job = [c \in Clients |-> Idle]
    /\ faults = 0
    /\ torn = {}
    /\ raced = {}
---------------------------------------------------------------------------
(* The operations of Storage *)

\* store of a new message: StoredMessage::new draws the identifier.
StoreNew(c) ==
    /\ running /\ job[c].at = "idle" /\ counter \in Ids
    /\ counter' = counter + 1
    /\ Begin(c, "record", counter, "None", "Pending", {})
    /\ UNCHANGED <<messages, by_state, running, faults, torn>>

UpdateKeepsEntry(c, i, new) ==
    /\ running /\ job[c].at = "idle" /\ messages[i] # "None"
    /\ Begin(c, "record", i, messages[i], new, {})
    /\ UNCHANGED <<messages, by_state, counter, running, faults, torn>>

\* update loads the record and runs f on the copy; f moves it to a state of Marks or
\* leaves its state alone.  The index entry goes first, when the state changes.
UpdateMessage(c, i, new) ==
    /\ running /\ job[c].at = "idle" /\ messages[i] # "None"
    /\ Begin(c, IF new # messages[i] THEN "unindex" ELSE "record", i, messages[i], new, {})
    /\ UNCHANGED <<messages, by_state, counter, running, faults, torn>>

\* delete loads the record to learn its state.
DeleteMessage(c, i) ==
    /\ running /\ job[c].at = "idle" /\ messages[i] # "None"
    /\ Begin(c, "unindex", i, messages[i], "None", {})
    /\ UNCHANGED <<messages, by_state, counter, running, faults, torn>>

\* expire_old: the pending messages that are old enough become Expired, one by one.
ExpireOld(c, S) ==
    /\ running /\ job[c].at = "idle" /\ S # {} /\ S \subseteq Stored({"Pending"})
    /\ \E i \in S : Begin(c, "unindex", i, "Pending", "Expired", S \ {i})
    /\ UNCHANGED <<messages, by_state, counter, running, faults, torn>>

\* prune_terminal collects the terminal messages that are old enough, with the state
\* each of them has (the sets of different states are sweeps of their own), then
\* deletes them one by one.
PruneTerminal(c, s, S) ==
    /\ running /\ job[c].at = "idle" /\ S # {} /\ S \subseteq Stored({s})
    /\ \E i \in S : Begin(c, "unindex", i, s, "None", S \ {i})
    /\ UNCHANGED <<messages, by_state, counter, running, faults, torn>>
---------------------------------------------------------------------------
(* The accesses they are made of *)

\* remove_state_index, whose error is dropped.
RemoveStateIndex(c) ==
    LET j == job[c] IN
    /\ running /\ j.at = "unindex"
    /\ by_state' = by_state \ {<<j.old, j.id>>}
    /\ Goto(c, IF j.new = "None" THEN "remove" ELSE "record")
    /\ UNCHANGED <<messages, counter, running, faults, torn, raced>>

RecordAlone(c) ==
    LET j == job[c] IN
    /\ running /\ j.at = "record"
    /\ messages' = [messages EXCEPT ![j.id] = j.new]
    /\ Finish(c)
    /\ UNCHANGED <<by_state, counter, running, faults, torn>>

\* persist_message, first insert: the record.
InsertRecord(c) ==
    LET j == job[c] IN
    /\ running /\ j.at = "record"
    /\ messages' = [messages EXCEPT ![j.id] = j.new]
    /\ Goto(c, "index")
    /\ UNCHANGED <<by_state, counter, running, faults, torn, raced>>

\* persist_message, second insert: the entry of its state.
InsertIndex(c) ==
    LET j == job[c] IN
    /\ running /\ j.at = "index"
    /\ by_state' = by_state \cup {<<j.new, j.id>>}
    /\ Finish(c)
    /\ UNCHANGED <<messages, counter, running, faults, torn>>

\* delete and prune_terminal remove the record last.
RemoveRecord(c) ==
    LET j == job[c] IN
    /\ running /\ j.at = "remove"
    /\ messages' = [messages EXCEPT ![j.id] = "None"]
    /\ Finish(c)
    /\ UNCHANGED <<by_state, counter, running, faults, torn>>

\* An access fails: store and update log it and return, a sweep goes on with its next
\* message, delete answers false.  What was done before it stays done.  Nobody hears of an
\* entry that could not be removed.
AccessFails(c) ==
    LET j == job[c] IN
    /\ running /\ j.at # "idle" /\ faults < MaxFaults
    /\ faults' = faults + 1
    /\ torn' = torn \cup {j.id}
    /\ IF j.at = "unindex"
         THEN Goto(c, IF j.new = "None" THEN "remove" ELSE "record") /\ UNCHANGED raced
         ELSE Finish(c)
    /\ UNCHANGED <<messages, by_state, counter, running>>

\* The process ends with whatever is under way.
Crash ==
    /\ running /\ faults < MaxFaults
    /\ faults' = faults + 1
    /\ running' = FALSE
    /\ torn' = torn \cup UNION {Claimed(c) : c \in Clients}
    /\ job' = [c \in Clients |-> Idle]
    /\ UNCHANGED <<messages, by_state, counter, raced>>

RecoverToHighest ==
    /\ ~running
    /\ running' = TRUE
    /\ counter' = Max(Stored(States) \cup {0})
    /\ UNCHANGED <<messages, by_state, job, faults, torn, raced>>

\* open again: recover_counters continues after the highest identifier on disk.
Recover ==
    /\ ~running
    /\ running' = TRUE
    /\ counter' = Max(Stored(States) \cup {0}) + 1
    /\ UNCHANGED <<messages, by_state, job, faults, torn, raced>>

ClientNext(c) ==
    \/ StoreNew(c)
    \/ \E i \in Ids : \/ \E new \in Marks \cup ({messages[i]} \ {"None"}) : UpdateMessage(c, i, new)
                      \/ DeleteMessage(c, i)

run_maintenance(c) ==
    \E S \in SUBSET Ids : ExpireOld(c, S) \/ \E s \in Terminal : PruneTerminal(c, s, S)

Access(c) ==
    \/ RemoveStateIndex(c) \/ InsertRecord(c) \/ InsertIndex(c) \/ RemoveRecord(c)
    \/ AccessFails(c)

PersistentNext ==
    \/ Crash \/ Recover
    \/ run_maintenance(Sweeper)
    \/ \E c \in Clients \ {Sweeper} : ClientNext(c)
    \/ \E c \in Clients : Access(c)

PersistentSpec == open /\ [][PersistentNext]_ps_vars
---------------------------------------------------------------------------
(* The queries *)

\* get_by_state follows the index and returns what it finds, whatever state that is in.
get_by_state(s) == {i \in Ids : <<s, i>> \in by_state /\ messages[i] # "None"}

\* get_recoverable_messages: what a restarted process would take up again.
get_recoverable_messages == UNION {get_by_state(s) : s \in {"Pending", "InFlight", "Retrying"}}
---------------------------------------------------------------------------
PersistentTypeOK ==
    /\ messages \in [Ids -> States \cup {"None"}]
    /\ by_state \subseteq States \X Ids
    /\ counter \in 1..(MaxId + 1)
    /\ running \in BOOLEAN
    /\ job \in [Clients -> Job]
    /\ faults \in 0..MaxFaults
    /\ torn \subseteq Ids
    /\ raced \subseteq Ids

\* No message is lost to the queries by state: a record has its entry unless some client
\* is between the two accesses that will settle it, or an operation on it was abandoned
\* by a failed access or a crash.  This holds although clients change and delete the same
\* message at the same time (update, delete, expire_old, prune_terminal).
FoundByState ==
    \A i \in Stored(States) \ torn :
        \/ <<messages[i], i>> \in by_state
        \/ \E c \in Clients :
               /\ job[c].id = i
               /\ \/ job[c].at = "index" /\ job[c].new = messages[i]
                  \/ job[c].at \in {"record", "remove"} /\ job[c].old = messages[i]

\* The index is exact for a message nothing is being done to, unless an operation on it
\* was abandoned or two ever met on it: it is then listed under its state and no other,
\* and not at all once deleted.
ExactAtRest ==
    \A i \in Ids \ (torn \cup raced) :
        Busy(i) = {} => {s \in States : <<s, i>> \in by_state} = {messages[i]} \ {"None"}

\* An identifier that is handed out, also after a restart, names no stored message:
\* persist_message of a new message never overwrites one (recover_counters).
IdentifiersFresh ==
    \A c \in Clients :
        (job[c].at = "record" /\ job[c].old = "None") => messages[job[c].id] = "None"

\* A restarted process would take up every message that is not terminal, apart from those
\* an operation was abandoned on (get_recoverable_messages).
RecoversAll ==
    ~running => Stored(States \ Terminal) \ torn \subseteq get_recoverable_messages

\* Through concurrent operations, failed accesses, crashes and restarts, no message is lost
\* to the queries or to recovery, none is listed where it is not, none is overwritten, with
\* the exceptions each part names.
StoreIndexHolds == FoundByState /\ ExactAtRest /\ IdentifiersFresh /\ RecoversAll
===========================================================================
