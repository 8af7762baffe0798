----------------------- MODULE PersistentStoreProofs -----------------------
(***************************************************************************)
(* Proofs about PersistentStore, for any clients, marks, identifiers and   *)
(* faults.                                                                 *)
(***************************************************************************)
EXTENDS PersistentStore, WellFoundedInduction, TLAPS

\* A job under way works on a message, which it does not also have on its list; before it
\* removes an entry it knows one to remove, and what it writes is another state.  While the
\* process is down there are no jobs.
JobsMakeSense ==
    /\ ~running => \A c \in Clients : job[c] = Idle
    /\ \A c \in Clients : job[c].at # "idle" =>
          /\ job[c].id \in Ids /\ job[c].id \notin job[c].todo
          /\ job[c].todo # {} \/ job[c].at = "unindex" =>
                job[c].old \in States /\ job[c].new # job[c].old
          /\ job[c].at \in {"record", "index"} => job[c].new \in States
          /\ job[c].at = "remove" => job[c].old \in States

\* The identifiers from the counter on are unused while the process runs: no message has
\* one and no job either.
CounterAhead ==
    running => /\ \A i \in Ids : messages[i] # "None" => i < counter
               /\ \A c \in Clients : \A i \in Claimed(c) : i < counter

\* The identifier of a message that is being stored for the first time is nobody else's.
NewOnesAlone ==
    \A c \in Clients : job[c].at = "record" /\ job[c].old = "None" =>
        /\ messages[job[c].id] = "None"
        /\ \A d \in Clients : job[c].id \in Claimed(d) => d = c

\* Message i is listed under the states of S and no others.
ListedUnder(i, S) == \A s \in States : <<s, i>> \in by_state <=> s \in S

\* How the one job that works on a message has left it: its record, and its entries.
Halfway(c) ==
    LET j == job[c] IN
    /\ messages[j.id] = IF j.at = "index" THEN j.new ELSE j.old
    /\ j.at = "unindex" => ListedUnder(j.id, {j.old})
    /\ j.at = "record" => ListedUnder(j.id, {j.old} \cap {j.new})
    /\ j.at = "index" => \A s \in States : <<s, j.id>> \in by_state => s = j.new
    /\ j.at = "remove" => ListedUnder(j.id, {})

\* A message that no operation was abandoned on and no two have met on has one job at most,
\* and is exactly as that job has left it.
Undisturbed ==
    \A i \in Ids \ (torn \cup raced) :
        /\ \A c, d \in Clients : i \in Claimed(c) /\ i \in Claimed(d) => c = d
        /\ (\A c \in Clients : i \notin Claimed(c)) => ListedUnder(i, {messages[i]})
        /\ \A c \in Clients : i \in Claimed(c) =>
              IF i = job[c].id THEN Halfway(c)
              ELSE messages[i] = job[c].old /\ ListedUnder(i, {messages[i]})

PersistentInv ==
    PersistentTypeOK /\ JobsMakeSense /\ CounterAhead /\ NewOnesAlone /\ FoundByState /\ Undisturbed
---------------------------------------------------------------------------
(* The counter after a restart *)

\* A set of identifiers that is not empty has a highest one, which Max is.
LEMMA HasMax ==
    ASSUME NEW n \in Nat, NEW S \in SUBSET (0..n), S # {}
    PROVE  Max(S) \in S /\ \A y \in S : y <= Max(S)
  <1> DEFINE T == {k \in Nat : \A y \in S : y <= k}
             R == OpToRel(<, Nat)
  <1>1. T \subseteq Nat /\ n \in T  OBVIOUS
  <1>2. \E m \in T : \A k \in T : <<k, m>> \notin R
    <2>1. IsWellFoundedOn(R, Nat)  BY NatLessThanWellFounded
    <2> HIDE DEF T, R
    <2>2. QED  BY <1>1, <2>1, WFMin
  <1>3. PICK m \in T : \A k \in T : <<k, m>> \notin R  BY <1>2
  <1>4. \A k \in T : ~(k < m)  BY <1>3 DEF OpToRel
  <1>5. m \in Nat /\ \A y \in S : y <= m  BY <1>3
  <1> HIDE DEF R
  <1>6. m \in S
    <2> SUFFICES ASSUME m \notin S PROVE FALSE  OBVIOUS
    <2>0. \A y \in S : y \in Nat /\ y # m  OBVIOUS
    <2>1. \A y \in S : y < m  BY <2>0, <1>5
    <2>2. m > 0 /\ m - 1 \in Nat
      <3>1. PICK y \in S : TRUE  OBVIOUS
      <3>2. y \in Nat /\ y < m  BY <2>0, <2>1
      <3>3. QED  BY <1>5, <3>2
    <2>3. m - 1 \in T
      <3>1. \A y \in S : y <= m - 1  BY <2>0, <2>1, <1>5
      <3>2. QED  BY <2>2, <3>1
    <2>4. QED  BY <2>2, <2>3, <1>4
  <1>7. \A y \in S : m >= y  BY <1>5
  <1>8. QED  BY <1>6, <1>7 DEF Max
---------------------------------------------------------------------------
(* The initial state *)

\* A new store is empty.
LEMMA OpenInv == open => PersistentInv
  <1> SUFFICES ASSUME open PROVE PersistentInv
    OBVIOUS
  <1>1. Idle \in Job  BY DEF Idle, Job
  <1>2. PersistentTypeOK
    BY <1>1, PersistentAssumption DEF open, PersistentTypeOK, Ids
  <1>3. \A c \in Clients : Claimed(c) = {}  BY DEF open, Idle, Claimed
  <1>4. JobsMakeSense /\ CounterAhead /\ NewOnesAlone
    BY <1>3 DEF open, Idle, JobsMakeSense, CounterAhead, NewOnesAlone
  <1>5. FoundByState  BY DEF open, FoundByState, Stored, States, Terminal
  <1>6. Undisturbed  BY <1>3 DEF open, Undisturbed, ListedUnder, States, Terminal
  <1>7. QED  BY <1>2, <1>4, <1>5, <1>6 DEF PersistentInv
---------------------------------------------------------------------------
(* What a caller takes on *)

\* A caller that begins has the message it works on and the ones on its list.
LEMMA BeginClaims ==
    ASSUME PersistentTypeOK, NEW c \in Clients, NEW at, at # "idle", NEW i, NEW old, NEW new,
           NEW todo, Begin(c, at, i, old, new, todo)
    PROVE  /\ job'[c] = [at |-> at, id |-> i, old |-> old, new |-> new, todo |-> todo]
           /\ \A d \in Clients : d # c => job'[d] = job[d]
           /\ Claimed(c)' = {i} \cup todo
           /\ \A d \in Clients : d # c => Claimed(d)' = Claimed(d)
  BY DEF PersistentTypeOK, Begin, Claimed

\* One that has finished with a message is left with its list.
LEMMA FinishClaims ==
    ASSUME PersistentTypeOK, NEW c \in Clients, job[c].at # "idle", Finish(c)
    PROVE  /\ \/ job[c].todo = {} /\ job'[c] = Idle /\ raced' = raced
              \/ \E i \in job[c].todo :
                    /\ job'[c] = [at |-> "unindex", id |-> i, old |-> job[c].old,
                                  new |-> job[c].new, todo |-> job[c].todo \ {i}]
                    /\ raced' = raced \cup {k \in {i} \cup (job[c].todo \ {i}) : Busy(k) \ {c} # {}}
           /\ \A d \in Clients : d # c => job'[d] = job[d]
           /\ Claimed(c)' = job[c].todo
           /\ \A d \in Clients : d # c => Claimed(d)' = Claimed(d)
           /\ raced \subseteq raced'
  <1>1. CASE job[c].todo = {}
    BY <1>1 DEF PersistentTypeOK, Finish, Idle, Claimed
  <1>2. CASE job[c].todo # {}
    <2>1. PICK i \in job[c].todo :
             Begin(c, "unindex", i, job[c].old, job[c].new, job[c].todo \ {i})
      BY <1>2 DEF Finish
    <2>2. /\ job'[c] = [at |-> "unindex", id |-> i, old |-> job[c].old,
                        new |-> job[c].new, todo |-> job[c].todo \ {i}]
          /\ \A d \in Clients : d # c => job'[d] = job[d]
          /\ Claimed(c)' = {i} \cup (job[c].todo \ {i})
          /\ \A d \in Clients : d # c => Claimed(d)' = Claimed(d)
      BY <2>1, BeginClaims
    <2>3. Claimed(c)' = job[c].todo  BY <2>2
    <2>4. /\ raced' = raced \cup {k \in {i} \cup (job[c].todo \ {i}) : Busy(k) \ {c} # {}}
          /\ raced \subseteq raced'
      BY <2>1 DEF Begin
    <2>5. QED  BY <2>2, <2>3, <2>4
  <1>3. QED  BY <1>1, <1>2
---------------------------------------------------------------------------
(* Operations begin *)

\* An operation that begins on stored messages as it found them, or on a new identifier,
\* keeps the invariant: whomever it meets there, the message counts as raced.
LEMMA BeginKeeps ==
    ASSUME PersistentInv, NEW c \in Clients, running, job[c].at = "idle",
           NEW at \in {"unindex", "record"}, NEW i \in Ids, NEW old \in States \cup {"None"},
           NEW new \in States \cup {"None"}, NEW todo \in SUBSET Ids, i \notin todo,
           \A k \in {i} \cup todo : messages[k] = old,
           at = "unindex" => old \in States /\ new # old,
           at = "record" => todo = {} /\ new \in States /\ (old = new \/ old = "None"),
           IF old = "None" THEN i = counter /\ counter' = counter + 1 ELSE counter' = counter,
           Begin(c, at, i, old, new, todo), UNCHANGED <<messages, by_state, running, faults, torn>>
    PROVE  PersistentInv'
  <1> USE DEF PersistentInv
  <1> DEFINE j == [at |-> at, id |-> i, old |-> old, new |-> new, todo |-> todo]
  <1>1. /\ job'[c] = j
        /\ \A d \in Clients : d # c => job'[d] = job[d]
        /\ Claimed(c)' = {i} \cup todo
        /\ \A d \in Clients : d # c => Claimed(d)' = Claimed(d)
    BY BeginClaims
  <1>2. j \in Job  BY DEF Job
  <1>3. raced' = raced \cup {k \in {i} \cup todo : Busy(k) \ {c} # {}}  BY DEF Begin
  <1>4. Claimed(c) = {}  BY DEF Claimed
  <1>5. counter \in Nat /\ counter' \in 1..(MaxId + 1) /\ counter <= counter'
    BY PersistentAssumption DEF PersistentTypeOK, Ids
  <1>6. \A k \in {i} \cup todo : k < counter'
    <2>1. CASE old = "None"
      <3>1. at = "record" /\ todo = {}  BY <2>1 DEF States, Terminal
      <3>2. QED  BY <2>1, <3>1, <1>5
    <2>2. CASE old # "None"  BY <2>2, <1>5 DEF CounterAhead
    <2>3. QED  BY <2>1, <2>2
  <1>7. PersistentTypeOK'
    <2>1. job' \in [Clients -> Job]  BY <1>2 DEF Begin, PersistentTypeOK
    <2>2. raced' \subseteq Ids  BY <1>3 DEF PersistentTypeOK
    <2>3. QED  BY <1>5, <2>1, <2>2 DEF PersistentTypeOK
  <1>8. JobsMakeSense'
    BY <1>1 DEF JobsMakeSense
  <1>9. CounterAhead'
    <2>1. \A k \in Ids : messages'[k] # "None" => k < counter'
      BY <1>5 DEF CounterAhead, Ids
    <2>2. ASSUME NEW d \in Clients, NEW k \in Claimed(d)' PROVE k < counter'
      <3>1. CASE d = c  BY <1>1, <1>6, <2>2, <3>1
      <3>2. CASE d # c
        <4>1. k \in Claimed(d)  BY <1>1, <2>2, <3>2
        <4>2. d \in Clients /\ k \in Ids
          BY <4>1 DEF Claimed, JobsMakeSense, PersistentTypeOK, Job
        <4>3. QED  BY <1>5, <4>1, <4>2 DEF CounterAhead, Ids
      <3>3. QED  BY <3>1, <3>2
    <2>3. QED  BY <2>1, <2>2 DEF CounterAhead
  <1>10. NewOnesAlone'
    <2> SUFFICES ASSUME NEW d \in Clients, job'[d].at = "record", job'[d].old = "None"
                 PROVE  /\ messages'[job'[d].id] = "None"
                        /\ \A e \in Clients : job'[d].id \in Claimed(e)' => e = d
      BY DEF NewOnesAlone
    <2>1. CASE d = c
      <3>1. old = "None" /\ i = counter /\ job'[d].id = i  BY <1>1, <2>1
      <3>2. \A e \in Clients : i \in Claimed(e)' => e = d
        BY <1>1, <1>5, <2>1, <3>1 DEF CounterAhead
      <3>3. QED  BY <3>1, <3>2
    <2>2. CASE d # c
      <3>1. job'[d] = job[d] /\ messages[job[d].id] = "None"  BY <1>1, <2>2 DEF NewOnesAlone
      <3>2. job[d].id \in Claimed(d)  BY <1>1, <2>2 DEF Claimed
      <3>3. job[d].id \notin {i} \cup todo
        <4>1. CASE old = "None"
          <5>1. todo = {} /\ i = counter  BY <4>1 DEF States, Terminal
          <5>2. job[d].id < counter  BY <3>2 DEF CounterAhead
          <5>3. QED  BY <1>5, <5>1, <5>2
        <4>2. CASE old # "None"  BY <3>1, <4>2
        <4>3. QED  BY <4>1, <4>2
      <3>4. QED  BY <1>1, <3>1, <3>3 DEF NewOnesAlone
    <2>3. QED  BY <2>1, <2>2
  <1>11. FoundByState'
    BY <1>1 DEF FoundByState, Stored
  <1>12. Undisturbed'
    <2> SUFFICES ASSUME NEW k \in Ids, k \notin torn, k \notin raced'
                 PROVE  /\ \A d, e \in Clients : k \in Claimed(d)' /\ k \in Claimed(e)' => d = e
                        /\ (\A d \in Clients : k \notin Claimed(d)') => ListedUnder(k, {messages[k]})'
                        /\ \A d \in Clients : k \in Claimed(d)' =>
                              IF k = job'[d].id THEN Halfway(d)'
                              ELSE messages'[k] = job'[d].old /\ ListedUnder(k, {messages[k]})'
      BY DEF Undisturbed
    <2>1. k \notin raced  BY <1>3
    <2>2. CASE k \in {i} \cup todo
      <3>1. \A d \in Clients : d # c => k \notin Claimed(d)  BY <1>3, <2>2 DEF Busy
      <3>2. \A d \in Clients : k \notin Claimed(d)  BY <1>4, <3>1
      <3>3. ListedUnder(k, {messages[k]}) /\ messages[k] = old  BY <2>1, <2>2, <3>2 DEF Undisturbed
      <3>4. \A d \in Clients : k \in Claimed(d)' => d = c  BY <1>1, <3>1
      <3>5. ASSUME NEW d \in Clients, k \in Claimed(d)'
            PROVE  IF k = job'[d].id THEN Halfway(d)'
                   ELSE messages'[k] = job'[d].old /\ ListedUnder(k, {messages[k]})'
        <4>1. job'[d] = j  BY <1>1, <3>4, <3>5
        <4>2. k = i => messages'[i] = old /\ ListedUnder(i, {old})'  BY <3>3 DEF ListedUnder
        <4>3. k = i => (at = "record" => ListedUnder(i, {old} \cap {new})')
          BY <4>2 DEF ListedUnder, States, Terminal
        <4>4. k = i => Halfway(d)'
          BY <4>1, <4>2, <4>3 DEF Halfway
        <4>5. k # i => messages'[k] = job'[d].old /\ ListedUnder(k, {messages[k]})'
          BY <4>1, <3>3 DEF ListedUnder
        <4>6. QED  BY <4>1, <4>4, <4>5
      <3>6. QED  BY <1>1, <2>2, <3>4, <3>5
    <2>3. CASE k \notin {i} \cup todo
      <3>1. \A d \in Clients : k \in Claimed(d)' <=> k \in Claimed(d)  BY <1>1, <1>4, <2>3
      <3>2. ListedUnder(k, {messages[k]})' <=> ListedUnder(k, {messages[k]})
        BY DEF ListedUnder
      <3>3. ASSUME NEW d \in Clients, k \in Claimed(d)'
            PROVE  IF k = job'[d].id THEN Halfway(d)'
                   ELSE messages'[k] = job'[d].old /\ ListedUnder(k, {messages[k]})'
        <4>1. k \in Claimed(d) /\ job'[d] = job[d]  BY <1>1, <1>4, <3>1, <3>3
        <4>2. Halfway(d)' <=> Halfway(d)  BY <4>1 DEF Halfway, ListedUnder
        <4>3. QED  BY <2>1, <3>2, <4>1, <4>2 DEF Undisturbed
      <3>4. QED  BY <2>1, <3>1, <3>2, <3>3 DEF Undisturbed
    <2>4. QED  BY <2>2, <2>3
  <1>13. QED  BY <1>7, <1>8, <1>9, <1>10, <1>11, <1>12

\* store, update and delete begin that way.
LEMMA ClientKeeps ==
    ASSUME PersistentInv, NEW c \in Clients, ClientNext(c)
    PROVE  PersistentInv'
  <1> USE DEF PersistentInv
  <1>1. CASE StoreNew(c)
    <2>1. messages[counter] = "None"
      BY <1>1, PersistentAssumption DEF StoreNew, PersistentTypeOK, CounterAhead, Ids
    <2>2. QED
      BY <1>1, <2>1, BeginKeeps DEF StoreNew, States
  <1>2. ASSUME NEW i \in Ids, NEW new \in Marks \cup ({messages[i]} \ {"None"}),
               UpdateMessage(c, i, new)
        PROVE  PersistentInv'
    <2>1. messages[i] \in States /\ new \in States /\ "None" \notin States
      BY <1>2, PersistentAssumption DEF UpdateMessage, PersistentTypeOK, States, Terminal
    <2>2. CASE new = messages[i]
      <3>1. Begin(c, "record", i, messages[i], new, {})  BY <1>2, <2>2 DEF UpdateMessage
      <3>2. QED  BY <1>2, <2>1, <2>2, <3>1, BeginKeeps DEF UpdateMessage
    <2>3. CASE new # messages[i]
      <3>1. Begin(c, "unindex", i, messages[i], new, {})  BY <1>2, <2>3 DEF UpdateMessage
      <3>2. QED  BY <1>2, <2>1, <2>3, <3>1, BeginKeeps DEF UpdateMessage
    <2>4. QED  BY <2>2, <2>3
  <1>3. ASSUME NEW i \in Ids, DeleteMessage(c, i) PROVE PersistentInv'
    <2>1. messages[i] \in States /\ "None" \notin States
      BY <1>3 DEF DeleteMessage, PersistentTypeOK, States, Terminal
    <2>2. QED  BY <1>3, <2>1, BeginKeeps DEF DeleteMessage
  <1>4. QED  BY <1>1, <1>2, <1>3 DEF ClientNext

\* So do the sweeps, on the messages they have collected.
LEMMA SweepKeeps ==
    ASSUME PersistentInv, run_maintenance(Sweeper)
    PROVE  PersistentInv'
  <1> USE DEF PersistentInv
  <1>1. ASSUME NEW s \in States, NEW new \in {"Expired", "None"}, new # s,
               NEW S \in SUBSET Ids, S \subseteq Stored({s}), NEW i \in S,
               running, job[Sweeper].at = "idle",
               Begin(Sweeper, "unindex", i, s, new, S \ {i}),
               UNCHANGED <<messages, by_state, counter, running, faults, torn>>
        PROVE  PersistentInv'
    <2>1. \A k \in {i} \cup (S \ {i}) : messages[k] = s  BY <1>1 DEF Stored
    <2>2. s # "None" /\ new \in States \cup {"None"} /\ Sweeper \in Clients
      BY <1>1, PersistentAssumption DEF States, Terminal
    <2>3. QED  BY <1>1, <2>1, <2>2, BeginKeeps
  <1>2. ASSUME NEW S \in SUBSET Ids, ExpireOld(Sweeper, S) PROVE PersistentInv'
    <2>1. "Pending" \in States /\ "Expired" # "Pending"  BY DEF States
    <2>2. QED  BY <1>1, <1>2, <2>1 DEF ExpireOld
  <1>3. ASSUME NEW S \in SUBSET Ids, NEW s \in Terminal, PruneTerminal(Sweeper, s, S)
        PROVE  PersistentInv'
    <2>1. s \in States /\ "None" # s  BY DEF States, Terminal
    <2>2. QED  BY <1>1, <1>3, <2>1 DEF PruneTerminal
  <1>4. QED  BY <1>2, <1>3 DEF run_maintenance
---------------------------------------------------------------------------
(* Accesses *)

\* What finishing with a message does to the jobs, in every step that does it.
LEMMA FinishJobs ==
    ASSUME PersistentInv, NEW c \in Clients, job[c].at # "idle", Finish(c), running' = running,
           running, counter' = counter, messages' \in [Ids -> States \cup {"None"}],
           \A i \in Ids : i # job[c].id => messages'[i] = messages[i],
           messages'[job[c].id] # "None" => job[c].id \in Ids
    PROVE  /\ job' \in [Clients -> Job] /\ raced' \subseteq Ids
           /\ JobsMakeSense' /\ CounterAhead' /\ NewOnesAlone'
  <1> USE DEF PersistentInv
  <1>1. /\ \/ job[c].todo = {} /\ job'[c] = Idle /\ raced' = raced
           \/ \E i \in job[c].todo :
                 /\ job'[c] = [at |-> "unindex", id |-> i, old |-> job[c].old,
                               new |-> job[c].new, todo |-> job[c].todo \ {i}]
                 /\ raced' = raced \cup {k \in {i} \cup (job[c].todo \ {i}) : Busy(k) \ {c} # {}}
        /\ \A d \in Clients : d # c => job'[d] = job[d]
        /\ Claimed(c)' = job[c].todo
        /\ \A d \in Clients : d # c => Claimed(d)' = Claimed(d)
    BY FinishClaims
  <1>2. Claimed(c) = {job[c].id} \cup job[c].todo  BY DEF Claimed
  <1>3. job[c] \in Job /\ job[c].todo \subseteq Ids  BY DEF PersistentTypeOK, Job
  <1>4. job' \in [Clients -> Job] /\ raced' \subseteq Ids
    <2>1. raced' \subseteq Ids  BY <1>1, <1>3 DEF PersistentTypeOK
    <2>2. job'[c] \in Job
      <3>1. CASE job'[c] = Idle  BY <3>1 DEF Job, Idle
      <3>2. ASSUME NEW i \in job[c].todo,
                   job'[c] = [at |-> "unindex", id |-> i, old |-> job[c].old,
                              new |-> job[c].new, todo |-> job[c].todo \ {i}]
            PROVE  job'[c] \in Job
        BY <1>3, <3>2 DEF Job
      <3>3. QED  BY <1>1, <3>1, <3>2
    <2>3. job' = [job EXCEPT ![c] = job'[c]]
      <3>1. \E j : job' = [job EXCEPT ![c] = j]  BY DEF Finish, Begin
      <3>2. QED  BY <3>1 DEF PersistentTypeOK
    <2>4. QED  BY <2>1, <2>2, <2>3 DEF PersistentTypeOK
  <1>5. JobsMakeSense'
    <2> SUFFICES ASSUME NEW d \in Clients, job'[d].at # "idle"
                 PROVE  /\ job'[d].id \in Ids /\ job'[d].id \notin job'[d].todo
                        /\ job'[d].todo # {} \/ job'[d].at = "unindex" =>
                              job'[d].old \in States /\ job'[d].new # job'[d].old
                        /\ job'[d].at \in {"record", "index"} => job'[d].new \in States
                        /\ job'[d].at = "remove" => job'[d].old \in States
      BY DEF JobsMakeSense
    <2>1. CASE d # c  BY <1>1, <2>1 DEF JobsMakeSense
    <2>2. CASE d = c
      <3>1. PICK i \in job[c].todo :
                job'[c] = [at |-> "unindex", id |-> i, old |-> job[c].old,
                           new |-> job[c].new, todo |-> job[c].todo \ {i}]
        BY <1>1, <2>2 DEF Idle
      <3>2. i \in Ids /\ job[c].old \in States /\ job[c].new # job[c].old
        BY <1>3 DEF JobsMakeSense
      <3>3. QED  BY <2>2, <3>1, <3>2
    <2>3. QED  BY <2>1, <2>2
  <1>6. job[c].id < counter
    BY <1>2 DEF CounterAhead
  <1>7. CounterAhead'
    <2>1. \A i \in Ids : messages'[i] # "None" => i < counter'
      BY <1>6 DEF CounterAhead
    <2>2. \A d \in Clients : \A i \in Claimed(d)' : i < counter'
      BY <1>1, <1>2 DEF CounterAhead
    <2>3. QED  BY <2>1, <2>2 DEF CounterAhead
  <1>8. NewOnesAlone'
    <2> SUFFICES ASSUME NEW d \in Clients, job'[d].at = "record", job'[d].old = "None"
                 PROVE  /\ messages'[job'[d].id] = "None"
                        /\ \A e \in Clients : job'[d].id \in Claimed(e)' => e = d
      BY DEF NewOnesAlone
    <2>1. d # c /\ job'[d] = job[d]
      <3>1. CASE job'[c] = Idle  BY <1>1, <3>1 DEF Idle
      <3>2. CASE \E i \in job[c].todo :
                    job'[c] = [at |-> "unindex", id |-> i, old |-> job[c].old,
                               new |-> job[c].new, todo |-> job[c].todo \ {i}]
        BY <1>1, <3>2
      <3>3. QED  BY <1>1, <3>1, <3>2
    <2>2. /\ messages[job[d].id] = "None" /\ job[d].id \in Ids
          /\ \A e \in Clients : job[d].id \in Claimed(e) => e = d
      BY <2>1 DEF NewOnesAlone, JobsMakeSense
    <2>3. job[d].id # job[c].id  BY <1>2, <2>1, <2>2
    <2>4. QED  BY <1>1, <1>2, <2>1, <2>2, <2>3
  <1>9. QED  BY <1>4, <1>5, <1>7, <1>8

\* A message other than the one that is finished with is as it was, and that one rests if it
\* was left exactly listed.
LEMMA FinishUndisturbed ==
    ASSUME PersistentInv, NEW c \in Clients, job[c].at # "idle", Finish(c),
           \A i \in Ids : i # job[c].id =>
               /\ messages'[i] = messages[i]
               /\ \A s \in States : <<s, i>> \in by_state' <=> <<s, i>> \in by_state,
           torn \subseteq torn',
           \A i \in Ids : i = job[c].id /\ i \notin torn' \cup raced' =>
               \A s \in States : <<s, i>> \in by_state' <=> s = messages'[i]
    PROVE  Undisturbed'
  <1> USE DEF PersistentInv
  <1> SUFFICES ASSUME NEW k \in Ids, k \notin torn', k \notin raced'
               PROVE  /\ \A d, e \in Clients : k \in Claimed(d)' /\ k \in Claimed(e)' => d = e
                      /\ (\A d \in Clients : k \notin Claimed(d)') => ListedUnder(k, {messages[k]})'
                      /\ \A d \in Clients : k \in Claimed(d)' =>
                            IF k = job'[d].id THEN Halfway(d)'
                            ELSE messages'[k] = job'[d].old /\ ListedUnder(k, {messages[k]})'
    BY DEF Undisturbed
  <1>1. /\ \/ job[c].todo = {} /\ job'[c] = Idle /\ raced' = raced
           \/ \E i \in job[c].todo :
                 /\ job'[c] = [at |-> "unindex", id |-> i, old |-> job[c].old,
                               new |-> job[c].new, todo |-> job[c].todo \ {i}]
                 /\ raced' = raced \cup {n \in {i} \cup (job[c].todo \ {i}) : Busy(n) \ {c} # {}}
        /\ \A d \in Clients : d # c => job'[d] = job[d]
        /\ Claimed(c)' = job[c].todo
        /\ \A d \in Clients : d # c => Claimed(d)' = Claimed(d)
        /\ raced \subseteq raced'
    BY FinishClaims
  <1>2. Claimed(c) = {job[c].id} \cup job[c].todo  BY DEF Claimed
  <1>3. k \in Ids \ (torn \cup raced)  BY <1>1
  <1>4. /\ \A d, e \in Clients : k \in Claimed(d) /\ k \in Claimed(e) => d = e
        /\ (\A d \in Clients : k \notin Claimed(d)) => ListedUnder(k, {messages[k]})
        /\ \A d \in Clients : k \in Claimed(d) =>
              IF k = job[d].id THEN Halfway(d)
              ELSE messages[k] = job[d].old /\ ListedUnder(k, {messages[k]})
    BY <1>3 DEF Undisturbed
  <1>5. CASE k = job[c].id
    <2>1. \A d \in Clients : k \notin Claimed(d)'
      BY <1>1, <1>2, <1>4, <1>5 DEF JobsMakeSense
    <2>2. ListedUnder(k, {messages[k]})'  BY <1>5 DEF ListedUnder
    <2>3. QED  BY <2>1, <2>2
  <1>6. CASE k # job[c].id
    <2>1. \A d \in Clients : k \in Claimed(d)' <=> k \in Claimed(d)  BY <1>1, <1>2, <1>6
    <2>2. ListedUnder(k, {messages[k]})' <=> ListedUnder(k, {messages[k]})
      BY <1>6 DEF ListedUnder
    <2>3. ASSUME NEW d \in Clients, k \in Claimed(d)'
          PROVE  IF k = job'[d].id THEN Halfway(d)'
                 ELSE messages'[k] = job'[d].old /\ ListedUnder(k, {messages[k]})'
      <3>1. CASE d # c
        <4>1. k \in Claimed(d) /\ job'[d] = job[d]  BY <1>1, <2>3, <3>1
        <4>2. k = job[d].id => (Halfway(d)' <=> Halfway(d))
          BY <1>6, <4>1 DEF Halfway, ListedUnder
        <4>3. QED  BY <1>4, <1>6, <2>2, <4>1, <4>2
      <3>2. CASE d = c
        <4>1. k \in job[c].todo  BY <1>1, <2>3, <3>2
        <4>2. messages[k] = job[c].old /\ ListedUnder(k, {messages[k]})
          BY <1>2, <1>4, <1>6, <4>1
        <4>3. messages'[k] = job[c].old /\ ListedUnder(k, {messages[k]})'
          BY <1>6, <2>2, <4>2
        <4>4. PICK i \in job[c].todo :
                  job'[c] = [at |-> "unindex", id |-> i, old |-> job[c].old,
                             new |-> job[c].new, todo |-> job[c].todo \ {i}]
          BY <1>1, <4>1
        <4>5. k = i => Halfway(d)'
          BY <3>2, <4>3, <4>4 DEF Halfway, ListedUnder
        <4>6. QED  BY <3>2, <4>3, <4>4, <4>5
      <3>3. QED  BY <3>1, <3>2
    <2>4. QED  BY <1>4, <2>1, <2>2, <2>3
  <1>7. QED  BY <1>5, <1>6

\* The entry of the state is inserted: the message is listed as its record says.
LEMMA InsertIndexKeeps ==
    ASSUME PersistentInv, NEW c \in Clients, InsertIndex(c)
    PROVE  PersistentInv'
  <1> USE DEF PersistentInv
  <1>1. /\ running /\ job[c].at = "index" /\ Finish(c)
        /\ by_state' = by_state \cup {<<job[c].new, job[c].id>>}
        /\ UNCHANGED <<messages, counter, running, faults, torn>>
    BY DEF InsertIndex
  <1>2. job[c].id \in Ids /\ job[c].new \in States  BY <1>1 DEF JobsMakeSense
  <1>3. messages \in [Ids -> States \cup {"None"}]  BY DEF PersistentTypeOK
  <1>4. /\ job' \in [Clients -> Job] /\ raced' \subseteq Ids
        /\ JobsMakeSense' /\ CounterAhead' /\ NewOnesAlone'
    BY <1>1, <1>2, <1>3, FinishJobs
  <1>5. PersistentTypeOK'
    BY <1>1, <1>2, <1>4 DEF PersistentTypeOK
  <1>6. FoundByState'
    <2>1. \A d \in Clients : d # c => job'[d] = job[d]  BY <1>1, FinishClaims
    <2> SUFFICES ASSUME NEW i \in Ids, messages[i] \in States, i \notin torn,
                        <<messages[i], i>> \notin by_state'
                 PROVE  \E d \in Clients :
                           /\ job'[d].id = i
                           /\ \/ job'[d].at = "index" /\ job'[d].new = messages[i]
                              \/ job'[d].at \in {"record", "remove"} /\ job'[d].old = messages[i]
      BY <1>1 DEF FoundByState, Stored
    <2>2. PICK d \in Clients :
             /\ job[d].id = i
             /\ \/ job[d].at = "index" /\ job[d].new = messages[i]
                \/ job[d].at \in {"record", "remove"} /\ job[d].old = messages[i]
      BY <1>1 DEF FoundByState, Stored
    <2>3. d # c  BY <1>1, <2>2
    <2>4. QED  BY <2>1, <2>2, <2>3
  <1>7. Undisturbed'
    <2>1. \A i \in Ids : i # job[c].id =>
             \A s \in States : <<s, i>> \in by_state' <=> <<s, i>> \in by_state
      BY <1>1
    <2>2. ASSUME NEW i \in Ids, i = job[c].id, i \notin torn' \cup raced'
          PROVE  \A s \in States : <<s, i>> \in by_state' <=> s = messages'[i]
      <3>1. i \in Ids \ (torn \cup raced) /\ i \in Claimed(c)
        BY <1>1, <2>2, FinishClaims DEF Claimed
      <3>2. Halfway(c)  BY <2>2, <3>1 DEF Undisturbed
      <3>3. messages[i] = job[c].new
        BY <1>1, <2>2, <3>2 DEF Halfway
      <3>4. \A s \in States : <<s, i>> \in by_state' <=> s = job[c].new
        BY <1>1, <1>2, <2>2, <3>2 DEF Halfway
      <3>5. QED  BY <1>1, <3>3, <3>4
    <2>3. QED  BY <1>1, <2>1, <2>2, FinishUndisturbed
  <1>8. QED  BY <1>4, <1>5, <1>6, <1>7

\* The record is removed: the message is listed nowhere any more.
LEMMA RemoveRecordKeeps ==
    ASSUME PersistentInv, NEW c \in Clients, RemoveRecord(c)
    PROVE  PersistentInv'
  <1> USE DEF PersistentInv
  <1>1. /\ running /\ job[c].at = "remove" /\ Finish(c)
        /\ messages' = [messages EXCEPT ![job[c].id] = "None"]
        /\ UNCHANGED <<by_state, counter, running, faults, torn>>
    BY DEF RemoveRecord
  <1>2. job[c].id \in Ids  BY <1>1 DEF JobsMakeSense
  <1>3. /\ messages' \in [Ids -> States \cup {"None"}] /\ messages'[job[c].id] = "None"
        /\ \A i \in Ids : i # job[c].id => messages'[i] = messages[i]
    BY <1>1, <1>2 DEF PersistentTypeOK
  <1>4. /\ job' \in [Clients -> Job] /\ raced' \subseteq Ids
        /\ JobsMakeSense' /\ CounterAhead' /\ NewOnesAlone'
    BY <1>1, <1>2, <1>3, FinishJobs
  <1>5. PersistentTypeOK'
    BY <1>1, <1>3, <1>4 DEF PersistentTypeOK
  <1>6. FoundByState'
    <2>1. \A d \in Clients : d # c => job'[d] = job[d]  BY <1>1, FinishClaims
    <2> SUFFICES ASSUME NEW i \in Ids, messages'[i] \in States, i \notin torn,
                        <<messages'[i], i>> \notin by_state
                 PROVE  \E d \in Clients :
                           /\ job'[d].id = i
                           /\ \/ job'[d].at = "index" /\ job'[d].new = messages'[i]
                              \/ job'[d].at \in {"record", "remove"} /\ job'[d].old = messages'[i]
      BY <1>1 DEF FoundByState, Stored
    <2>2. i # job[c].id /\ messages'[i] = messages[i]
      BY <1>3 DEF States, Terminal
    <2>3. PICK d \in Clients :
             /\ job[d].id = i
             /\ \/ job[d].at = "index" /\ job[d].new = messages[i]
                \/ job[d].at \in {"record", "remove"} /\ job[d].old = messages[i]
      BY <1>1, <2>2 DEF FoundByState, Stored
    <2>4. QED  BY <2>1, <2>2, <2>3
  <1>7. Undisturbed'
    <2>1. ASSUME NEW i \in Ids, i = job[c].id, i \notin torn' \cup raced'
          PROVE  \A s \in States : <<s, i>> \in by_state' <=> s = messages'[i]
      <3>1. i \in Ids \ (torn \cup raced) /\ i \in Claimed(c)
        BY <1>1, <2>1, FinishClaims DEF Claimed
      <3>2. Halfway(c)  BY <2>1, <3>1 DEF Undisturbed
      <3>3. \A s \in States : <<s, i>> \notin by_state
        BY <1>1, <2>1, <3>2 DEF Halfway, ListedUnder
      <3>4. QED  BY <1>1, <1>3, <2>1, <3>3 DEF States, Terminal
    <2>2. QED  BY <1>1, <1>3, <2>1, FinishUndisturbed
  <1>8. QED  BY <1>4, <1>5, <1>6, <1>7

\* The job goes on to its next access on the same message, which only its owner's steps and
\* those of jobs that met it see.
LEMMA GotoJobs ==
    ASSUME PersistentInv, NEW c \in Clients, NEW at \in {"record", "index", "remove"},
           job[c].at # "idle", running, Goto(c, at), UNCHANGED <<counter, running, raced>>,
           at \in {"record", "index"} => job[c].new \in States,
           at = "remove" => job[c].old \in States,
           at = "record" => job[c].old # "None",
           \A i \in Ids : i # job[c].id => messages'[i] = messages[i]
    PROVE  /\ job' \in [Clients -> Job]
           /\ job'[c].at = at
           /\ \A d \in Clients : d # c => job'[d] = job[d]
           /\ \A d \in Clients : /\ job'[d].id = job[d].id /\ job'[d].old = job[d].old
                                 /\ job'[d].new = job[d].new
                                 /\ Claimed(d)' = Claimed(d)
           /\ JobsMakeSense' /\ CounterAhead' /\ NewOnesAlone'
  <1> USE DEF PersistentInv
  <1>1. job' = [job EXCEPT ![c].at = at]  BY DEF Goto
  <1>2. job \in [Clients -> Job]  BY DEF PersistentTypeOK
  <1>3. job' \in [Clients -> Job]  BY <1>1, <1>2 DEF Job
  <1>4. /\ job'[c].at = at
        /\ \A d \in Clients : d # c => job'[d] = job[d]
        /\ \A d \in Clients : /\ job'[d].id = job[d].id /\ job'[d].old = job[d].old
                              /\ job'[d].new = job[d].new /\ job'[d].todo = job[d].todo
    BY <1>1, <1>2 DEF Job
  <1>5. \A d \in Clients : Claimed(d)' = Claimed(d)
    BY <1>4 DEF Claimed
  <1>6. JobsMakeSense'
    BY <1>4 DEF JobsMakeSense
  <1>7. job[c].id \in Ids /\ job[c].id \in Claimed(c)  BY DEF JobsMakeSense, Claimed
  <1>8. CounterAhead'
    <2>1. \A i \in Ids : messages'[i] # "None" => i < counter'
      BY <1>7 DEF CounterAhead
    <2>2. QED  BY <1>5, <2>1 DEF CounterAhead
  <1>9. NewOnesAlone'
    <2> SUFFICES ASSUME NEW d \in Clients, job'[d].at = "record", job'[d].old = "None"
                 PROVE  /\ messages'[job'[d].id] = "None"
                        /\ \A e \in Clients : job'[d].id \in Claimed(e)' => e = d
      BY DEF NewOnesAlone
    <2>1. d # c /\ job'[d] = job[d]  BY <1>4
    <2>2. /\ messages[job[d].id] = "None" /\ job[d].id \in Ids
          /\ \A e \in Clients : job[d].id \in Claimed(e) => e = d
      BY <2>1 DEF NewOnesAlone, JobsMakeSense
    <2>3. job[d].id # job[c].id  BY <1>7, <2>1, <2>2
    <2>4. QED  BY <1>5, <2>1, <2>2, <2>3
  <1>10. QED  BY <1>3, <1>4, <1>5, <1>6, <1>8, <1>9

\* So it keeps every message undisturbed, if it has left its own halfway.
LEMMA GotoUndisturbed ==
    ASSUME PersistentInv, NEW c \in Clients, job[c].at # "idle",
           \A d \in Clients : d # c => job'[d] = job[d],
           \A d \in Clients : job'[d].id = job[d].id /\ job'[d].old = job[d].old
                              /\ Claimed(d)' = Claimed(d),
           \A i \in Ids : i # job[c].id =>
               /\ messages'[i] = messages[i]
               /\ \A s \in States : <<s, i>> \in by_state' <=> <<s, i>> \in by_state,
           raced' = raced, torn \subseteq torn',
           job[c].id \notin torn' \cup raced /\ Halfway(c) => Halfway(c)'
    PROVE  Undisturbed'
  <1> USE DEF PersistentInv
  <1> SUFFICES ASSUME NEW k \in Ids, k \notin torn', k \notin raced
               PROVE  /\ \A d, e \in Clients : k \in Claimed(d)' /\ k \in Claimed(e)' => d = e
                      /\ (\A d \in Clients : k \notin Claimed(d)') => ListedUnder(k, {messages[k]})'
                      /\ \A d \in Clients : k \in Claimed(d)' =>
                            IF k = job'[d].id THEN Halfway(d)'
                            ELSE messages'[k] = job'[d].old /\ ListedUnder(k, {messages[k]})'
    BY DEF Undisturbed
  <1>1. /\ \A d, e \in Clients : k \in Claimed(d) /\ k \in Claimed(e) => d = e
        /\ (\A d \in Clients : k \notin Claimed(d)) => ListedUnder(k, {messages[k]})
        /\ \A d \in Clients : k \in Claimed(d) =>
              IF k = job[d].id THEN Halfway(d)
              ELSE messages[k] = job[d].old /\ ListedUnder(k, {messages[k]})
    BY DEF Undisturbed
  <1>2. job[c].id \in Claimed(c)  BY DEF Claimed
  <1>3. CASE k = job[c].id
    <2>1. Halfway(c)'  BY <1>1, <1>2, <1>3
    <2>2. \A d \in Clients : k \in Claimed(d)' => d = c  BY <1>1, <1>2, <1>3
    <2>3. ASSUME NEW d \in Clients, k \in Claimed(d)' PROVE k = job'[d].id /\ Halfway(d)'
      <3>1. d = c  BY <2>2, <2>3
      <3>2. Halfway(d)'  BY <2>1, <3>1 DEF Halfway
      <3>3. QED  BY <1>3, <3>1, <3>2
    <2>4. QED  BY <1>2, <1>3, <2>2, <2>3
  <1>4. CASE k # job[c].id
    <2>1. ListedUnder(k, {messages[k]})' <=> ListedUnder(k, {messages[k]})
      BY <1>4 DEF ListedUnder
    <2>2. ASSUME NEW d \in Clients, k \in Claimed(d)'
          PROVE  IF k = job'[d].id THEN Halfway(d)'
                 ELSE messages'[k] = job'[d].old /\ ListedUnder(k, {messages[k]})'
      <3>1. k \in Claimed(d) /\ job'[d].id = job[d].id /\ job'[d].old = job[d].old  BY <2>2
      <3>2. CASE k = job[d].id
        <4>1. job'[d] = job[d]  BY <1>4, <3>2
        <4>2. Halfway(d)  BY <1>1, <3>1, <3>2
        <4>3. Halfway(d)'  BY <1>4, <3>2, <4>1, <4>2 DEF Halfway, ListedUnder
        <4>4. QED  BY <3>1, <3>2, <4>3
      <3>3. CASE k # job[d].id
        BY <1>1, <1>4, <2>1, <3>1, <3>3
      <3>4. QED  BY <3>2, <3>3
    <2>3. QED  BY <1>1, <2>1, <2>2
  <1>5. QED  BY <1>3, <1>4

\* The entry is removed: the job is now the one that will settle the message.
LEMMA RemoveStateIndexKeeps ==
    ASSUME PersistentInv, NEW c \in Clients, RemoveStateIndex(c)
    PROVE  PersistentInv'
  <1> USE DEF PersistentInv
  <1> DEFINE next == IF job[c].new = "None" THEN "remove" ELSE "record"
  <1>1. /\ running /\ job[c].at = "unindex" /\ Goto(c, next)
        /\ by_state' = by_state \ {<<job[c].old, job[c].id>>}
        /\ UNCHANGED <<messages, counter, running, faults, torn, raced>>
    BY DEF RemoveStateIndex
  <1>2. /\ job[c].id \in Ids /\ job[c].old \in States /\ job[c].new # job[c].old
        /\ job[c].new \in States \cup {"None"}
    BY <1>1 DEF JobsMakeSense, PersistentTypeOK, Job
  <1>3. job[c].old # "None" /\ next \in {"record", "remove"}  BY <1>2 DEF States, Terminal
  <1>4. next = "record" => job[c].new \in States  BY <1>2
  <1> HIDE DEF next
  <1>5. /\ job' \in [Clients -> Job]
        /\ job'[c].at = next
        /\ \A d \in Clients : d # c => job'[d] = job[d]
        /\ \A d \in Clients : /\ job'[d].id = job[d].id /\ job'[d].old = job[d].old
                              /\ job'[d].new = job[d].new
                              /\ Claimed(d)' = Claimed(d)
        /\ JobsMakeSense' /\ CounterAhead' /\ NewOnesAlone'
    BY <1>1, <1>2, <1>3, <1>4, GotoJobs
  <1>6. PersistentTypeOK'
    BY <1>1, <1>5 DEF PersistentTypeOK
  <1>7. FoundByState'
    <2> SUFFICES ASSUME NEW i \in Ids, messages[i] \in States, i \notin torn,
                        <<messages[i], i>> \notin by_state'
                 PROVE  \E d \in Clients :
                           /\ job'[d].id = i
                           /\ \/ job'[d].at = "index" /\ job'[d].new = messages[i]
                              \/ job'[d].at \in {"record", "remove"} /\ job'[d].old = messages[i]
      BY <1>1 DEF FoundByState, Stored
    <2>1. CASE <<messages[i], i>> = <<job[c].old, job[c].id>>
      BY <1>3, <1>5, <2>1
    <2>2. CASE <<messages[i], i>> # <<job[c].old, job[c].id>>
      <3>1. PICK d \in Clients :
               /\ job[d].id = i
               /\ \/ job[d].at = "index" /\ job[d].new = messages[i]
                  \/ job[d].at \in {"record", "remove"} /\ job[d].old = messages[i]
        BY <1>1, <2>2 DEF FoundByState, Stored
      <3>2. QED  BY <1>1, <1>5, <3>1
    <2>3. QED  BY <2>1, <2>2
  <1>8. Undisturbed'
    <2>1. \A i \in Ids : i # job[c].id =>
             \A s \in States : <<s, i>> \in by_state' <=> <<s, i>> \in by_state
      BY <1>1
    <2>2. ASSUME Halfway(c) PROVE Halfway(c)'
      <3>1. /\ messages[job[c].id] = job[c].old
            /\ \A s \in States : <<s, job[c].id>> \in by_state <=> s = job[c].old
        BY <1>1, <2>2 DEF Halfway, ListedUnder
      <3>2. \A s \in States : <<s, job[c].id>> \notin by_state'  BY <1>1, <3>1
      <3>3. {job[c].old} \cap {job[c].new} = {}  BY <1>2
      <3>4. QED  BY <1>1, <1>3, <1>5, <3>1, <3>2, <3>3 DEF Halfway, ListedUnder
    <2>3. QED  BY <1>1, <1>5, <2>1, <2>2, GotoUndisturbed
  <1>9. QED  BY <1>5, <1>6, <1>7, <1>8

\* The record is written: the entry of its state is still to come.
LEMMA InsertRecordKeeps ==
    ASSUME PersistentInv, NEW c \in Clients, InsertRecord(c)
    PROVE  PersistentInv'
  <1> USE DEF PersistentInv
  <1>1. /\ running /\ job[c].at = "record" /\ Goto(c, "index")
        /\ messages' = [messages EXCEPT ![job[c].id] = job[c].new]
        /\ UNCHANGED <<by_state, counter, running, faults, torn, raced>>
    BY DEF InsertRecord
  <1>2. job[c].id \in Ids /\ job[c].new \in States  BY <1>1 DEF JobsMakeSense
  <1>3. /\ messages' \in [Ids -> States \cup {"None"}] /\ messages'[job[c].id] = job[c].new
        /\ \A i \in Ids : i # job[c].id => messages'[i] = messages[i]
    BY <1>1, <1>2 DEF PersistentTypeOK
  <1>4. /\ job' \in [Clients -> Job]
        /\ job'[c].at = "index"
        /\ \A d \in Clients : d # c => job'[d] = job[d]
        /\ \A d \in Clients : /\ job'[d].id = job[d].id /\ job'[d].old = job[d].old
                              /\ job'[d].new = job[d].new
                              /\ Claimed(d)' = Claimed(d)
        /\ JobsMakeSense' /\ CounterAhead' /\ NewOnesAlone'
    BY <1>1, <1>2, <1>3, GotoJobs
  <1>5. PersistentTypeOK'
    BY <1>1, <1>3, <1>4 DEF PersistentTypeOK
  <1>6. FoundByState'
    <2> SUFFICES ASSUME NEW i \in Ids, messages'[i] \in States, i \notin torn,
                        <<messages'[i], i>> \notin by_state
                 PROVE  \E d \in Clients :
                           /\ job'[d].id = i
                           /\ \/ job'[d].at = "index" /\ job'[d].new = messages'[i]
                              \/ job'[d].at \in {"record", "remove"} /\ job'[d].old = messages'[i]
      BY <1>1 DEF FoundByState, Stored
    <2>1. CASE i = job[c].id  BY <1>3, <1>4, <2>1
    <2>2. CASE i # job[c].id
      <3>1. PICK d \in Clients :
               /\ job[d].id = i
               /\ \/ job[d].at = "index" /\ job[d].new = messages[i]
                  \/ job[d].at \in {"record", "remove"} /\ job[d].old = messages[i]
        BY <1>3, <2>2 DEF FoundByState, Stored
      <3>2. QED  BY <1>3, <1>4, <2>2, <3>1
    <2>3. QED  BY <2>1, <2>2
  <1>7. Undisturbed'
    <2>1. ASSUME Halfway(c) PROVE Halfway(c)'
      <3>1. \A s \in States : <<s, job[c].id>> \in by_state => s = job[c].new
        BY <1>1, <2>1 DEF Halfway, ListedUnder
      <3>2. QED  BY <1>1, <1>3, <1>4, <3>1 DEF Halfway
    <2>2. QED  BY <1>1, <1>3, <1>4, <2>1, GotoUndisturbed
  <1>8. QED  BY <1>4, <1>5, <1>6, <1>7

\* An access that fails leaves its message torn, and the others as they are.
LEMMA AccessFailsKeeps ==
    ASSUME PersistentInv, NEW c \in Clients, AccessFails(c)
    PROVE  PersistentInv'
  <1> USE DEF PersistentInv
  <1>1. /\ running /\ job[c].at # "idle" /\ faults < MaxFaults
        /\ faults' = faults + 1 /\ torn' = torn \cup {job[c].id}
        /\ UNCHANGED <<messages, by_state, counter, running>>
    BY DEF AccessFails
  <1>2. job[c].id \in Ids  BY <1>1 DEF JobsMakeSense
  <1>3. /\ faults' \in 0..MaxFaults /\ torn' \subseteq Ids
        /\ messages \in [Ids -> States \cup {"None"}]
    BY <1>1, <1>2, PersistentAssumption DEF PersistentTypeOK
  <1>4. ASSUME \A d \in Clients : d # c => job'[d] = job[d] PROVE FoundByState'
    <2> SUFFICES ASSUME NEW i \in Ids, messages[i] \in States, i \notin torn',
                        <<messages[i], i>> \notin by_state
                 PROVE  \E d \in Clients :
                           /\ job'[d].id = i
                           /\ \/ job'[d].at = "index" /\ job'[d].new = messages[i]
                              \/ job'[d].at \in {"record", "remove"} /\ job'[d].old = messages[i]
      BY <1>1 DEF FoundByState, Stored
    <2>1. PICK d \in Clients :
             /\ job[d].id = i
             /\ \/ job[d].at = "index" /\ job[d].new = messages[i]
                \/ job[d].at \in {"record", "remove"} /\ job[d].old = messages[i]
      BY <1>1 DEF FoundByState, Stored
    <2>2. QED  BY <1>1, <1>4, <2>1
  <1>5. CASE job[c].at = "unindex"
    <2> DEFINE next == IF job[c].new = "None" THEN "remove" ELSE "record"
    <2>1. Goto(c, next) /\ raced' = raced  BY <1>5 DEF AccessFails
    <2>2. job[c].old \in States /\ job[c].new \in States \cup {"None"}
      BY <1>1, <1>5 DEF JobsMakeSense, PersistentTypeOK, Job
    <2>3. job[c].old # "None" /\ next \in {"record", "remove"}  BY <2>2 DEF States, Terminal
    <2>4. next = "record" => job[c].new \in States  BY <2>2
    <2> HIDE DEF next
    <2>5. /\ job' \in [Clients -> Job]
          /\ \A d \in Clients : d # c => job'[d] = job[d]
          /\ \A d \in Clients : /\ job'[d].id = job[d].id /\ job'[d].old = job[d].old
                                /\ Claimed(d)' = Claimed(d)
          /\ JobsMakeSense' /\ CounterAhead' /\ NewOnesAlone'
      BY <1>1, <2>1, <2>2, <2>3, <2>4, GotoJobs
    <2>6. PersistentTypeOK'  BY <1>1, <1>3, <2>1, <2>5 DEF PersistentTypeOK
    <2>7. Undisturbed'  BY <1>1, <2>1, <2>5, GotoUndisturbed
    <2>8. QED  BY <1>4, <2>5, <2>6, <2>7
  <1>6. CASE job[c].at # "unindex"
    <2>1. Finish(c)  BY <1>6 DEF AccessFails
    <2>2. \A d \in Clients : d # c => job'[d] = job[d]  BY <1>1, <2>1, FinishClaims
    <2>3. /\ job' \in [Clients -> Job] /\ raced' \subseteq Ids
          /\ JobsMakeSense' /\ CounterAhead' /\ NewOnesAlone'
      BY <1>1, <1>2, <1>3, <2>1, FinishJobs
    <2>4. PersistentTypeOK'  BY <1>1, <1>3, <2>3 DEF PersistentTypeOK
    <2>5. Undisturbed'
      <3>1. \A i \in Ids : i # job[c].id => 
              /\ messages'[i] = messages[i]
              /\ \A s \in States : <<s, i>> \in by_state' <=> <<s, i>> \in by_state
        BY <1>1
      <3>2. \A i \in Ids : ~(i = job[c].id /\ i \notin torn' \cup raced')  BY <1>1
      <3>3. QED  BY <1>1, <2>1, <3>1, <3>2, FinishUndisturbed
    <2>6. QED  BY <1>4, <2>2, <2>3, <2>4, <2>5
  <1>7. QED  BY <1>5, <1>6
---------------------------------------------------------------------------
(* Crash and restart *)

\* A crash abandons every message that is being worked on; the others are at rest.
LEMMA CrashKeeps == ASSUME PersistentInv, Crash PROVE PersistentInv'
  <1> USE DEF PersistentInv
  <1>1. /\ job' = [c \in Clients |-> Idle] /\ running' = FALSE
        /\ torn' = torn \cup UNION {Claimed(c) : c \in Clients}
        /\ faults < MaxFaults /\ faults' = faults + 1
        /\ UNCHANGED <<messages, by_state, counter, raced>>
    BY DEF Crash
  <1>2. \A c \in Clients : Claimed(c) \subseteq Ids
    BY DEF Claimed, JobsMakeSense, PersistentTypeOK, Job
  <1>3. \A c \in Clients : Claimed(c)' = {}  BY <1>1 DEF Claimed, Idle
  <1>4. torn' \subseteq Ids  BY <1>1, <1>2 DEF PersistentTypeOK
  <1>5. PersistentTypeOK'
    <2>1. job' \in [Clients -> Job]  BY <1>1 DEF Job, Idle
    <2>2. faults' \in 0..MaxFaults  BY <1>1, PersistentAssumption DEF PersistentTypeOK
    <2>3. QED  BY <1>1, <1>4, <2>1, <2>2 DEF PersistentTypeOK
  <1>6. JobsMakeSense' /\ CounterAhead' /\ NewOnesAlone'
    BY <1>1 DEF JobsMakeSense, CounterAhead, NewOnesAlone, Idle
  <1>7. \A i \in Ids : i \notin torn' => i \notin torn /\ \A c \in Clients : i \notin Claimed(c)
    BY <1>1
  <1>8. FoundByState'
    <2> SUFFICES ASSUME NEW i \in Ids, messages[i] \in States, i \notin torn'
                 PROVE  <<messages[i], i>> \in by_state
      BY <1>1 DEF FoundByState, Stored
    <2>1. \A c \in Clients : i \notin Claimed(c)  BY <1>7
    <2>2. \A c \in Clients : job[c].at = "idle" \/ job[c].id # i  BY <2>1 DEF Claimed
    <2>3. QED  BY <1>7, <2>2 DEF FoundByState, Stored
  <1>9. Undisturbed'
    <2> SUFFICES ASSUME NEW k \in Ids, k \notin torn', k \notin raced
                 PROVE  ListedUnder(k, {messages[k]})'
      BY <1>1, <1>3 DEF Undisturbed
    <2>1. ListedUnder(k, {messages[k]})  BY <1>7 DEF Undisturbed
    <2>2. QED  BY <1>1, <2>1 DEF ListedUnder
  <1>10. QED  BY <1>5, <1>6, <1>8, <1>9

\* A restart counts on from above every stored message.
LEMMA RecoverKeeps == ASSUME PersistentInv, Recover PROVE PersistentInv'
  <1> USE DEF PersistentInv
  <1> DEFINE all == Stored(States) \cup {0}
  <1>1. /\ ~running /\ running' = TRUE /\ counter' = Max(all) + 1
        /\ UNCHANGED <<messages, by_state, job, faults, torn, raced>>
    BY DEF Recover
  <1>2. all \in SUBSET (0..MaxId) /\ all # {} /\ MaxId \in Nat
    BY PersistentAssumption DEF Stored, Ids
  <1>3. \A i \in Ids : messages[i] # "None" => i \in all
    BY DEF Stored, PersistentTypeOK
  <1> HIDE DEF all
  <1>4. Max(all) \in all /\ \A i \in all : i <= Max(all)  BY <1>2, HasMax
  <1>5. counter' \in 1..(MaxId + 1) /\ Max(all) \in Nat
    <2>1. Max(all) \in 0..MaxId  BY <1>2, <1>4
    <2> DEFINE m == Max(all)
    <2>2. m \in 0..MaxId /\ counter' = m + 1  BY <1>1, <2>1
    <2> HIDE DEF m
    <2>3. m \in Nat /\ counter' \in 1..(MaxId + 1)  BY <1>2, <2>2
    <2>4. QED  BY <2>1, <2>3
  <1>6. PersistentTypeOK'  BY <1>1, <1>5 DEF PersistentTypeOK
  <1>7. \A c \in Clients : job[c] = Idle /\ Claimed(c) = {} /\ Claimed(c)' = {}
    BY <1>1 DEF JobsMakeSense, Claimed, Idle
  <1>8. JobsMakeSense' /\ NewOnesAlone'
    BY <1>1, <1>7 DEF JobsMakeSense, NewOnesAlone, Idle
  <1>9. CounterAhead'
    <2>1. \A i \in Ids : messages[i] # "None" => i < counter'
      BY <1>1, <1>3, <1>4, <1>5 DEF Ids
    <2>2. QED  BY <1>1, <1>7, <2>1 DEF CounterAhead
  <1>10. FoundByState'  BY <1>1 DEF FoundByState, Stored
  <1>11. Undisturbed'
    <2> SUFFICES ASSUME NEW k \in Ids, k \notin torn, k \notin raced
                 PROVE  ListedUnder(k, {messages[k]})'
      BY <1>1, <1>7 DEF Undisturbed
    <2>1. ListedUnder(k, {messages[k]})  BY <1>7 DEF Undisturbed
    <2>2. QED  BY <1>1, <2>1 DEF ListedUnder
  <1>12. QED  BY <1>6, <1>8, <1>9, <1>10, <1>11
---------------------------------------------------------------------------
(* The theorems *)

\* Every step keeps the invariant.
LEMMA PersistentInductive == PersistentInv /\ [PersistentNext]_ps_vars => PersistentInv'
  <1> SUFFICES ASSUME PersistentInv, [PersistentNext]_ps_vars PROVE PersistentInv'
    OBVIOUS
  <1>1. ASSUME NEW c \in Clients, Access(c) PROVE PersistentInv'
    BY <1>1, RemoveStateIndexKeeps, InsertRecordKeeps, InsertIndexKeeps, RemoveRecordKeeps,
       AccessFailsKeeps DEF Access
  <1>2. CASE UNCHANGED ps_vars
    <2> USE <1>2 DEF ps_vars, PersistentInv
    <2>1. PersistentTypeOK' /\ JobsMakeSense'  BY DEF PersistentTypeOK, JobsMakeSense
    <2>2. CounterAhead' /\ NewOnesAlone'  BY DEF CounterAhead, NewOnesAlone, Claimed
    <2>3. FoundByState'  BY DEF FoundByState, Stored
    <2>4. Undisturbed'  BY DEF Undisturbed, Halfway, ListedUnder, Claimed
    <2>5. QED  BY <2>1, <2>2, <2>3, <2>4
  <1>3. QED
    BY <1>1, <1>2, ClientKeeps, SweepKeeps, CrashKeeps, RecoverKeeps DEF PersistentNext

\* The persistent store keeps the whole invariant, for any number of clients, messages,
\* failed accesses and crashes (store/persistent.rs).
THEOREM PersistentInvariant == PersistentSpec => []PersistentInv
  BY OpenInv, PersistentInductive, PTL DEF PersistentSpec

\* The two partitions, the counter and the jobs have their types.
THEOREM PersistentTyped == PersistentSpec => []PersistentTypeOK
  BY PersistentInvariant, PTL DEF PersistentInv

\* No message is lost to the queries by state or to recovery, none is listed where it is not
\* and none is overwritten, apart from those an operation was abandoned on or two met on
\* (update, delete, expire_old, prune_terminal, recover_counters, get_recoverable_messages).
THEOREM StoreIndexKept == PersistentSpec => []StoreIndexHolds
  <1>1. PersistentInv => StoreIndexHolds
    <2> SUFFICES ASSUME PersistentInv PROVE StoreIndexHolds
      OBVIOUS
    <2> USE DEF PersistentInv
    <2>1. ExactAtRest
      <3> SUFFICES ASSUME NEW i \in Ids, i \notin torn, i \notin raced, Busy(i) = {}
                   PROVE  {s \in States : <<s, i>> \in by_state} = {messages[i]} \ {"None"}
        BY DEF ExactAtRest
      <3>1. \A c \in Clients : i \notin Claimed(c)  BY DEF Busy
      <3>2. \A s \in States : <<s, i>> \in by_state <=> s = messages[i]
        BY <3>1 DEF Undisturbed, ListedUnder
      <3>3. messages[i] \in States \cup {"None"} /\ "None" \notin States
        BY DEF PersistentTypeOK, States, Terminal
      <3>4. QED  BY <3>2, <3>3
    <2>2. IdentifiersFresh  BY DEF NewOnesAlone, IdentifiersFresh
    <2>3. RecoversAll
      <3> SUFFICES ASSUME ~running, NEW i \in Ids, messages[i] \in States \ Terminal, i \notin torn
                   PROVE  i \in get_recoverable_messages
        BY DEF RecoversAll, Stored
      <3>1. \A c \in Clients : job[c].at = "idle"  BY DEF JobsMakeSense, Idle
      <3>2. <<messages[i], i>> \in by_state  BY <3>1 DEF FoundByState, Stored
      <3>3. messages[i] \in {"Pending", "InFlight", "Retrying"}  BY DEF States
      <3>4. i \in get_by_state(messages[i])  BY <3>2, <3>3 DEF get_by_state
      <3>5. QED  BY <3>3, <3>4 DEF get_recoverable_messages
    <2>4. QED  BY <2>1, <2>2, <2>3 DEF StoreIndexHolds
  <1>2. QED  BY <1>1, PersistentInvariant, PTL
===========================================================================
