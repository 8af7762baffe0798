-------------------------- MODULE ServicesProofs --------------------------
(***************************************************************************)
(* Proofs about the parts the message path calls: the accounts of the      *)
(* ESMEs, the configuration and the prices, for any callers, accounts,     *)
(* configurations, offers and prices; and about all those parts side by    *)
(* side, from the proofs of each.                                          *)
(***************************************************************************)
EXTENDS MCServices, PersistentStoreProofs, QuotaProofs, ChoiceProofs

(* The accounts of the ESMEs *)

\* A caller that has an account in its hands has one that exists.
HandsFull ==
    \A c \in Admins : call[c].at \in {"copy", "save_index", "save_esmes", "delete"} =>
        call[c].id \in Accounts /\ call[c].esme \in Esme

\* Saves of an account come one at a time unless they were seen to overlap.
Saves(c, id) == call[c].at \in {"save_index", "save_esmes"} /\ call[c].id = id
OneSaver ==
    \A id \in Accounts \ overlapped : \A c, d \in Admins : Saves(c, id) /\ Saves(d, id) => c = d

\* What delete has removed stays away while delete holds the accounts.
Removed == \A c \in Admins : call[c].at = "delete" => esmes[call[c].id] = NoEsme

\* Entry sid of account id: the save that made it is about to store the account, or nobody is
\* and the account, or the copy that delete has of it, has that system_id.
Stores(c, id) == call[c].at = "save_esmes" /\ call[c].id = id
EntryMade(sid, id) == \E c \in Admins : Stores(c, id) /\ call[c].esme.system_id = sid
EntryKept(sid, id) ==
    /\ \A c \in Admins : ~Stores(c, id)
    /\ \/ esmes[id].system_id = sid
       \/ \E c \in Admins : call[c].at = "delete" /\ call[c].id = id /\ call[c].esme.system_id = sid
EntriesAgree ==
    \A sid \in SystemIds : \A id \in Accounts \ overlapped :
        <<sid, id>> \in id_index => EntryMade(sid, id) \/ EntryKept(sid, id)

EsmeInv == EsmeTypeOK /\ HandsFull /\ OneSaver /\ Removed /\ EntriesAgree

\* At first there are no accounts and nobody calls.
LEMMA EsmeStart == EsmeInit => EsmeInv
  <1> SUFFICES ASSUME EsmeInit PROVE EsmeInv
    OBVIOUS
  <1>1. \A c \in Admins : call[c].at = "rest"  BY DEF EsmeInit, Resting
  <1>2. EsmeTypeOK  BY DEF EsmeInit, EsmeTypeOK, Resting
  <1>3. QED
    BY <1>1, <1>2 DEF EsmeInit, EsmeInv, HandsFull, OneSaver, Saves, Removed, EntriesAgree

\* What a step does to the caller that takes it.
LEMMA Entered ==
    ASSUME EsmeTypeOK, NEW c \in Admins, NEW at, NEW id, NEW e, Enter(c, at, id, e)
    PROVE  /\ call'[c].at = at /\ call'[c].id = id /\ call'[c].esme = e
           /\ \A d \in Admins : d # c => call'[d] = call[d]
           /\ /\ at \in {"rest", "copy", "save_index", "save_esmes", "delete", "lookup"}
              /\ id \in Accounts \cup {"none"} /\ e \in Esme \cup {NoEsme}
              => call' \in [Admins -> [at : {"rest", "copy", "save_index", "save_esmes", "delete", "lookup"},
                                       id : Accounts \cup {"none"}, esme : Esme \cup {NoEsme}]]
  BY DEF Enter, EsmeTypeOK

\* A caller that has finished is at rest, and the others stay where they are.
LEMMA Left ==
    ASSUME EsmeTypeOK, NEW c \in Admins, Leave(c)
    PROVE  /\ call'[c].at = "rest"
           /\ \A d \in Admins : d # c => call'[d] = call[d]
           /\ call' \in [Admins -> [at : {"rest", "copy", "save_index", "save_esmes", "delete", "lookup"},
                                    id : Accounts \cup {"none"}, esme : Esme \cup {NoEsme}]]
  BY DEF Leave, Resting, EsmeTypeOK

\* Steps that leave accounts, index and locks alone: reading.
LEMMA EsmeReads ==
    ASSUME EsmeInv, NEW c \in Admins, UNCHANGED <<esmes, id_index, overlapped>>, EsmeTypeOK',
           \A d \in Admins : d # c => call'[d] = call[d],
           call[c].at \in {"rest", "copy", "lookup"},
           \/ call'[c].at \in {"rest", "lookup"}
           \/ call'[c].at = "copy" /\ call'[c].id \in Accounts /\ call'[c].esme \in Esme
    PROVE  EsmeInv'
  <1>1. HandsFull'  BY DEF EsmeInv, HandsFull
  <1>2. OneSaver'  BY DEF EsmeInv, OneSaver, Saves
  <1>3. Removed'  BY DEF EsmeInv, Removed
  <1>4. EntriesAgree'
    <2> SUFFICES ASSUME NEW sid \in SystemIds, NEW id \in Accounts, id \notin overlapped,
                        <<sid, id>> \in id_index
                 PROVE  EntryMade(sid, id)' \/ EntryKept(sid, id)'
      BY DEF EntriesAgree
    <2>1. EntryMade(sid, id) \/ EntryKept(sid, id)  BY DEF EsmeInv, EntriesAgree
    <2>2. EntryMade(sid, id) => EntryMade(sid, id)'  BY DEF EntryMade, Stores
    <2>3. EntryKept(sid, id) => EntryKept(sid, id)'  BY DEF EntryKept, Stores
    <2>4. QED  BY <2>1, <2>2, <2>3
  <1>5. QED  BY <1>1, <1>2, <1>3, <1>4 DEF EsmeInv

\* get of an account that can still send, and the count of one message on the copy.
LEMMA GetAndRecordStep ==
    ASSUME EsmeInv, NEW c \in Admins, NEW id \in Accounts, GetAndRecord(c, id) PROVE EsmeInv'
  <1> DEFINE u == record_message(esmes[id].used)
             e == [esmes[id] EXCEPT !.used = u]
  <1>1. /\ call[c] = Resting /\ esmes[id] # NoEsme /\ \A q \in QuotaKinds : u[q] <= MaxUsed
        /\ Enter(c, "copy", id, e) /\ UNCHANGED <<esmes, id_index, overlapped>>
    BY DEF GetAndRecord, Exists
  <1>2. EsmeTypeOK /\ esmes[id] \in Esme  BY <1>1 DEF EsmeInv, EsmeTypeOK
  <1>3. u \in [QuotaKinds -> 0..MaxUsed] /\ esmes[id].system_id \in SystemIds
    <2>1. esmes[id].used \in [QuotaKinds -> 0..MaxUsed] /\ esmes[id].system_id \in SystemIds  BY <1>2 DEF Esme
    <2>2. \A q \in QuotaKinds : u[q] \in 0..MaxUsed  BY <1>1, <2>1, EsmeAssumption DEF record_message
    <2>3. u = [q \in QuotaKinds |-> u[q]]  BY DEF record_message
    <2> HIDE DEF u
    <2> QED  BY <2>1, <2>2, <2>3
  <1>4. e \in Esme
    <2> HIDE DEF u
    <2> QED  BY <1>2, <1>3 DEF Esme
  <1> HIDE DEF e
  <1>5. EsmeTypeOK'  BY <1>1, <1>2, <1>4, Entered DEF EsmeTypeOK
  <1>6. call'[c].at = "copy" /\ call'[c].id = id /\ call'[c].esme = e /\ \A d \in Admins : d # c => call'[d] = call[d]
    BY <1>1, <1>2, Entered
  <1>7. call[c].at = "rest"  BY <1>1 DEF Resting
  <1>8. QED  BY <1>1, <1>4, <1>5, <1>6, <1>7, EsmeReads

\* A look-up by system_id changes nothing but the place of its caller.
LEMMA LookupStep ==
    ASSUME EsmeInv, NEW c \in Admins, LookupEsme(c) \/ \E sid \in SystemIds : Lookup(c, sid) PROVE EsmeInv'
  <1>1. EsmeTypeOK /\ UNCHANGED <<esmes, id_index, overlapped>>  BY DEF EsmeInv, LookupEsme, Lookup
  <1>2. CASE LookupEsme(c)
    <2>1. call[c].at = "lookup" /\ Leave(c)  BY <1>2 DEF LookupEsme
    <2>2. EsmeTypeOK'  BY <1>1, <2>1, Left DEF EsmeTypeOK
    <2>3. QED  BY <1>1, <2>1, <2>2, Left, EsmeReads
  <1>3. ASSUME NEW sid \in SystemIds, Lookup(c, sid) PROVE EsmeInv'
    <2>1. PICK id \in Accounts : Enter(c, "lookup", id, NoEsme)  BY <1>1, <1>3 DEF Lookup, EsmeTypeOK
    <2>2. call[c].at = "rest"  BY <1>3 DEF Lookup, Resting
    <2>3. EsmeTypeOK'  BY <1>1, <2>1, <2>2, Entered DEF EsmeTypeOK
    <2>4. call'[c].at = "lookup" /\ \A d \in Admins : d # c => call'[d] = call[d]  BY <1>1, <2>1, Entered
    <2>5. QED  BY <1>1, <2>2, <2>3, <2>4, EsmeReads
  <1>4. QED  BY <1>2, <1>3

\* save takes the index: two saves of an account at once are seen here.
LEMMA SaveStep ==
    ASSUME EsmeInv, NEW c \in Admins, NEW id \in Accounts, NEW e \in Esme, Save(c, id, e) PROVE EsmeInv'
  <1>1. /\ call[c].at \in {"rest", "copy"} /\ Enter(c, "save_index", id, e)
        /\ UNCHANGED <<esmes, id_index>>
        /\ overlapped' = IF \E d \in Admins : Saves(d, id) THEN overlapped \cup {id} ELSE overlapped
    BY DEF Save, Resting, At, Saves
  <1>2. EsmeTypeOK  BY DEF EsmeInv
  <1>3. EsmeTypeOK'  BY <1>1, <1>2, Entered DEF EsmeTypeOK
  <1>4. /\ call'[c].at = "save_index" /\ call'[c].id = id /\ call'[c].esme = e
        /\ \A d \in Admins : d # c => call'[d] = call[d]
    BY <1>1, <1>2, Entered
  <1>5. HandsFull'  BY <1>4 DEF EsmeInv, HandsFull
  <1>6. OneSaver'
    <2> SUFFICES ASSUME NEW i \in Accounts, i \notin overlapped', NEW a \in Admins, NEW b \in Admins,
                        Saves(a, i)', Saves(b, i)'
                 PROVE  a = b
      BY DEF OneSaver
    <2>1. \A d \in Admins : d # c => (Saves(d, i)' <=> Saves(d, i))  BY <1>4 DEF Saves
    <2>2. i \notin overlapped  BY <1>1
    <2>3. CASE i = id  BY <1>1, <2>1, <2>3 DEF Saves
    <2>4. CASE i # id  BY <1>4, <2>1, <2>2, <2>4 DEF Saves, EsmeInv, OneSaver
    <2>5. QED  BY <2>3, <2>4
  <1>7. Removed'  BY <1>1, <1>4 DEF EsmeInv, Removed
  <1>8. EntriesAgree'
    <2> SUFFICES ASSUME NEW sid \in SystemIds, NEW i \in Accounts, i \notin overlapped',
                        <<sid, i>> \in id_index
                 PROVE  EntryMade(sid, i)' \/ EntryKept(sid, i)'
      BY <1>1 DEF EntriesAgree
    <2>1. i \notin overlapped  BY <1>1
    <2>2. EntryMade(sid, i) \/ EntryKept(sid, i)  BY <2>1 DEF EsmeInv, EntriesAgree
    <2>3. EntryMade(sid, i) => EntryMade(sid, i)'  BY <1>1, <1>4 DEF EntryMade, Stores
    <2>4. EntryKept(sid, i) => EntryKept(sid, i)'  BY <1>1, <1>4 DEF EntryKept, Stores
    <2>5. QED  BY <2>2, <2>3, <2>4
  <1>9. QED  BY <1>3, <1>5, <1>6, <1>7, <1>8 DEF EsmeInv

\* save writes the index: the entry of the account's old system_id goes, the new one comes.
LEMMA SaveIndexStep == ASSUME EsmeInv, NEW c \in Admins, SaveIndex(c) PROVE EsmeInv'
  <1> DEFINE id == call[c].id
             e == call[c].esme
  <1>1. /\ call[c].at = "save_index" /\ Enter(c, "save_esmes", id, e)
        /\ \A d \in Admins : call[d].at # "delete"
        /\ id_index' = {p \in id_index : p[1] \notin {esmes[id].system_id, e.system_id}}
                          \cup {<<e.system_id, id>>}
        /\ UNCHANGED <<esmes, overlapped>>
    BY DEF SaveIndex, EsmesWritten, At
  <1>2. EsmeTypeOK /\ id \in Accounts /\ e \in Esme  BY <1>1 DEF EsmeInv, HandsFull
  <1> HIDE DEF id, e
  <1>3. e.system_id \in SystemIds  BY <1>2 DEF Esme
  <1>4. EsmeTypeOK'
    <2>1. id_index' \subseteq SystemIds \X Accounts  BY <1>1, <1>2, <1>3 DEF EsmeTypeOK
    <2>2. QED  BY <1>1, <1>2, <2>1, Entered DEF EsmeTypeOK
  <1>5. /\ call'[c].at = "save_esmes" /\ call'[c].id = id /\ call'[c].esme = e
        /\ \A d \in Admins : d # c => call'[d] = call[d]
    BY <1>1, <1>2, Entered
  <1>6. HandsFull'  BY <1>2, <1>5 DEF EsmeInv, HandsFull
  <1>7. OneSaver'
    <2>1. \A i \in Accounts, d \in Admins : Saves(d, i)' => Saves(d, i)  BY <1>1, <1>5 DEF Saves, id
    <2>2. QED  BY <1>1, <2>1 DEF EsmeInv, OneSaver
  <1>8. Removed'  BY <1>1, <1>5 DEF EsmeInv, Removed
  <1>9. EntriesAgree'
    <2> SUFFICES ASSUME NEW sid \in SystemIds, NEW i \in Accounts, i \notin overlapped,
                        <<sid, i>> \in id_index'
                 PROVE  EntryMade(sid, i)' \/ EntryKept(sid, i)'
      BY <1>1 DEF EntriesAgree
    <2>1. CASE <<sid, i>> = <<e.system_id, id>>
      <3>1. EntryMade(sid, i)'  BY <1>5, <2>1 DEF EntryMade, Stores
      <3>2. QED  BY <3>1
    <2>2. CASE <<sid, i>> \in id_index /\ sid # esmes[id].system_id
      <3>1. EntryMade(sid, i) \/ EntryKept(sid, i)  BY <2>2 DEF EsmeInv, EntriesAgree
      <3>2. i # id
        <4> SUFFICES ASSUME i = id PROVE FALSE
          OBVIOUS
        <4>1. Saves(c, i)  BY <1>1 DEF Saves, id
        <4>2. \A d \in Admins : Stores(d, i) => d = c
          BY <1>2, <4>1 DEF Saves, Stores, EsmeInv, OneSaver
        <4>3. \A d \in Admins : ~Stores(d, i)  BY <1>1, <4>2 DEF Stores
        <4>4. EntryKept(sid, i)  BY <3>1, <4>3 DEF EntryMade
        <4>5. QED  BY <1>1, <2>2, <4>4 DEF EntryKept
      <3>3. \A d \in Admins : Stores(d, i)' <=> Stores(d, i)  BY <1>1, <1>5, <3>2 DEF Stores
      <3>4. EntryMade(sid, i) => EntryMade(sid, i)'  BY <1>1, <1>5, <3>2 DEF EntryMade, Stores
      <3>5. EntryKept(sid, i) => EntryKept(sid, i)'  BY <1>1, <1>5, <3>2, <3>3 DEF EntryKept
      <3>6. QED  BY <3>1, <3>4, <3>5
    <2>3. QED  BY <1>1, <2>1, <2>2
  <1>10. QED  BY <1>4, <1>6, <1>7, <1>8, <1>9 DEF EsmeInv

\* save stores the account: what its entry says is true from now on.
LEMMA SaveEsmeStep == ASSUME EsmeInv, NEW c \in Admins, SaveEsme(c) PROVE EsmeInv'
  <1> DEFINE id == call[c].id
             e == call[c].esme
  <1>1. /\ call[c].at = "save_esmes" /\ Leave(c) /\ \A d \in Admins : call[d].at # "delete"
        /\ esmes' = [esmes EXCEPT ![id] = e] /\ UNCHANGED <<id_index, overlapped>>
    BY DEF SaveEsme, EsmesWritten, At
  <1>2. EsmeTypeOK /\ id \in Accounts /\ e \in Esme  BY <1>1 DEF EsmeInv, HandsFull
  <1> HIDE DEF id, e
  <1>3. call'[c].at = "rest" /\ \A d \in Admins : d # c => call'[d] = call[d]  BY <1>1, <1>2, Left
  <1>4. EsmeTypeOK'  BY <1>1, <1>2, Left DEF EsmeTypeOK
  <1>5. HandsFull'  BY <1>3 DEF EsmeInv, HandsFull
  <1>6. OneSaver'
    <2>1. \A i \in Accounts, d \in Admins : Saves(d, i)' => Saves(d, i)  BY <1>3 DEF Saves
    <2>2. QED  BY <1>1, <2>1 DEF EsmeInv, OneSaver
  <1>7. Removed'  BY <1>1, <1>3 DEF EsmeInv, Removed
  <1>8. EntriesAgree'
    <2> SUFFICES ASSUME NEW sid \in SystemIds, NEW i \in Accounts, i \notin overlapped,
                        <<sid, i>> \in id_index
                 PROVE  EntryMade(sid, i)' \/ EntryKept(sid, i)'
      BY <1>1 DEF EntriesAgree
    <2>1. EntryMade(sid, i) \/ EntryKept(sid, i)  BY DEF EsmeInv, EntriesAgree
    <2>2. esmes'[i] = IF i = id THEN e ELSE esmes[i]  BY <1>1, <1>2 DEF EsmeTypeOK
    <2>3. CASE i = id
      <3>1. Stores(c, i)  BY <1>1, <2>3 DEF Stores, id
      <3>2. \A d \in Admins : Stores(d, i) => d = c
        BY <3>1 DEF Saves, Stores, EsmeInv, OneSaver
      <3>3. e.system_id = sid  BY <2>1, <3>1, <3>2 DEF EntryMade, EntryKept, e
      <3>4. \A d \in Admins : ~Stores(d, i)'  BY <1>3, <3>2 DEF Stores
      <3>5. EntryKept(sid, i)'  BY <2>2, <2>3, <3>3, <3>4 DEF EntryKept
      <3>6. QED  BY <3>5
    <2>4. CASE i # id
      <3>1. ~Stores(c, i)  BY <2>4 DEF Stores, id
      <3>2. EntryMade(sid, i) => EntryMade(sid, i)'  BY <1>3, <3>1 DEF EntryMade, Stores
      <3>3. EntryKept(sid, i) => EntryKept(sid, i)'
        BY <1>1, <1>3, <2>2, <2>4 DEF EntryKept, Stores
      <3>4. QED  BY <2>1, <3>2, <3>3
    <2>5. QED  BY <2>3, <2>4
  <1>9. QED  BY <1>4, <1>5, <1>6, <1>7, <1>8 DEF EsmeInv

\* delete takes the account away and keeps a copy: its entry is now the copy's.
LEMMA DeleteStep ==
    ASSUME EsmeInv, NEW c \in Admins, NEW id \in Accounts, Delete(c, id) PROVE EsmeInv'
  <1> DEFINE e == esmes[id]
  <1>1. /\ call[c].at = "rest" /\ \A d \in Admins : call[d].at # "delete" /\ e # NoEsme
        /\ esmes' = [esmes EXCEPT ![id] = NoEsme] /\ Enter(c, "delete", id, e)
        /\ UNCHANGED <<id_index, overlapped>>
    BY DEF Delete, Resting, EsmesWritten, At, Exists
  <1>2. EsmeTypeOK /\ e \in Esme  BY <1>1 DEF EsmeInv, EsmeTypeOK
  <1> HIDE DEF e
  <1>3. /\ call'[c].at = "delete" /\ call'[c].id = id /\ call'[c].esme = e
        /\ \A d \in Admins : d # c => call'[d] = call[d]
    BY <1>1, <1>2, Entered
  <1>4. EsmeTypeOK'  BY <1>1, <1>2, Entered DEF EsmeTypeOK
  <1>5. HandsFull'  BY <1>2, <1>3 DEF EsmeInv, HandsFull
  <1>6. OneSaver'
    <2>1. \A i \in Accounts, d \in Admins : Saves(d, i)' => Saves(d, i)  BY <1>3 DEF Saves
    <2>2. QED  BY <1>1, <2>1 DEF EsmeInv, OneSaver
  <1>7. Removed'  BY <1>1, <1>2, <1>3 DEF Removed, EsmeTypeOK
  <1>8. EntriesAgree'
    <2> SUFFICES ASSUME NEW sid \in SystemIds, NEW i \in Accounts, i \notin overlapped,
                        <<sid, i>> \in id_index
                 PROVE  EntryMade(sid, i)' \/ EntryKept(sid, i)'
      BY <1>1 DEF EntriesAgree
    <2>1. EntryMade(sid, i) \/ EntryKept(sid, i)  BY DEF EsmeInv, EntriesAgree
    <2>2. EntryMade(sid, i) => EntryMade(sid, i)'  BY <1>1, <1>3 DEF EntryMade, Stores
    <2>3. ASSUME EntryKept(sid, i) PROVE EntryKept(sid, i)'
      <3>1. \A d \in Admins : ~Stores(d, i)'  BY <1>3, <2>3 DEF EntryKept, Stores
      <3>2. esmes[i].system_id = sid  BY <1>1, <2>3 DEF EntryKept
      <3>3. CASE i = id  BY <1>3, <3>1, <3>2, <3>3 DEF EntryKept, e
      <3>4. CASE i # id
        <4>1. esmes'[i] = esmes[i]  BY <1>1, <1>2, <3>4 DEF EsmeTypeOK
        <4>2. QED  BY <3>1, <3>2, <4>1 DEF EntryKept
      <3>5. QED  BY <3>3, <3>4
    <2>4. QED  BY <2>1, <2>2, <2>3
  <1>9. QED  BY <1>4, <1>5, <1>6, <1>7, <1>8 DEF EsmeInv

\* delete removes the entry of its copy and releases the accounts.
LEMMA DeleteIndexStep == ASSUME EsmeInv, NEW c \in Admins, DeleteIndex(c) PROVE EsmeInv'
  <1> DEFINE e == call[c].esme
  <1>1. /\ call[c].at = "delete" /\ Leave(c) /\ UNCHANGED <<esmes, overlapped>>
        /\ id_index' = {p \in id_index : p[1] # e.system_id}
    BY DEF DeleteIndex
  <1>2. EsmeTypeOK  BY DEF EsmeInv
  <1> HIDE DEF e
  <1>3. call'[c].at = "rest" /\ \A d \in Admins : d # c => call'[d] = call[d]  BY <1>1, <1>2, Left
  <1>4. EsmeTypeOK'  BY <1>1, <1>2, Left DEF EsmeTypeOK
  <1>5. HandsFull'  BY <1>3 DEF EsmeInv, HandsFull
  <1>6. OneSaver'
    <2>1. \A i \in Accounts, d \in Admins : Saves(d, i)' => Saves(d, i)  BY <1>3 DEF Saves
    <2>2. QED  BY <1>1, <2>1 DEF EsmeInv, OneSaver
  <1>7. Removed'  BY <1>1, <1>3 DEF EsmeInv, Removed
  <1>8. EntriesAgree'
    <2> SUFFICES ASSUME NEW sid \in SystemIds, NEW i \in Accounts, i \notin overlapped,
                        <<sid, i>> \in id_index'
                 PROVE  EntryMade(sid, i)' \/ EntryKept(sid, i)'
      BY <1>1 DEF EntriesAgree
    <2>1. <<sid, i>> \in id_index /\ sid # e.system_id  BY <1>1
    <2>2. EntryMade(sid, i) \/ EntryKept(sid, i)  BY <2>1 DEF EsmeInv, EntriesAgree
    <2>3. EntryMade(sid, i) => EntryMade(sid, i)'  BY <1>1, <1>3 DEF EntryMade, Stores
    <2>4. EntryKept(sid, i) => EntryKept(sid, i)'
      BY <1>1, <1>3, <2>1 DEF EntryKept, Stores, e
    <2>5. QED  BY <2>2, <2>3, <2>4
  <1>9. QED  BY <1>4, <1>5, <1>6, <1>7, <1>8 DEF EsmeInv

\* reset_daily_quotas and reset_monthly_quotas leave the system_ids alone.
LEMMA ResetStep == ASSUME EsmeInv, NEW kinds, ResetQuotas(kinds) PROVE EsmeInv'
  <1> DEFINE after(u) == [q \in QuotaKinds |-> IF q \in kinds THEN 0 ELSE u[q]]
  <1>1. /\ esmes' = [id \in Accounts |-> [esmes[id] EXCEPT !.used = after(@)]]
        /\ UNCHANGED <<id_index, call, overlapped>>
    BY DEF ResetQuotas
  <1>2. EsmeTypeOK  BY DEF EsmeInv
  <1>3. ASSUME NEW id \in Accounts
        PROVE  /\ esmes'[id] \in Esme \cup {NoEsme} /\ esmes'[id].system_id = esmes[id].system_id
               /\ esmes[id] = NoEsme => esmes'[id] = NoEsme
    <2>1. PICK u : u = after(esmes[id].used)  OBVIOUS
    <2>5. esmes'[id] = [esmes[id] EXCEPT !.used = u]  BY <1>1, <2>1
    <2>2. CASE esmes[id] \in Esme
      <3>1. esmes'[id] = [system_id |-> esmes[id].system_id, used |-> u]  BY <2>5, <2>2 DEF Esme
      <3>2. esmes[id].system_id \in SystemIds /\ u \in [QuotaKinds -> 0..MaxUsed]
        <4>1. esmes[id].used \in [QuotaKinds -> 0..MaxUsed]  BY <2>2 DEF Esme
        <4> QED  BY <2>1, <2>2, <4>1, EsmeAssumption DEF Esme
      <3>3. esmes[id] # NoEsme \/ u = Unused  BY <2>1 DEF NoEsme, Unused
      <3>4. QED  BY <2>2, <3>1, <3>2, <3>3 DEF Esme, NoEsme
    <2>3. CASE esmes[id] = NoEsme
      <3>1. u = Unused  BY <2>1, <2>3 DEF NoEsme, Unused
      <3> QED  BY <2>3, <2>5, <3>1 DEF NoEsme
    <2>4. QED  BY <1>2, <2>2, <2>3 DEF EsmeTypeOK
  <1>4. EsmeTypeOK'  BY <1>1, <1>2, <1>3 DEF EsmeTypeOK
  <1>5. HandsFull' /\ OneSaver'  BY <1>1 DEF EsmeInv, HandsFull, OneSaver, Saves
  <1>6. Removed'  BY <1>1, <1>3 DEF EsmeInv, Removed, HandsFull
  <1>7. EntriesAgree'
    <2> SUFFICES ASSUME NEW sid \in SystemIds, NEW i \in Accounts, i \notin overlapped,
                        <<sid, i>> \in id_index
                 PROVE  EntryMade(sid, i)' \/ EntryKept(sid, i)'
      BY <1>1 DEF EntriesAgree
    <2>1. EntryMade(sid, i) \/ EntryKept(sid, i)  BY DEF EsmeInv, EntriesAgree
    <2>2. EntryMade(sid, i) => EntryMade(sid, i)'  BY <1>1 DEF EntryMade, Stores
    <2>3. EntryKept(sid, i) => EntryKept(sid, i)'  BY <1>1, <1>3 DEF EntryKept, Stores
    <2>4. QED  BY <2>1, <2>2, <2>3
  <1>8. QED  BY <1>4, <1>5, <1>6, <1>7 DEF EsmeInv

\* Every step of the ESME store keeps its invariant.
LEMMA EsmeStep == EsmeInv /\ [EsmeNext]_es_vars => EsmeInv'
  <1> SUFFICES ASSUME EsmeInv, [EsmeNext]_es_vars PROVE EsmeInv'
    OBVIOUS
  <1>1. ASSUME NEW c \in Admins, Proceed(c) PROVE EsmeInv'
    <2>1. ASSUME call[c].at = "copy", Save(c, call[c].id, call[c].esme) PROVE EsmeInv'
      <3>1. call[c].id \in Accounts /\ call[c].esme \in Esme  BY <2>1 DEF EsmeInv, HandsFull
      <3>2. QED  BY <2>1, <3>1, SaveStep
    <2>2. QED
      BY <1>1, <2>1, SaveIndexStep, SaveEsmeStep, DeleteIndexStep, LookupStep DEF Proceed
  <1>2. ASSUME NEW c \in Admins, NEW id \in Accounts, NEW sid \in SystemIds,
               Save(c, id, [system_id |-> sid, used |-> Unused])
        PROVE  EsmeInv'
    <2>1. [system_id |-> sid, used |-> Unused] \in Esme  BY EsmeAssumption DEF Esme, Unused
    <2>2. QED  BY <1>2, <2>1, SaveStep
  <1>3. CASE UNCHANGED es_vars
    BY <1>3 DEF es_vars, EsmeInv, EsmeTypeOK, HandsFull, OneSaver, Saves, Removed, EntriesAgree,
                EntryMade, EntryKept, Stores
  <1>4. QED
    BY <1>1, <1>2, <1>3, ResetStep, DeleteStep, GetAndRecordStep, LookupStep DEF EsmeNext

\* At every moment, every entry of the index of system_ids is explained by a save that is
\* about to finish, by the account itself or by a delete that is about to drop the entry.
THEOREM EsmeInvariant == EsmeSpec => []EsmeInv
  <1>1. QED  BY EsmeStart, EsmeStep, PTL DEF EsmeSpec

\* The maps of MemoryEsmeStore and its callers keep their types.
THEOREM EsmeTyped == EsmeSpec => []EsmeTypeOK
  <1>1. EsmeInv => EsmeTypeOK  BY DEF EsmeInv
  <1>2. QED  BY <1>1, EsmeInvariant, PTL

\* The account that the index gives for a system_id has that system_id or is gone, unless it
\* is just being saved or two saves of it overlapped: an ESME is never authenticated as another.
THEOREM IndexIsTruthful == EsmeSpec => []TruthfulIndex
  <1>1. EsmeInv => TruthfulIndex
    <2> SUFFICES ASSUME EsmeInv, NEW p \in id_index, p[2] \notin overlapped
                 PROVE  \/ \E c \in At({"save_esmes"}) : call[c].id = p[2]
                        \/ authenticate(p[2], TRUE, TRUE, TRUE) = "NotFound"
                        \/ esmes[p[2]].system_id = p[1]
      BY DEF TruthfulIndex
    <2>1. p[1] \in SystemIds /\ p[2] \in Accounts /\ p = <<p[1], p[2]>>  BY DEF EsmeInv, EsmeTypeOK
    <2>2. EntryMade(p[1], p[2]) \/ EntryKept(p[1], p[2])  BY <2>1 DEF EsmeInv, EntriesAgree
    <2>3. CASE EntryMade(p[1], p[2])  BY <2>3 DEF EntryMade, Stores, At
    <2>4. CASE EntryKept(p[1], p[2])
      <3>1. ASSUME NEW c \in Admins, call[c].at = "delete", call[c].id = p[2]
            PROVE  authenticate(p[2], TRUE, TRUE, TRUE) = "NotFound"
        <4>1. ~Exists(p[2])  BY <3>1 DEF EsmeInv, Removed, Exists
        <4>2. QED  BY <4>1 DEF authenticate
      <3>2. QED  BY <2>4, <3>1 DEF EntryKept
    <2>5. QED  BY <2>2, <2>3, <2>4
  <1>2. QED  BY <1>1, EsmeInvariant, PTL
---------------------------------------------------------------------------
(* Configurations *)

Kinds == {"idle"} \cup Saving \cup Updating \cup Reloading
ConfigurationTypes ==
    /\ ConfigurationTypeOK
    /\ doing \in [Operators -> [at : Kinds, cfg : Configs \cup {NoFile}]]

\* What a task carries has passed the checks that come before the step it is at.
WorkIsValid ==
    \A a \in Operators :
        /\ doing[a].at \in Saving \cup Updating => Loads(doing[a].cfg)
        /\ doing[a].at = "router" => Loads(doing[a].cfg)
        /\ doing[a].at = "config" => Starts(doing[a].cfg)

InForce ==
    /\ stored = Down \/ validate(stored)
    /\ watched = Down \/ validate(watched)
    /\ started = Down \/ Starts(started)
    /\ router = Down \/ Starts(router)
    /\ admin = Down \/ Starts(admin)

\* Saves that never met: the temporary file is the one saver's, torn until it is written.
SavesApart ==
    Saving \notin crossed =>
        /\ file # Torn
        /\ \A a, b \in Operators : doing[a].at \in Saving /\ doing[b].at \in Saving => a = b
        /\ \A a \in Operators :
              /\ doing[a].at \notin {"renamed", "replaced"}
              /\ doing[a].at = "write" => temp = Torn
              /\ doing[a].at = "rename" => temp \in Configs

\* Updates that never met: the watchers lag behind by the one update under way.
UpdatesApart ==
    Updating \notin crossed =>
        /\ \A a, b \in Operators : doing[a].at = "send" /\ doing[b].at = "send" => a = b
        /\ \A a \in Operators : doing[a].at = "send" => doing[a].cfg = stored
        /\ (\A a \in Operators : doing[a].at # "send") => watched = stored

\* Reloads that never met: the admin API lags behind by the one reload under way.
ReloadsApart ==
    Reloading \notin crossed =>
        /\ \A a, b \in Operators : doing[a].at \in Reloading /\ doing[b].at \in Reloading => a = b
        /\ \A a \in Operators : doing[a].at = "config" => doing[a].cfg = router
        /\ (\A a \in Operators : doing[a].at # "config") => admin = router

ConfigurationInv ==
    ConfigurationTypes /\ WorkIsValid /\ InForce /\ SavesApart /\ UpdatesApart /\ ReloadsApart

\* The three kinds of work are told apart.
LEMMA KindsDiffer == Saving # Updating /\ Saving # Reloading /\ Updating # Reloading
  <1>1. "write" \in Saving /\ "write" \notin Updating /\ "write" \notin Reloading
    BY DEF Saving, Updating, Reloading
  <1>2. "send" \in Updating /\ "send" \notin Reloading  BY DEF Updating, Reloading
  <1>3. QED  BY <1>1, <1>2

\* At first every reader has the configuration the process started from.
LEMMA ConfigurationStart == ConfigurationInit => ConfigurationInv
  <1> SUFFICES ASSUME ConfigurationInit PROVE ConfigurationInv
    OBVIOUS
  <1>1. \A a \in Operators : doing[a] = NoWork  BY DEF ConfigurationInit
  <1>2. file \in Configs /\ Starts(file) /\ validate(file)  BY DEF ConfigurationInit, Startable, Starts, Loads
  <1>3. ConfigurationTypes
    BY <1>1, <1>2 DEF ConfigurationInit, ConfigurationTypes, ConfigurationTypeOK, Kinds, NoWork
  <1>4. InForce  BY <1>2 DEF ConfigurationInit, InForce
  <1>5. file # Torn  BY <1>2, ConfigsAssumption
  <1>6. QED
    BY <1>1, <1>3, <1>4, <1>5 DEF ConfigurationInit, ConfigurationInv, WorkIsValid, SavesApart, UpdatesApart,
       ReloadsApart, NoWork, Saving, Updating, Reloading

\* One task goes on to w, the others stay where they are.
Turn(a, w) == doing' = [doing EXCEPT ![a] = w]

\* What a step does to the task that takes it.
LEMMA Turned ==
    ASSUME ConfigurationTypes, NEW a \in Operators, NEW at \in Kinds, NEW c \in Configs \cup {NoFile},
           Turn(a, [at |-> at, cfg |-> c])
    PROVE  /\ doing'[a].at = at /\ doing'[a].cfg = c
           /\ \A b \in Operators : b # a => doing'[b] = doing[b]
           /\ doing' \in [Operators -> [at : Kinds, cfg : Configs \cup {NoFile}]]
  BY DEF Turn, ConfigurationTypes

\* Seeing others at the same work.
LEMMA Crosses ==
    ASSUME NEW a \in Operators, NEW kind, NEW other, other # kind, Crossing(a, kind)
    PROVE  /\ other \notin crossed' <=> other \notin crossed
           /\ kind \notin crossed' => /\ kind \notin crossed
                                      /\ \A b \in Operators : b # a => doing[b].at \notin kind
  BY DEF Crossing

\* A save of a valid configuration creates the temporary file.
LEMMA SaveBeginStep ==
    ASSUME ConfigurationInv, NEW a \in Operators, NEW c \in Configs, SaveBegin(a, c) PROVE ConfigurationInv'
  <1>1. /\ doing[a].at = "idle" /\ validate(c) /\ temp' = Torn /\ Turn(a, [at |-> "write", cfg |-> c])
        /\ Crossing(a, Saving) /\ UNCHANGED <<file, stored, watched, started, router, admin>>
    BY DEF SaveBegin, Turn
  <1>2. ConfigurationTypes  BY DEF ConfigurationInv
  <1>3. /\ doing'[a].at = "write" /\ doing'[a].cfg = c
        /\ \A b \in Operators : b # a => doing'[b] = doing[b]
        /\ doing' \in [Operators -> [at : Kinds, cfg : Configs \cup {NoFile}]]
    BY <1>1, <1>2, Turned DEF Kinds, Saving
  <1>4. ConfigurationTypes'
    BY <1>1, <1>2, <1>3 DEF ConfigurationTypes, ConfigurationTypeOK, Kinds
  <1>5. WorkIsValid'  BY <1>1, <1>3 DEF ConfigurationInv, WorkIsValid, Loads
  <1>6. InForce'  BY <1>1 DEF ConfigurationInv, InForce
  <1>7. SavesApart'
    <2> SUFFICES ASSUME Saving \notin crossed' PROVE SavesApart'
      BY DEF SavesApart
    <2>1. Saving \notin crossed /\ \A b \in Operators : b # a => doing[b].at \notin Saving
      BY <1>1, KindsDiffer, Crosses
    <2>2. QED  BY <1>1, <1>3, <2>1 DEF ConfigurationInv, SavesApart, Saving
  <1>8. UpdatesApart'
    <2>1. Updating \notin crossed' => Updating \notin crossed  BY <1>1, KindsDiffer, Crosses
    <2>2. QED  BY <1>1, <1>3, <2>1 DEF ConfigurationInv, UpdatesApart
  <1>9. ReloadsApart'
    <2>1. Reloading \notin crossed' => Reloading \notin crossed  BY <1>1, KindsDiffer, Crosses
    <2>2. QED  BY <1>1, <1>3, <2>1 DEF ConfigurationInv, ReloadsApart, Reloading
  <1>10. QED  BY <1>4, <1>5, <1>6, <1>7, <1>8, <1>9 DEF ConfigurationInv

\* It writes the temporary file.
LEMMA SaveWriteStep == ASSUME ConfigurationInv, NEW a \in Operators, SaveWrite(a) PROVE ConfigurationInv'
  <1> DEFINE c == doing[a].cfg
  <1>1. /\ doing[a].at \in {"write", "renamed", "replaced"}
        /\ doing' = [doing EXCEPT ![a].at = "rename"]
        /\ UNCHANGED <<stored, watched, started, router, admin, crossed>>
    BY DEF SaveWrite
  <1>2. ConfigurationTypes /\ c \in Configs
    BY <1>1 DEF ConfigurationInv, WorkIsValid, Saving, Loads
  <1>3. /\ doing'[a].at = "rename" /\ doing'[a].cfg = c
        /\ \A b \in Operators : b # a => doing'[b] = doing[b]
        /\ doing' \in [Operators -> [at : Kinds, cfg : Configs \cup {NoFile}]]
    BY <1>1, <1>2 DEF ConfigurationTypes, Kinds, Saving
  <1>4. ConfigurationTypes'
    <2>1. file' \in Configs \cup {Torn} /\ temp' \in Configs \cup {Torn, NoFile}
      BY <1>2 DEF SaveWrite, Overwritten, ConfigurationTypes, ConfigurationTypeOK
    <2>2. QED  BY <1>1, <1>2, <1>3, <2>1 DEF ConfigurationTypes, ConfigurationTypeOK, Kinds
  <1>5. WorkIsValid'  BY <1>1, <1>3 DEF ConfigurationInv, WorkIsValid, Saving, Updating
  <1>6. InForce'  BY <1>1 DEF ConfigurationInv, InForce
  <1>7. SavesApart'
    <2> SUFFICES ASSUME Saving \notin crossed PROVE SavesApart'
      BY <1>1 DEF SavesApart
    <2>1. SavesApart  BY DEF ConfigurationInv
    <2>2. /\ file # Torn /\ doing[a].at = "write" /\ temp = Torn
          /\ \A b \in Operators : b # a => doing[b].at \notin Saving
      BY <1>1, <2>1 DEF SavesApart, Saving
    <2>3. Alone(a, "write")  BY <2>2 DEF Alone, Saving
    <2>4. temp' = c /\ file' = file  BY <2>2, <2>3 DEF SaveWrite, Overwritten
    <2>5. QED  BY <1>2, <1>3, <2>2, <2>4 DEF SavesApart, Saving
  <1>8. UpdatesApart'  BY <1>1, <1>3 DEF ConfigurationInv, UpdatesApart
  <1>9. ReloadsApart'  BY <1>1, <1>3 DEF ConfigurationInv, ReloadsApart, Reloading
  <1>10. QED  BY <1>4, <1>5, <1>6, <1>7, <1>8, <1>9 DEF ConfigurationInv

\* It renames the temporary file over the configuration.
LEMMA SaveRenameStep == ASSUME ConfigurationInv, NEW a \in Operators, SaveRename(a) PROVE ConfigurationInv'
  <1>1. /\ doing[a].at = "rename" /\ file' = (IF temp = NoFile THEN file ELSE temp) /\ temp' = NoFile
        /\ UNCHANGED <<stored, watched, started, router, admin, crossed>>
    BY DEF SaveRename
  <1>2. ConfigurationTypes  BY DEF ConfigurationInv
  <1>3. /\ doing'[a] = NoWork
        /\ \A b \in Operators :
              /\ doing[b].at \notin {"write", "renamed"} /\ b # a => doing'[b] = doing[b]
              /\ doing[b].at \in {"write", "renamed"} /\ b # a =>
                    doing'[b].at \in Saving /\ doing'[b].cfg = doing[b].cfg
        /\ doing' \in [Operators -> [at : Kinds, cfg : Configs \cup {NoFile}]]
    <2>1. ASSUME NEW b \in Operators, b # a, doing[b].at \in {"write", "renamed"}
          PROVE  /\ doing'[b] \in [at : Kinds, cfg : Configs \cup {NoFile}]
                 /\ doing'[b].at \in Saving /\ doing'[b].cfg = doing[b].cfg
      <3>1. doing[b] \in [at : Kinds, cfg : Configs \cup {NoFile}]  BY <1>2 DEF ConfigurationTypes
      <3>2. \/ doing'[b] = doing[b]
            \/ doing'[b] = [doing[b] EXCEPT !.at = "renamed"]
            \/ doing'[b] = [doing[b] EXCEPT !.at = "replaced"]
        BY <2>1 DEF SaveRename
      <3>3. QED  BY <2>1, <3>1, <3>2 DEF Kinds, Saving
    <2>2. ASSUME NEW b \in Operators, b # a, doing[b].at \notin {"write", "renamed"}
          PROVE  doing'[b] = doing[b] /\ doing[b] \in [at : Kinds, cfg : Configs \cup {NoFile}]
      BY <1>2, <2>2 DEF SaveRename, ConfigurationTypes
    <2>3. doing'[a] = NoWork /\ NoWork \in [at : Kinds, cfg : Configs \cup {NoFile}]
      BY DEF SaveRename, NoWork, Kinds
    <2>4. doing' = [b \in Operators |-> doing'[b]]  BY DEF SaveRename
    <2>5. QED  BY <2>1, <2>2, <2>3, <2>4
  <1>4. ConfigurationTypes'
    BY <1>1, <1>2, <1>3 DEF ConfigurationTypes, ConfigurationTypeOK, Kinds
  <1>5. WorkIsValid'
    BY <1>1, <1>3 DEF ConfigurationInv, WorkIsValid, Saving, Updating, NoWork
  <1>6. InForce'  BY <1>1 DEF ConfigurationInv, InForce
  <1>7. SavesApart'
    <2> SUFFICES ASSUME Saving \notin crossed PROVE SavesApart'
      BY <1>1 DEF SavesApart
    <2>1. SavesApart  BY DEF ConfigurationInv
    <2>2. temp \in Configs /\ \A b \in Operators : b # a => doing[b].at \notin Saving
      BY <1>1, <2>1 DEF SavesApart, Saving
    <2>3. file' # Torn  BY <1>1, <2>2, ConfigsAssumption
    <2>4. \A b \in Operators : doing'[b].at \notin Saving  BY <1>3, <2>2 DEF NoWork, Saving
    <2>5. QED  BY <2>3, <2>4 DEF SavesApart, Saving
  <1>8. UpdatesApart'
    BY <1>1, <1>3 DEF ConfigurationInv, UpdatesApart, NoWork, Saving
  <1>9. ReloadsApart'
    BY <1>1, <1>3 DEF ConfigurationInv, ReloadsApart, Reloading, NoWork, Saving
  <1>10. QED  BY <1>4, <1>5, <1>6, <1>7, <1>8, <1>9 DEF ConfigurationInv

\* An update of the store in memory replaces what is stored.
LEMMA UpdateStoredStep ==
    ASSUME ConfigurationInv, NEW a \in Operators, NEW c \in Configs, UpdateStored(a, c) PROVE ConfigurationInv'
  <1>1. /\ doing[a].at = "idle" /\ validate(c) /\ stored' = c /\ Turn(a, [at |-> "send", cfg |-> c])
        /\ Crossing(a, Updating) /\ UNCHANGED <<file, temp, watched, started, router, admin>>
    BY DEF UpdateStored, Turn
  <1>2. ConfigurationTypes  BY DEF ConfigurationInv
  <1>3. /\ doing'[a].at = "send" /\ doing'[a].cfg = c
        /\ \A b \in Operators : b # a => doing'[b] = doing[b]
        /\ doing' \in [Operators -> [at : Kinds, cfg : Configs \cup {NoFile}]]
    BY <1>1, <1>2, Turned DEF Kinds, Updating
  <1>4. ConfigurationTypes'
    BY <1>1, <1>2, <1>3 DEF ConfigurationTypes, ConfigurationTypeOK, Kinds
  <1>5. WorkIsValid'  BY <1>1, <1>3 DEF ConfigurationInv, WorkIsValid, Loads
  <1>6. InForce'  BY <1>1 DEF ConfigurationInv, InForce
  <1>7. SavesApart'
    <2>1. Saving \notin crossed' => Saving \notin crossed  BY <1>1, KindsDiffer, Crosses
    <2>2. QED  BY <1>1, <1>3, <2>1 DEF ConfigurationInv, SavesApart, Saving
  <1>8. UpdatesApart'
    <2> SUFFICES ASSUME Updating \notin crossed' PROVE UpdatesApart'
      BY DEF UpdatesApart
    <2>1. \A b \in Operators : b # a => doing[b].at # "send"
      BY <1>1, KindsDiffer, Crosses DEF Updating
    <2>2. QED  BY <1>1, <1>3, <2>1 DEF UpdatesApart
  <1>9. ReloadsApart'
    <2>1. Reloading \notin crossed' => Reloading \notin crossed  BY <1>1, KindsDiffer, Crosses
    <2>2. QED  BY <1>1, <1>3, <2>1 DEF ConfigurationInv, ReloadsApart, Reloading
  <1>10. QED  BY <1>4, <1>5, <1>6, <1>7, <1>8, <1>9 DEF ConfigurationInv

\* And then tells the watchers.
LEMMA UpdateSendStep == ASSUME ConfigurationInv, NEW a \in Operators, UpdateSend(a) PROVE ConfigurationInv'
  <1>1. /\ doing[a].at = "send" /\ watched' = doing[a].cfg /\ Turn(a, [at |-> "idle", cfg |-> NoFile])
        /\ UNCHANGED <<file, temp, stored, started, router, admin, crossed>>
    BY DEF UpdateSend, Turn, NoWork
  <1>2. ConfigurationTypes /\ Loads(doing[a].cfg)
    BY <1>1 DEF ConfigurationInv, WorkIsValid, Updating
  <1>3. /\ doing'[a].at = "idle" /\ \A b \in Operators : b # a => doing'[b] = doing[b]
        /\ doing' \in [Operators -> [at : Kinds, cfg : Configs \cup {NoFile}]]
    BY <1>1, <1>2, Turned DEF Kinds
  <1>4. ConfigurationTypes'
    BY <1>1, <1>2, <1>3 DEF ConfigurationTypes, ConfigurationTypeOK, Kinds, Loads
  <1>5. WorkIsValid'
    BY <1>1, <1>3 DEF ConfigurationInv, WorkIsValid, Saving, Updating
  <1>6. InForce'  BY <1>1, <1>2 DEF ConfigurationInv, InForce, Loads
  <1>7. SavesApart'  BY <1>1, <1>3 DEF ConfigurationInv, SavesApart, Saving
  <1>8. UpdatesApart'  BY <1>1, <1>3 DEF ConfigurationInv, UpdatesApart
  <1>9. ReloadsApart'  BY <1>1, <1>3 DEF ConfigurationInv, ReloadsApart, Reloading
  <1>10. QED  BY <1>4, <1>5, <1>6, <1>7, <1>8, <1>9 DEF ConfigurationInv

\* A reload loads and validates the file.
LEMMA ReloadLoadStep == ASSUME ConfigurationInv, NEW a \in Operators, ReloadLoad(a) PROVE ConfigurationInv'
  <1>1. /\ doing[a].at = "idle" /\ Loads(file) /\ Turn(a, [at |-> "router", cfg |-> file])
        /\ Crossing(a, Reloading) /\ UNCHANGED <<file, temp, stored, watched, started, router, admin>>
    BY DEF ReloadLoad, Turn
  <1>2. ConfigurationTypes /\ file \in Configs  BY <1>1 DEF ConfigurationInv, Loads
  <1>3. /\ doing'[a].at = "router" /\ doing'[a].cfg = file
        /\ \A b \in Operators : b # a => doing'[b] = doing[b]
        /\ doing' \in [Operators -> [at : Kinds, cfg : Configs \cup {NoFile}]]
    BY <1>1, <1>2, Turned DEF Kinds, Reloading
  <1>4. ConfigurationTypes'
    BY <1>1, <1>2, <1>3 DEF ConfigurationTypes, ConfigurationTypeOK, Kinds
  <1>5. WorkIsValid'
    BY <1>1, <1>3 DEF ConfigurationInv, WorkIsValid, Saving, Updating
  <1>6. InForce'  BY <1>1 DEF ConfigurationInv, InForce
  <1>7. SavesApart'
    <2>1. Saving \notin crossed' => Saving \notin crossed  BY <1>1, KindsDiffer, Crosses
    <2>2. QED  BY <1>1, <1>3, <2>1 DEF ConfigurationInv, SavesApart, Saving
  <1>8. UpdatesApart'
    <2>1. Updating \notin crossed' => Updating \notin crossed  BY <1>1, KindsDiffer, Crosses
    <2>2. QED  BY <1>1, <1>3, <2>1 DEF ConfigurationInv, UpdatesApart
  <1>9. ReloadsApart'
    <2> SUFFICES ASSUME Reloading \notin crossed' PROVE ReloadsApart'
      BY DEF ReloadsApart
    <2>1. Reloading \notin crossed /\ \A b \in Operators : b # a => doing[b].at \notin Reloading
      BY <1>1, KindsDiffer, Crosses
    <2>2. QED  BY <1>1, <1>3, <2>1 DEF ConfigurationInv, ReloadsApart, Reloading
  <1>10. QED  BY <1>4, <1>5, <1>6, <1>7, <1>8, <1>9 DEF ConfigurationInv

\* It replaces the router.
LEMMA ReloadRouterStep == ASSUME ConfigurationInv, NEW a \in Operators, ReloadRouter(a) PROVE ConfigurationInv'
  <1> DEFINE c == doing[a].cfg
  <1>1. /\ doing[a].at = "router"
        /\ \/ RouterBuilds(c) /\ router' = c /\ Turn(a, [at |-> "config", cfg |-> c])
           \/ router' = router /\ Turn(a, [at |-> "idle", cfg |-> NoFile])
        /\ UNCHANGED <<file, temp, stored, watched, started, admin, crossed>>
    BY DEF ReloadRouter, Turn, NoWork
  <1>2. ConfigurationTypes /\ Loads(c) /\ c \in Configs  BY <1>1 DEF ConfigurationInv, WorkIsValid, Loads
  <1> HIDE DEF c
  <1>3. /\ \A b \in Operators : b # a => doing'[b] = doing[b]
        /\ doing' \in [Operators -> [at : Kinds, cfg : Configs \cup {NoFile}]]
        /\ \/ doing'[a].at = "config" /\ doing'[a].cfg = c /\ router' = c /\ Starts(c)
           \/ doing'[a].at = "idle" /\ router' = router
    <2>1. "config" \in Kinds /\ "idle" \in Kinds  BY DEF Kinds, Reloading
    <2>2. CASE RouterBuilds(c) /\ router' = c /\ Turn(a, [at |-> "config", cfg |-> c])
      BY <1>2, <2>1, <2>2, Turned DEF Starts
    <2>3. CASE router' = router /\ Turn(a, [at |-> "idle", cfg |-> NoFile])
      BY <1>2, <2>1, <2>3, Turned
    <2>4. QED  BY <1>1, <2>2, <2>3
  <1>4. ConfigurationTypes'
    <2>1. router' \in Configs \cup {Down}  BY <1>2, <1>3 DEF ConfigurationTypes, ConfigurationTypeOK
    <2>2. QED  BY <1>1, <1>2, <1>3, <2>1 DEF ConfigurationTypes, ConfigurationTypeOK, Kinds
  <1>5. WorkIsValid'
    BY <1>1, <1>3 DEF ConfigurationInv, WorkIsValid, Saving, Updating
  <1>6. InForce'  BY <1>1, <1>3 DEF ConfigurationInv, InForce
  <1>7. SavesApart'  BY <1>1, <1>3 DEF ConfigurationInv, SavesApart, Saving
  <1>8. UpdatesApart'  BY <1>1, <1>3 DEF ConfigurationInv, UpdatesApart
  <1>9. ReloadsApart'  BY <1>1, <1>3 DEF ConfigurationInv, ReloadsApart, Reloading
  <1>10. QED  BY <1>4, <1>5, <1>6, <1>7, <1>8, <1>9 DEF ConfigurationInv

\* And then what the admin API holds.
LEMMA ReloadConfigStep == ASSUME ConfigurationInv, NEW a \in Operators, ReloadConfig(a) PROVE ConfigurationInv'
  <1>1. /\ doing[a].at = "config" /\ admin' = doing[a].cfg /\ Turn(a, [at |-> "idle", cfg |-> NoFile])
        /\ UNCHANGED <<file, temp, stored, watched, started, router, crossed>>
    BY DEF ReloadConfig, Turn, NoWork
  <1>2. ConfigurationTypes /\ Starts(doing[a].cfg)  BY <1>1 DEF ConfigurationInv, WorkIsValid
  <1>3. /\ doing'[a].at = "idle" /\ \A b \in Operators : b # a => doing'[b] = doing[b]
        /\ doing' \in [Operators -> [at : Kinds, cfg : Configs \cup {NoFile}]]
    BY <1>1, <1>2, Turned DEF Kinds
  <1>4. ConfigurationTypes'
    BY <1>1, <1>2, <1>3 DEF ConfigurationTypes, ConfigurationTypeOK, Kinds, Starts, Loads
  <1>5. WorkIsValid'
    BY <1>1, <1>3 DEF ConfigurationInv, WorkIsValid, Saving, Updating
  <1>6. InForce'  BY <1>1, <1>2 DEF ConfigurationInv, InForce
  <1>7. SavesApart'  BY <1>1, <1>3 DEF ConfigurationInv, SavesApart, Saving
  <1>8. UpdatesApart'  BY <1>1, <1>3 DEF ConfigurationInv, UpdatesApart
  <1>9. ReloadsApart'  BY <1>1, <1>3 DEF ConfigurationInv, ReloadsApart, Reloading
  <1>10. QED  BY <1>4, <1>5, <1>6, <1>7, <1>8, <1>9 DEF ConfigurationInv

\* The file is edited by hand, well or badly.
LEMMA EditFileStep == ASSUME ConfigurationInv, NEW c \in Configs, EditFile(c) PROVE ConfigurationInv'
  <1>1. file' = c /\ c # Torn /\ UNCHANGED <<temp, stored, watched, started, router, admin, doing, crossed>>
    BY ConfigsAssumption DEF EditFile
  <1>2. QED
    BY <1>1 DEF ConfigurationInv, ConfigurationTypes, ConfigurationTypeOK, WorkIsValid, InForce, SavesApart,
       UpdatesApart, ReloadsApart

\* A process that starts again holds what it loads; work that was under way is gone, and the
\* file is as whole as it was.
LEMMA RestartStep == ASSUME ConfigurationInv, Restart PROVE ConfigurationInv'
  <1>1. /\ doing' = [a \in Operators |-> NoWork]
        /\ started' = IF Starts(file) THEN file ELSE Down
        /\ router' = started' /\ admin' = started' /\ stored' = started' /\ watched' = started'
        /\ crossed' = crossed \cap {Saving} /\ UNCHANGED <<file, temp>>
    BY DEF Restart
  <1>2. \A a \in Operators : doing'[a].at = "idle"  BY <1>1 DEF NoWork
  <1>3. started' = Down \/ (Starts(started') /\ validate(started') /\ started' \in Configs)
    BY <1>1 DEF Starts, Loads
  <1>4. ConfigurationTypes'
    BY <1>1, <1>3 DEF ConfigurationInv, ConfigurationTypes, ConfigurationTypeOK, NoWork, Kinds
  <1>5. WorkIsValid'  BY <1>2 DEF WorkIsValid, Saving, Updating
  <1>6. InForce'  BY <1>1, <1>3 DEF InForce
  <1>7. SavesApart'  BY <1>1, <1>2 DEF ConfigurationInv, SavesApart, Saving
  <1>8. UpdatesApart'  BY <1>1, <1>2 DEF UpdatesApart
  <1>9. ReloadsApart'  BY <1>1, <1>2 DEF ReloadsApart, Reloading
  <1>10. QED  BY <1>4, <1>5, <1>6, <1>7, <1>8, <1>9 DEF ConfigurationInv

\* Every step of the configuration keeps its invariant.
LEMMA ConfigurationStep == ConfigurationInv /\ [ConfigurationNext]_cf_vars => ConfigurationInv'
  <1> SUFFICES ASSUME ConfigurationInv, [ConfigurationNext]_cf_vars PROVE ConfigurationInv'
    OBVIOUS
  <1>1. CASE UNCHANGED cf_vars
    BY <1>1 DEF cf_vars, ConfigurationInv, ConfigurationTypes, ConfigurationTypeOK, WorkIsValid, InForce,
       SavesApart, UpdatesApart, ReloadsApart
  <1>2. ASSUME NEW a \in Operators, AdminNext(a) PROVE ConfigurationInv'
    BY <1>2, SaveBeginStep, UpdateStoredStep, SaveWriteStep, SaveRenameStep, UpdateSendStep, ReloadLoadStep,
       ReloadRouterStep, ReloadConfigStep DEF AdminNext
  <1>3. QED  BY <1>1, <1>2, EditFileStep, RestartStep DEF ConfigurationNext

\* Whatever tasks save, update and reload at once, what each carries has passed its checks,
\* and work of one kind that was never done twice at once is done as if nobody else were there.
THEOREM ConfigurationInvariant == ConfigurationSpec => []ConfigurationInv
  <1>1. QED  BY ConfigurationStart, ConfigurationStep, PTL DEF ConfigurationSpec

\* The file, the stores and the tasks hold configurations.
THEOREM ConfigurationTyped == ConfigurationSpec => []ConfigurationTypeOK
  <1>1. ConfigurationInv => ConfigurationTypeOK  BY DEF ConfigurationInv, ConfigurationTypes
  <1>2. QED  BY <1>1, ConfigurationInvariant, PTL

\* Nothing that does not validate is ever stored, watched or in force, a save leaves the file
\* whole across a crash, and once the work is done the watchers agree with the store and the
\* admin API with the router, unless two tasks did the same kind of work at once.
THEOREM OnlyGoodConfigurations == ConfigurationSpec => []ConfigurationHolds
  <1>1. ConfigurationInv => ConfigurationHolds
    <2> SUFFICES ASSUME ConfigurationInv PROVE ConfigurationHolds
      OBVIOUS
    <2>1. NothingBadInForce  BY DEF ConfigurationInv, ConfigurationTypes, ConfigurationTypeOK, InForce, SavesApart, NothingBadInForce, Validated, Startable
    <2>2. ReadersAgree  BY DEF ConfigurationInv, UpdatesApart, ReloadsApart, ReadersAgree, Updating, Reloading
    <2>3. QED  BY <2>1, <2>2 DEF ConfigurationHolds
  <1>2. QED  BY <1>1, ConfigurationInvariant, PTL
---------------------------------------------------------------------------
(* The choice of a route by its price *)

Entry == [cluster : Offers, network : Networks \cup {"default"}, price : Price]
OneSelection ==
    [at : {"read", "done"}, strategy : CostStrategies, network : Networks,
     revenue : Nat \cup {NoRevenue}, todo : Seq(Offers),
     read : Seq([cluster : Offers, price : Price]), best : Offers \cup {"none"}]

PricesTyped ==
    /\ pricing \subseteq Entry
    /\ defaults \subseteq [cluster : Offers, price : Price]
    /\ loading \in Seq(Entry)
    /\ choosing \in OneSelection \cup {NotChoosing}
    /\ steady \in BOOLEAN

\* A selection from no candidates has none to read; any other has read or will read every offer.
AllConsidered ==
    choosing \in OneSelection =>
        \/ choosing.read = <<>> /\ choosing.todo = <<>>
        \/ \A c \in Offers : \/ \E i \in DOMAIN choosing.read : choosing.read[i].cluster = c
                             \/ \E i \in DOMAIN choosing.todo : choosing.todo[i] = c

\* The prices that were read are in force unless one has changed.
ReadInForce ==
    choosing \in OneSelection /\ steady =>
        \A i \in DOMAIN choosing.read, c \in Offers, n \in Networks :
            choosing.read[i].cluster = c /\ choosing.network = n =>
                choosing.read[i].price = get_pricing(c, n)

\* A finished selection has read everything and taken an offer no score of which is higher.
Scored(i) == calculate_score(choosing.read[i].price)
BestOf(i) == \A j \in DOMAIN choosing.read : AtMost(Scored(j), Scored(i))
HighestTaken ==
    choosing \in OneSelection /\ choosing.at = "done" =>
        /\ choosing.todo = <<>>
        /\ choosing.best # "none" =>
              \E i \in DOMAIN choosing.read : choosing.best = choosing.read[i].cluster /\ BestOf(i)

PricingInv == PricesTyped /\ AllConsidered /\ ReadInForce /\ HighestTaken

\* A set of positions that is not empty has a lowest one, which Min is.
LEMMA HasMin ==
    ASSUME NEW S \in SUBSET Nat, S # {}
    PROVE  Min(S) \in S /\ \A y \in S : Min(S) <= y
  <1> DEFINE R == OpToRel(<, Nat)
  <1>1. \E m \in S : \A k \in S : <<k, m>> \notin R
    <2>1. IsWellFoundedOn(R, Nat)  BY NatLessThanWellFounded
    <2> HIDE DEF R
    <2>2. QED  BY <2>1, WFMin
  <1>2. PICK m \in S : \A k \in S : <<k, m>> \notin R  BY <1>1
  <1>3. \A k \in S : ~(k < m)  BY <1>2 DEF OpToRel
  <1> HIDE DEF R
  <1>4. \A k \in S : m <= k  BY <1>3
  <1>5. QED  BY <1>4 DEF Min

\* get_pricing finds a price at the first level that has one.
LEMMA PriceFound ==
    ASSUME PricesTyped, NEW c \in Offers, NEW n \in Networks
    PROVE  get_pricing(c, n) \in Price
  <1> DEFINE own(m) == {p \in pricing : p.cluster = c /\ p.network = m}
             levels == <<own(n), own(NoNetwork), {d \in defaults : d.cluster = c},
                         {[price |-> DefaultPrice]}>>
             k == Min({i \in DOMAIN levels : levels[i] # {}})
  <1>1. DOMAIN levels = 1..4  OBVIOUS
  <1>2. levels[4] # {}  OBVIOUS
  <1>3. k \in 1..4 /\ levels[k] # {}
    <2> DEFINE S == {i \in DOMAIN levels : levels[i] # {}}
    <2>1. S \in SUBSET Nat /\ 4 \in S  BY <1>1, <1>2
    <2>2. Min(S) \in S
      <3> HIDE DEF S
      <3> QED  BY <2>1, HasMin
    <2>3. QED  BY <1>1, <2>2
  <1>4. \A i \in 1..4 : \A e \in levels[i] : e.price \in Price
    <2> SUFFICES ASSUME NEW i \in 1..4, NEW e \in levels[i] PROVE e.price \in Price
      OBVIOUS
    <2>1. CASE i \in {1, 2}  BY <2>1 DEF PricesTyped, Entry
    <2>2. CASE i = 3  BY <2>2 DEF PricesTyped
    <2>3. CASE i = 4  BY <2>3 DEF DefaultPrice, Price
    <2>4. QED  BY <2>1, <2>2, <2>3
  <1>5. get_pricing(c, n) = (CHOOSE e \in levels[k] : TRUE).price  BY DEF get_pricing
  <1>6. (CHOOSE e \in levels[k] : TRUE) \in levels[k]
    <2> HIDE DEF levels, k
    <2> QED  BY <1>3
  <1> HIDE DEF levels, k
  <1>7. QED  BY <1>3, <1>4, <1>5, <1>6
---------------------------------------------------------------------------
(* Scores are ordered *)

Fraction == Int \X (Nat \ {0})

\* Scores have positive denominators.
LEMMA ScoreTyped ==
    ASSUME PricesTyped, choosing \in OneSelection, NEW p \in Price
    PROVE  calculate_score(p) \in Fraction
  <1> USE DEF Fraction
  <1>1. p.cost \in Nat /\ p.quality \in Nat /\ p.delivery \in Nat  BY DEF Price
  <1>2. choosing.revenue \in Int /\ choosing.strategy \in CostStrategies
    BY DEF OneSelection, NoRevenue
  <1>3. LeastCostScore(p) \in Fraction  BY <1>1 DEF LeastCostScore
  <1>4. <<1000 * p.quality - p.cost, 1>> \in Fraction  BY <1>1
  <1>5. <<(4 * p.quality + 3 * p.delivery) * (p.cost + 10) + 3000, p.cost + 10>> \in Fraction
    BY <1>1
  <1>6. <<choosing.revenue - p.cost, 1>> \in Fraction  BY <1>1, <1>2
  <1>7. QED
    BY <1>2, <1>3, <1>4, <1>5, <1>6 DEF calculate_score, CostStrategies

\* A positive factor cancels.
LEMMA Cancels == \A x, y \in Int : \A d \in Nat \ {0} : x * d <= y * d => x <= y
  OBVIOUS

\* And can be put in.
LEMMA Grows == \A x, y \in Int : \A d \in Nat \ {0} : x <= y => x * d <= y * d
  OBVIOUS

\* AtMost orders the fractions: any two compare, and it is transitive.
LEMMA AtMostTotal ==
    ASSUME NEW a \in Fraction, NEW b \in Fraction
    PROVE  AtMost(a, b) \/ AtMost(b, a)
  BY DEF AtMost, Fraction

\* The order of scores is transitive.
LEMMA AtMostTransitive ==
    ASSUME NEW a \in Fraction, NEW b \in Fraction, NEW c \in Fraction, AtMost(a, b), AtMost(b, c)
    PROVE  AtMost(a, c)
  <1>1. PICK n1 \in Int, d1 \in Nat \ {0} : a = <<n1, d1>>  BY DEF Fraction
  <1>2. PICK n2 \in Int, d2 \in Nat \ {0} : b = <<n2, d2>>  BY DEF Fraction
  <1>3. PICK n3 \in Int, d3 \in Nat \ {0} : c = <<n3, d3>>  BY DEF Fraction
  <1>4. n1 * d2 <= n2 * d1 /\ n2 * d3 <= n3 * d2  BY <1>1, <1>2, <1>3 DEF AtMost
  <1>5. (n1 * d2) * d3 <= (n2 * d1) * d3  BY <1>4, Grows
  <1>6. (n2 * d3) * d1 <= (n3 * d2) * d1  BY <1>4, Grows
  <1>7. (n1 * d3) * d2 <= (n3 * d1) * d2
    <2>1. (n1 * d3) * d2 = (n1 * d2) * d3  OBVIOUS
    <2>2. (n2 * d1) * d3 = (n2 * d3) * d1  OBVIOUS
    <2>3. (n3 * d1) * d2 = (n3 * d2) * d1  OBVIOUS
    <2>4. QED  BY <1>5, <1>6, <2>1, <2>2, <2>3
  <1>8. n1 * d3 <= n3 * d1  BY <1>7, Cancels
  <1>9. QED  BY <1>1, <1>3, <1>8 DEF AtMost

\* An element of a sequence over T is in T.
LEMMA ElementTyped == ASSUME NEW T, NEW s \in Seq(T), NEW i \in 1..Len(s) PROVE s[i] \in T
  OBVIOUS

\* Every selection with something read has an offer of the highest score.
LEMMA HighestExists ==
    ASSUME PricesTyped, choosing \in OneSelection, choosing.read # <<>>
    PROVE  \E i \in DOMAIN choosing.read : BestOf(i)
  <1> DEFINE n == Len(choosing.read)
             Leads(i, k) == i \in 1..k /\ \A j \in 1..k : AtMost(Scored(j), Scored(i))
             Led == {k \in Nat : k \in 1..n /\ \A i \in 1..k : ~Leads(i, k)}
  <1>1. n \in Nat \ {0} /\ DOMAIN choosing.read = 1..n
    BY DEF OneSelection
  <1>2. \A i \in 1..n : Scored(i) \in Fraction
    <2> SUFFICES ASSUME NEW i \in 1..n PROVE Scored(i) \in Fraction
      OBVIOUS
    <2>1. choosing.read \in Seq([cluster : Offers, price : Price])  BY DEF OneSelection
    <2>2. choosing.read[i] \in [cluster : Offers, price : Price]  BY <2>1, ElementTyped
    <2>3. choosing.read[i].price \in Price  BY <2>2
    <2>4. QED  BY <2>3, ScoreTyped DEF Scored
  <1> HIDE DEF n
  <1>3. Led = {}
    <2> SUFFICES ASSUME Led # {} PROVE FALSE  OBVIOUS
    <2> DEFINE k == Min(Led)
    <2>1. k \in Led /\ \A y \in Led : k <= y
      <3>1. Led \in SUBSET Nat  OBVIOUS
      <3> HIDE DEF Led
      <3>2. QED  BY <3>1, HasMin
    <2> HIDE DEF k
    <2>2. k \in Nat /\ k \in 1..n /\ \A i \in 1..k : ~Leads(i, k)  BY <2>1
    <2>3. CASE k = 1
      <3>1. Leads(1, 1)
        <4>1. \A j \in 1..1 : j = 1  OBVIOUS
        <4>2. AtMost(Scored(1), Scored(1))  BY <1>1, <1>2, <2>2, <2>3, AtMostTotal
        <4>3. QED  BY <4>1, <4>2
      <3>2. QED  BY <2>2, <2>3, <3>1
    <2>4. CASE k # 1
      <3>1. k - 1 \in 1..n /\ k - 1 \in Nat /\ ~(k <= k - 1)  BY <2>2, <2>4, <1>1
      <3>2. k - 1 \notin Led  BY <2>1, <3>1
      <3>3. PICK i \in 1..(k - 1) : Leads(i, k - 1)  BY <3>1, <3>2
      <3>4. i \in 1..n /\ i \in 1..k  BY <1>1, <3>1, <2>2
      <3>5. CASE AtMost(Scored(k), Scored(i))
        <4>1. \A j \in 1..k : j \in 1..(k - 1) \/ j = k  BY <2>2
        <4>2. Leads(i, k)  BY <3>3, <3>4, <3>5, <4>1
        <4>3. QED  BY <2>2, <3>4, <4>2
      <3>6. CASE AtMost(Scored(i), Scored(k))
        <4>1. \A j \in 1..(k - 1) : AtMost(Scored(j), Scored(k))
          <5> SUFFICES ASSUME NEW j \in 1..(k - 1) PROVE AtMost(Scored(j), Scored(k))
            OBVIOUS
          <5>1. j \in 1..n  BY <1>1, <2>2
          <5>2. AtMost(Scored(j), Scored(i))  BY <3>3
          <5>3. QED  BY <1>2, <2>2, <3>4, <3>6, <5>1, <5>2, AtMostTransitive
        <4>2. AtMost(Scored(k), Scored(k))  BY <1>2, <2>2, AtMostTotal
        <4>3. \A j \in 1..k : j \in 1..(k - 1) \/ j = k  BY <2>2
        <4>4. k \in 1..k  BY <2>2
        <4>5. Leads(k, k)  BY <4>1, <4>2, <4>3, <4>4
        <4>6. QED  BY <2>2, <4>4, <4>5
      <3>7. QED  BY <1>2, <2>2, <3>4, <3>5, <3>6, AtMostTotal
    <2>5. QED  BY <2>3, <2>4
  <1>4. n \in 1..n  BY <1>1
  <1>5. PICK i \in 1..n : Leads(i, n)  BY <1>1, <1>3, <1>4
  <1>6. QED  BY <1>1, <1>5 DEF BestOf
---------------------------------------------------------------------------
\* At first there is no selection.
LEMMA PricingStart == PricingInit => PricingInv
  <1> SUFFICES ASSUME PricingInit PROVE PricingInv
    OBVIOUS
  <1>1. NotChoosing \notin OneSelection  BY DEF NotChoosing, OneSelection
  <1>2. PricesTyped
    BY PricingAssumption DEF PricingInit, PricesTyped, Entry
  <1>3. QED
    BY <1>1, <1>2 DEF PricingInit, PricingInv, AllConsidered, ReadInForce, HighestTaken

\* An entry of either table.
LEMMA EnterTyped ==
    ASSUME PricesTyped, NEW e \in Entry, EnterPrice(e)
    PROVE  /\ pricing' \subseteq Entry
           /\ defaults' \subseteq [cluster : Offers, price : Price]
           /\ steady' = FALSE
  <1>1. CASE e.network = "default"
    <2>1. [cluster |-> e.cluster, price |-> e.price] \in [cluster : Offers, price : Price]
      BY DEF Entry
    <2>2. QED  BY <1>1, <2>1 DEF EnterPrice, PricesTyped
  <1>2. CASE e.network # "default"
    BY <1>2 DEF EnterPrice, PricesTyped
  <1>3. QED  BY <1>1, <1>2

\* What scores depend on, and what prices depend on.
LEMMA ScoresStay ==
    ASSUME choosing'.read = choosing.read, choosing'.strategy = choosing.strategy,
           choosing'.revenue = choosing.revenue
    PROVE  \A i : BestOf(i) <=> BestOf(i)'
  <1>1. \A i : Scored(i)' = Scored(i)  BY DEF Scored, calculate_score, LeastCostScore
  <1>2. QED  BY <1>1 DEF BestOf, AtMost

\* Where the tables do not change, no price does.
LEMMA PricesStay ==
    ASSUME UNCHANGED <<pricing, defaults>>
    PROVE  \A c, n : get_pricing(c, n)' = get_pricing(c, n)
  BY DEF get_pricing

\* A change of the prices leaves the selection alone and is remembered.
LEMMA PricesChange ==
    ASSUME PricingInv, PricesTyped', UNCHANGED choosing, steady' = FALSE
    PROVE  PricingInv'
  BY ScoresStay DEF PricingInv, AllConsidered, ReadInForce, HighestTaken

\* An entry of a new table is set.
LEMMA LoadKeeps == PricingInv /\ LoadFromMap => PricingInv'
  <1> SUFFICES ASSUME PricingInv, LoadFromMap PROVE PricingInv'
    OBVIOUS
  <1>1. PricesTyped  BY DEF PricingInv
  <1>2. loading \in Seq(Entry) /\ loading # <<>>  BY <1>1 DEF PricesTyped, LoadFromMap
  <1>3. Head(loading) \in Entry /\ Tail(loading) \in Seq(Entry)  BY <1>2
  <1>4. PricesTyped' /\ steady' = FALSE /\ UNCHANGED choosing
    BY <1>1, <1>3, EnterTyped DEF LoadFromMap, PricesTyped
  <1>5. QED  BY <1>4, PricesChange

\* A price or a default is set.
LEMMA SetKeeps ==
    ASSUME PricingInv, NEW c \in Offers, NEW p \in Prices, NEW n \in Networks,
           SetDefault(c, p) \/ SetPricing(c, n, p)
    PROVE  PricingInv'
  <1>1. PricesTyped  BY DEF PricingInv
  <1>2. p \in Price  BY PricingAssumption
  <1>3. \A m \in Networks \cup {"default"} : [cluster |-> c, network |-> m, price |-> p] \in Entry
    BY <1>2 DEF Entry
  <1>4. PICK m \in Networks \cup {"default"} : EnterPrice([cluster |-> c, network |-> m, price |-> p])
    BY DEF SetDefault, SetPricing
  <1>5. UNCHANGED <<loading, choosing>>  BY DEF SetDefault, SetPricing
  <1>6. PricesTyped' /\ steady' = FALSE
    BY <1>1, <1>3, <1>4, <1>5, EnterTyped DEF PricesTyped
  <1>7. QED  BY <1>5, <1>6, PricesChange

\* An order of the offers has each of them.
LEMMA AllInOrder ==
    ASSUME NEW s \in SetToSeqs(Offers)
    PROVE  s \in Seq(Offers) /\ \A c \in Offers : \E i \in DOMAIN s : s[i] = c
  <1> DEFINE N == Cardinality(Offers)
             D == 1..N
  <1>1. N \in Nat  BY PricingAssumption, FS_CardinalityType
  <1>2. s \in [D -> Offers] /\ \A i, j \in D : i # j => s[i] # s[j]  BY DEF SetToSeqs
  <1> HIDE DEF N
  <1>3. s \in Injection(D, Offers)  BY <1>2 DEF Injection, IsInjective
  <1>4. Cardinality(D) = N  BY <1>1, FS_Interval
  <1>5. Cardinality(D) = Cardinality(Offers)  BY <1>4 DEF N
  <1> HIDE DEF D
  <1>6. s \in Surjection(D, Offers)  BY <1>3, <1>5, PricingAssumption, FS_Injection
  <1>7. \A c \in Offers : \E i \in D : s[i] = c  BY <1>6 DEF Surjection
  <1>8. s \in Seq(Offers)  BY <1>1, <1>2 DEF D
  <1>9. QED  BY <1>2, <1>7, <1>8

\* A selection begins with all offers, in some order, or with none.
LEMMA BeginSelectKeeps ==
    ASSUME PricingInv, NEW candidates \in SetToSeqs(Offers) \cup {<<>>}, NEW n \in Networks,
           NEW r \in Revenues \cup {NoRevenue}, NEW s \in CostStrategies,
           BeginSelect(candidates, n, r, s)
    PROVE  PricingInv'
  <1>1. candidates \in Seq(Offers)
    <2>1. <<>> \in Seq(Offers)  OBVIOUS
    <2>2. QED  BY <2>1, AllInOrder
  <1>2. r \in Nat \cup {NoRevenue}  BY PricingAssumption
  <1>3. /\ choosing' \in OneSelection
        /\ choosing'.at = "read" /\ choosing'.read = <<>> /\ choosing'.todo = candidates
    BY <1>1, <1>2 DEF BeginSelect, OneSelection
  <1>4. PricesTyped'  BY <1>3 DEF PricingInv, PricesTyped, BeginSelect
  <1>5. AllConsidered'
    <2>1. CASE candidates = <<>>  BY <1>3, <2>1 DEF AllConsidered
    <2>2. CASE candidates \in SetToSeqs(Offers)  BY <1>3, <2>2, AllInOrder DEF AllConsidered
    <2>3. QED  BY <2>1, <2>2
  <1>6. ReadInForce' /\ HighestTaken'  BY <1>3 DEF ReadInForce, HighestTaken
  <1>7. QED  BY <1>4, <1>5, <1>6 DEF PricingInv

\* It reads the price of the next candidate.
LEMMA ReadKeeps == PricingInv /\ ReadPrice => PricingInv'
  <1> SUFFICES ASSUME PricingInv, ReadPrice PROVE PricingInv'
    OBVIOUS
  <1> DEFINE c == Head(choosing.todo)
             price == get_pricing(c, choosing.network)
             offer == [cluster |-> c, price |-> price]
             Offer == [cluster : Offers, price : Price]
  <1>1. PricesTyped  BY DEF PricingInv
  <1>2. choosing \in OneSelection
    BY <1>1 DEF ReadPrice, PricesTyped, NotChoosing
  <1>3. /\ choosing.todo \in Seq(Offers) /\ choosing.todo # <<>> /\ choosing.at = "read"
        /\ choosing.network \in Networks /\ choosing.read \in Seq(Offer)
    BY <1>2 DEF ReadPrice, OneSelection
  <1>4. c \in Offers /\ Tail(choosing.todo) \in Seq(Offers)  BY <1>3
  <1> HIDE DEF c
  <1>5. price \in Price  BY <1>1, <1>3, <1>4, PriceFound
  <1>6. offer \in Offer  BY <1>4, <1>5
  <1>7. choosing' = [choosing EXCEPT !.todo = Tail(choosing.todo),
                                     !.read = Append(choosing.read, offer)]
    BY DEF ReadPrice, c
  <1> HIDE DEF price, offer
  <1>8. Append(choosing.read, offer) \in Seq(Offer)  BY <1>3, <1>6
  <1>9. /\ choosing' \in OneSelection
        /\ choosing'.at = "read" /\ choosing'.network = choosing.network
        /\ choosing'.todo = Tail(choosing.todo) /\ choosing'.read = Append(choosing.read, offer)
    BY <1>2, <1>3, <1>4, <1>7, <1>8 DEF OneSelection
  <1>10. PricesTyped'  BY <1>1, <1>9 DEF PricesTyped, ReadPrice
  <1>11. /\ DOMAIN choosing'.read = 1..(Len(choosing.read) + 1)
         /\ Len(choosing.read) \in Nat /\ DOMAIN choosing.read = 1..Len(choosing.read)
         /\ choosing'.read[Len(choosing.read) + 1] = offer
         /\ \A i \in 1..Len(choosing.read) : choosing'.read[i] = choosing.read[i]
    BY <1>3, <1>6, <1>9
  <1>12. AllConsidered'
    <2>1. \A d \in Offers : \/ \E i \in DOMAIN choosing.read : choosing.read[i].cluster = d
                            \/ \E i \in DOMAIN choosing.todo : choosing.todo[i] = d
      BY <1>2, <1>3 DEF PricingInv, AllConsidered
    <2>2. \A i \in DOMAIN choosing.todo : choosing.todo[i] = c
                \/ \E k \in DOMAIN Tail(choosing.todo) : Tail(choosing.todo)[k] = choosing.todo[i]
      <3> SUFFICES ASSUME NEW i \in DOMAIN choosing.todo, i # 1
                   PROVE \E k \in DOMAIN Tail(choosing.todo) : Tail(choosing.todo)[k] = choosing.todo[i]
        BY <1>3 DEF c
      <3>1. i - 1 \in DOMAIN Tail(choosing.todo)  BY <1>3
      <3>2. Tail(choosing.todo)[i - 1] = choosing.todo[i]  BY <1>3, <3>1
      <3>3. QED  BY <3>1, <3>2
    <2>3. offer.cluster = c  BY DEF offer
    <2>4. QED  BY <1>9, <1>11, <2>1, <2>2, <2>3 DEF AllConsidered
  <1>13. ReadInForce'
    <2>1. steady' = steady /\ \A d, m : get_pricing(d, m)' = get_pricing(d, m)
      BY PricesStay DEF ReadPrice
    <2> SUFFICES ASSUME steady, NEW i \in DOMAIN choosing'.read, NEW d \in Offers, NEW m \in Networks,
                        choosing'.read[i].cluster = d, choosing'.network = m
                 PROVE  choosing'.read[i].price = get_pricing(d, m)
      BY <2>1 DEF ReadInForce
    <2>2. CASE i = Len(choosing.read) + 1
      BY <1>9, <1>11, <2>2 DEF offer, price
    <2>3. CASE i \in 1..Len(choosing.read)
      BY <1>2, <1>9, <1>11, <2>3 DEF PricingInv, ReadInForce
    <2>4. QED  BY <1>11, <2>2, <2>3
  <1>14. HighestTaken'  BY <1>9 DEF HighestTaken
  <1>15. QED  BY <1>10, <1>12, <1>13, <1>14 DEF PricingInv

\* It takes the best of what it has read.
LEMMA RankKeeps == PricingInv /\ Rank => PricingInv'
  <1> SUFFICES ASSUME PricingInv, Rank PROVE PricingInv'
    OBVIOUS
  <1>1. PricesTyped  BY DEF PricingInv
  <1>2. choosing \in OneSelection
    BY <1>1 DEF Rank, PricesTyped, NotChoosing
  <1> DEFINE Firsts == {i \in DOMAIN choosing.read : BestOf(i)}
             best == IF choosing.read = <<>> THEN "none" ELSE BestRanked(choosing.read)
             first == Min(Firsts)
  <1>3. choosing.read # <<>> => first \in Firsts
    <2> SUFFICES ASSUME choosing.read # <<>> PROVE first \in Firsts
      OBVIOUS
    <2>1. Firsts # {}  BY <1>1, <1>2, HighestExists
    <2>2. Firsts \in SUBSET Nat
      <3>1. DOMAIN choosing.read \subseteq Nat  BY <1>2 DEF OneSelection
      <3>2. QED  BY <3>1
    <2> HIDE DEF Firsts
    <2>3. QED  BY <2>1, <2>2, HasMin
  <1>4. BestRanked(choosing.read) = choosing.read[first].cluster
    BY DEF BestRanked, BestOf, Scored
  <1> HIDE DEF first
  <1>5. choosing.read # <<>> => /\ first \in DOMAIN choosing.read /\ BestOf(first)
                                /\ best = choosing.read[first].cluster
    BY <1>3, <1>4
  <1>6. best \in Offers \cup {"none"}
    <2>1. choosing.read \in Seq([cluster : Offers, price : Price])  BY <1>2 DEF OneSelection
    <2>2. choosing.read # <<>> => choosing.read[first] \in [cluster : Offers, price : Price]
      <3>1. DOMAIN choosing.read = 1..Len(choosing.read)  BY <2>1
      <3>2. QED  BY <1>5, <2>1, <3>1, ElementTyped
    <2>3. QED  BY <1>5, <2>2
  <1>7. choosing' = [choosing EXCEPT !.at = "done", !.best = best]  BY DEF Rank
  <1>8. choosing.read = <<>> => best = "none"  OBVIOUS
  <1> HIDE DEF best
  <1>9. /\ choosing' \in OneSelection
        /\ choosing'.strategy = choosing.strategy /\ choosing'.revenue = choosing.revenue
        /\ choosing'.network = choosing.network
        /\ choosing'.todo = choosing.todo /\ choosing'.read = choosing.read /\ choosing'.best = best
    BY <1>2, <1>6, <1>7 DEF OneSelection
  <1>10. PricesTyped'  BY <1>1, <1>9 DEF PricesTyped, Rank
  <1>11. AllConsidered'  BY <1>2, <1>9 DEF PricingInv, AllConsidered
  <1>12. ReadInForce'
    <2>1. steady' = steady /\ \A d, m : get_pricing(d, m)' = get_pricing(d, m)
      BY PricesStay DEF Rank
    <2>2. QED  BY <1>2, <1>9, <2>1 DEF PricingInv, ReadInForce
  <1>13. HighestTaken'
    <2>1. \A i : BestOf(i) => BestOf(i)'
      BY <1>9, ScoresStay
    <2>2. choosing'.todo = <<>>  BY <1>9 DEF Rank
    <2>3. QED  BY <1>5, <1>8, <1>9, <2>1, <2>2 DEF HighestTaken
  <1>14. QED  BY <1>10, <1>11, <1>12, <1>13 DEF PricingInv

\* Nothing happens.
LEMMA PricingStutters == PricingInv /\ UNCHANGED pr_vars => PricingInv'
  <1> SUFFICES ASSUME PricingInv, UNCHANGED pr_vars PROVE PricingInv'
    OBVIOUS
  <1>1. \A d, m : get_pricing(d, m)' = get_pricing(d, m)  BY PricesStay DEF pr_vars
  <1>2. \A i : BestOf(i) <=> BestOf(i)'  BY ScoresStay DEF pr_vars
  <1>3. QED
    BY <1>1, <1>2 DEF PricingInv, pr_vars, PricesTyped, AllConsidered, ReadInForce, HighestTaken

\* Every step of the cost router and of its tables keeps the invariant.
LEMMA PricingStep == PricingInv /\ [PricingNext]_pr_vars => PricingInv'
  <1> SUFFICES ASSUME PricingInv, [PricingNext]_pr_vars PROVE PricingInv'
    OBVIOUS
  <1>1. CASE UNCHANGED pr_vars  BY <1>1, PricingStutters
  <1>2. CASE LoadFromMap  BY <1>2, LoadKeeps
  <1>3. ASSUME NEW c \in Offers, NEW p \in Prices,
               SetDefault(c, p) \/ \E n \in Networks : SetPricing(c, n, p)
        PROVE  PricingInv'
    BY <1>3, SetKeeps, PricingAssumption
  <1>4. ASSUME NEW candidates \in SetToSeqs(Offers) \cup {<<>>}, NEW n \in Networks,
               NEW r \in Revenues \cup {NoRevenue}, NEW s \in CostStrategies,
               BeginSelect(candidates, n, r, s)
        PROVE  PricingInv'
    BY <1>4, BeginSelectKeeps
  <1>5. CASE ReadPrice  BY <1>5, ReadKeeps
  <1>6. CASE Rank  BY <1>6, RankKeeps
  <1>7. QED  BY <1>1, <1>2, <1>3, <1>4, <1>5, <1>6 DEF PricingNext

\* An offer that is cheaper, better and surer has a higher score by every strategy.  For the
\* sum of quality, delivery and a fraction that falls with the cost: with costs a < b and
\* merits x > y, x + 3000 / a is more than y + 3000 / b.
LEMMA BalancedRises ==
    ASSUME NEW a \in Nat \ {0}, NEW b \in Nat \ {0}, NEW x \in Nat, NEW y \in Nat, a < b, y <= x
    PROVE  ~((x * a + 3000) * b <= (y * b + 3000) * a)
  <1>1. y * (a * b) <= x * (a * b)
    <2>1. a * b \in Nat \ {0}  OBVIOUS
    <2>2. QED  BY <2>1, Grows
  <1>2. (x * a + 3000) * b = x * (a * b) + 3000 * b  OBVIOUS
  <1>3. (y * b + 3000) * a = y * (a * b) + 3000 * a  OBVIOUS
  <1>4. 3000 * a < 3000 * b  OBVIOUS
  <1>5. x * (a * b) \in Nat /\ y * (a * b) \in Nat  OBVIOUS
  <1>6. QED  BY <1>1, <1>2, <1>3, <1>4, <1>5

\* An offer of no higher score is not cheaper, better and surer at once, and not cheaper where
\* cost decides.
LEMMA HigherScores ==
    ASSUME choosing \in OneSelection, NEW p \in Price, NEW got \in Price,
           AtMost(calculate_score(p), calculate_score(got))
    PROVE  /\ ~(p.cost < got.cost /\ p.quality > got.quality /\ p.delivery > got.delivery)
           /\ choosing.strategy \in {"LeastCost", "MaxMargin"} => p.cost >= got.cost
  <1>1. /\ p.cost \in Nat /\ p.quality \in Nat /\ p.delivery \in Nat
        /\ got.cost \in Nat /\ got.quality \in Nat /\ got.delivery \in Nat
    BY DEF Price
  <1>2. choosing.revenue \in Int /\ choosing.strategy \in CostStrategies
    BY DEF OneSelection, NoRevenue
  <1>3. AtMost(LeastCostScore(p), LeastCostScore(got)) => p.cost >= got.cost
    BY <1>1 DEF AtMost, LeastCostScore
  <1>4. CASE choosing.strategy = "LeastCost"  BY <1>1, <1>3, <1>4 DEF calculate_score
  <1>5. CASE choosing.strategy = "QualityFirst"
    <2>1. AtMost(<<1000 * p.quality - p.cost, 1>>, <<1000 * got.quality - got.cost, 1>>)
      BY <1>5 DEF calculate_score
    <2>2. 1000 * p.quality - p.cost <= 1000 * got.quality - got.cost  BY <1>1, <2>1 DEF AtMost
    <2>3. QED  BY <1>1, <1>5, <2>2
  <1>6. CASE choosing.strategy = "Balanced"
    <2> DEFINE a == p.cost + 10
               b == got.cost + 10
               x == 4 * p.quality + 3 * p.delivery
               y == 4 * got.quality + 3 * got.delivery
    <2>1. AtMost(<<x * a + 3000, a>>, <<y * b + 3000, b>>)  BY <1>6 DEF calculate_score
    <2>2. a \in Nat \ {0} /\ b \in Nat \ {0} /\ x \in Nat /\ y \in Nat  BY <1>1
    <2>3. p.cost < got.cost /\ p.quality > got.quality /\ p.delivery > got.delivery => a < b /\ y <= x
      BY <1>1
    <2> HIDE DEF a, b, x, y
    <2>4. (x * a + 3000) * b <= (y * b + 3000) * a  BY <2>1 DEF AtMost
    <2>5. QED  BY <1>6, <2>2, <2>3, <2>4, BalancedRises
  <1>7. CASE choosing.strategy = "MaxMargin"
    <2>1. CASE choosing.revenue = NoRevenue  BY <1>1, <1>3, <1>7, <2>1 DEF calculate_score
    <2>2. CASE choosing.revenue # NoRevenue
      <3>1. AtMost(<<choosing.revenue - p.cost, 1>>, <<choosing.revenue - got.cost, 1>>)
        BY <1>7, <2>2 DEF calculate_score
      <3>2. p.cost >= got.cost  BY <1>1, <1>2, <3>1 DEF AtMost
      <3>3. QED  BY <1>1, <3>2
    <2>3. QED  BY <2>1, <2>2
  <1>8. QED  BY <1>2, <1>4, <1>5, <1>6, <1>7 DEF CostStrategies

\* So the selection that took the highest score has passed over nothing better.
LEMMA NothingBetter == PricingInv => NothingBetterPassedOver
  <1> SUFFICES ASSUME PricingInv, choosing.at = "done", choosing.best # "none", steady,
                      NEW c \in Offers
               PROVE  LET got == get_pricing(choosing.best, choosing.network)
                          p == get_pricing(c, choosing.network)
                      IN /\ ~(p.cost < got.cost /\ p.quality > got.quality /\ p.delivery > got.delivery)
                         /\ choosing.strategy \in {"LeastCost", "MaxMargin"} => p.cost >= got.cost
    BY DEF NothingBetterPassedOver
  <1>1. PricesTyped  BY DEF PricingInv
  <1>2. choosing \in OneSelection  BY <1>1 DEF PricesTyped, NotChoosing
  <1>3. /\ choosing.todo = <<>> /\ choosing.network \in Networks /\ choosing.best \in Offers
    BY <1>2 DEF PricingInv, HighestTaken, OneSelection
  <1>4. PICK i \in DOMAIN choosing.read : choosing.best = choosing.read[i].cluster /\ BestOf(i)
    BY <1>2 DEF PricingInv, HighestTaken
  <1>5. choosing.read # <<>>  BY <1>4
  <1>6. PICK j \in DOMAIN choosing.read : choosing.read[j].cluster = c
    BY <1>2, <1>3, <1>5 DEF PricingInv, AllConsidered
  <1>7. /\ choosing.read[i].price = get_pricing(choosing.best, choosing.network)
        /\ choosing.read[j].price = get_pricing(c, choosing.network)
    BY <1>2, <1>3, <1>4, <1>6 DEF PricingInv, ReadInForce
  <1>8. choosing.read[i].price \in Price /\ choosing.read[j].price \in Price
    BY <1>1, <1>3, <1>7, PriceFound
  <1>9. AtMost(calculate_score(choosing.read[j].price), calculate_score(choosing.read[i].price))
    BY <1>4, <1>6 DEF BestOf, Scored
  <1>10. QED  BY <1>2, <1>7, <1>8, <1>9, HigherScores

\* For any offers, networks, prices and revenues: what a selection has read, and which offer
\* it takes.
THEOREM PricingInvariant == PricingSpec => []PricingInv
  BY PricingStart, PricingStep, PTL DEF PricingSpec

\* Whatever the strategy and the order of the candidates, a selection that no price update
\* met passes over nothing better (get_pricing, calculate_score, select_route_with_strategy).
THEOREM BestOfferTaken == PricingSpec => []NothingBetterPassedOver
  BY PricingInvariant, NothingBetter, PTL

\* One price for each network of a cluster, and one default for a cluster.
OnePriceEach ==
    /\ \A p, q \in pricing : p.cluster = q.cluster /\ p.network = q.network => p = q
    /\ \A d, e \in defaults : d.cluster = e.cluster => d = e

\* A price entered takes the place of the one there was.
LEMMA EntryReplaces ==
    ASSUME OnePriceEach, NEW entry, EnterPrice(entry)
    PROVE  OnePriceEach'
  <1>1. CASE entry.network = "default"
    <2>1. defaults' = {d \in defaults : d.cluster # entry.cluster}
                          \cup {[cluster |-> entry.cluster, price |-> entry.price]}
          /\ pricing' = pricing
      BY <1>1 DEF EnterPrice
    <2>2. QED  BY <2>1 DEF OnePriceEach
  <1>2. CASE entry.network # "default"
    <2>1. /\ pricing' = {p \in pricing : <<p.cluster, p.network>> # <<entry.cluster, entry.network>>}
                            \cup {entry}
          /\ defaults' = defaults
      BY <1>2 DEF EnterPrice
    <2>2. \A p \in pricing' : p = entry \/ (p \in pricing /\ ~(p.cluster = entry.cluster /\ p.network = entry.network))
      BY <2>1
    <2>3. QED  BY <2>1, <2>2 DEF OnePriceEach
  <1>3. QED  BY <1>1, <1>2

\* Both tables hold one price to a key, however updates and the loading of a map take turns
\* (set_pricing, set_default, load_from_map).
THEOREM PricingTyped == PricingSpec => []PricingTypeOK
  <1>1. PricingInit => OnePriceEach  BY DEF PricingInit, OnePriceEach
  <1>2. OnePriceEach /\ [PricingNext]_pr_vars => OnePriceEach'
    <2> SUFFICES ASSUME OnePriceEach, [PricingNext]_pr_vars PROVE OnePriceEach'
      OBVIOUS
    <2>1. CASE UNCHANGED <<pricing, defaults>>  BY <2>1 DEF OnePriceEach
    <2>2. CASE \E entry : EnterPrice(entry)  BY <2>2, EntryReplaces
    <2>3. QED
      BY <2>1, <2>2 DEF PricingNext, pr_vars, LoadFromMap, SetPricing, SetDefault, BeginSelect, ReadPrice, Rank
  <1>3. PricingInv => choosing.at \in {"idle", "read", "done"}
    BY DEF PricingInv, PricesTyped, OneSelection, NotChoosing
  <1>4. OnePriceEach /\ PricingInv => PricingTypeOK  BY <1>3 DEF OnePriceEach, PricingTypeOK
  <1>5. QED  BY <1>1, <1>2, <1>4, PricingInvariant, PTL DEF PricingSpec

(* The parts side by side *)

\* Each part, in a behaviour of all of them, behaves as it does by itself: a step of another
\* part leaves its variables alone.
LEMMA PartsAreThemselves ==
    ServicesSpec => /\ PersistentSpec /\ SchedulerSpec /\ EsmeSpec /\ RateSpec
                    /\ BalancerSpec /\ RoutingSpec /\ PricingSpec /\ FirewallSpec
                    /\ MessageFilterSpec /\ ConfigurationSpec
  <1>1. ServicesInit => open  BY DEF ServicesInit
  <1>2. ServicesInit => new  BY DEF ServicesInit
  <1>3. ServicesInit => EsmeInit  BY DEF ServicesInit
  <1>4. ServicesInit => RateInit  BY DEF ServicesInit
  <1>5. ServicesInit => BalancerInit  BY DEF ServicesInit
  <1>6. ServicesInit => RoutingInit  BY DEF ServicesInit
  <1>7. ServicesInit => PricingInit  BY DEF ServicesInit
  <1>8. ServicesInit => FirewallInit  BY DEF ServicesInit
  <1>9. ServicesInit => MessageFilterInit  BY DEF ServicesInit
  <1>10. ServicesInit => ConfigurationInit  BY DEF ServicesInit
  <1>11. [ServicesNext]_svc_vars => [PersistentNext]_ps_vars  BY DEF ServicesNext, Only, svc_vars
  <1>12. [ServicesNext]_svc_vars => [SchedulerNext]_sc_vars  BY DEF ServicesNext, Only, svc_vars
  <1>13. [ServicesNext]_svc_vars => [EsmeNext]_es_vars  BY DEF ServicesNext, Only, svc_vars
  <1>14. [ServicesNext]_svc_vars => [RateNext]_rl_vars  BY DEF ServicesNext, Only, svc_vars
  <1>15. [ServicesNext]_svc_vars => [BalancerNext]_lb_vars  BY DEF ServicesNext, Only, svc_vars
  <1>16. [ServicesNext]_svc_vars => [RoutingNext]_rt_vars  BY DEF ServicesNext, Only, svc_vars
  <1>17. [ServicesNext]_svc_vars => [PricingNext]_pr_vars  BY DEF ServicesNext, Only, svc_vars
  <1>18. [ServicesNext]_svc_vars => [FirewallNext]_fw_vars  BY DEF ServicesNext, Only, svc_vars
  <1>19. [ServicesNext]_svc_vars => [MessageFilterNext]_mf_vars  BY DEF ServicesNext, Only, svc_vars
  <1>20. [ServicesNext]_svc_vars => [ConfigurationNext]_cf_vars  BY DEF ServicesNext, Only, svc_vars
  <1> QED
    BY <1>1, <1>2, <1>3, <1>4, <1>5, <1>6, <1>7, <1>8, <1>9, <1>10, <1>11, <1>12, <1>13, <1>14, <1>15, <1>16, <1>17, <1>18, <1>19, <1>20, PTL
       DEF ServicesSpec, PersistentSpec, SchedulerSpec, EsmeSpec, RateSpec, BalancerSpec, RoutingSpec, PricingSpec, FirewallSpec, MessageFilterSpec, ConfigurationSpec

\* The part that moves is picked at the start and stays.
LEMMA PartStays == ServicesSpec => [](part \in Parts)
  <1>1. ServicesInit => part \in Parts  BY DEF ServicesInit
  <1>2. part \in Parts /\ [ServicesNext]_svc_vars => (part \in Parts)'
    BY DEF ServicesNext, Only, svc_vars
  <1> QED  BY <1>1, <1>2, PTL DEF ServicesSpec

\* Every variable of the part that moves has its type, for any constants that meet the
\* assumptions of the parts, whichever it is (the stores, the scheduler, the limiter, the balancers, the
\* router, the prices, both firewalls and the configuration).
THEOREM ServicesTyped == ServicesSpec => []ServicesTypeOK
  <1>1. /\ part \in Parts
        /\ PersistentTypeOK /\ SchedulerTypeOK /\ EsmeTypeOK /\ RateTypeOK
        /\ BalancerTypeOK /\ RoutingTypeOK /\ PricingTypeOK /\ FirewallTypeOK
        /\ MessageFilterTypeOK /\ ConfigurationTypeOK
        => ServicesTypeOK
    BY DEF ServicesTypeOK
  <1> QED
    BY <1>1, PartsAreThemselves, PartStays, PersistentTyped, SchedulerTyped, EsmeTyped, RateTyped, BalancerTyped, RoutingTyped, PricingTyped, FirewallTyped, MessageFilterTyped, ConfigurationTyped, PTL

\* What each part promises holds of all of them side by side: the index of the store, the
\* schedules and their quotas, the accounts, the tokens granted, the spread of choices, the
\* routes, the offers, the verdicts, the messages let through, the configuration in force.
ServicesPromises ==
    /\ StoreIndexHolds
    /\ SchedulesKept
    /\ TruthfulIndex
    /\ GrantsBounded
    /\ ChoicesSpread
    /\ RoutedAsConfigured
    /\ NothingBetterPassedOver
    /\ VerdictsHold
    /\ AllowedMeansClean
    /\ ConfigurationHolds

\* Every part keeps its promise beside the others, whatever they do.
THEOREM ServicesKeepPromises == ServicesSpec => []ServicesPromises
  <1>1. /\ StoreIndexHolds /\ SchedulesKept /\ TruthfulIndex /\ GrantsBounded
        /\ ChoicesSpread /\ RoutedAsConfigured /\ NothingBetterPassedOver /\ VerdictsHold
        /\ AllowedMeansClean /\ ConfigurationHolds
        => ServicesPromises
    BY DEF ServicesPromises
  <1> QED
    BY <1>1, PartsAreThemselves, StoreIndexKept, SchedulerKeeps, IndexIsTruthful, LimitedGrants, SpreadAsPromised, MessagesRoutedAsConfigured, BestOfferTaken, VerdictsAlwaysHold, AllowedIsClean, OnlyGoodConfigurations, PTL
===========================================================================
