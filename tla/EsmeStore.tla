----------------------------- MODULE EsmeStore -----------------------------
(***************************************************************************)
(* The accounts of the ESMEs, filter/esme.rs: MemoryEsmeStore keeps them in  *)
(* one map and their system_ids in another, each behind a lock.             *)
(*                                                                         *)
(* The two locks nest: save and get_by_system_id take the index first,      *)
(* delete takes the accounts first and holds them, through the scrutinee of  *)
(* its if let, while it waits for the index.  A step below is what happens  *)
(* between two waits; who holds a lock follows from where each caller is.    *)
(*                                                                         *)
(* An account is its system_id and what it has used of its quotas.  The       *)
(* status, the password and the address are data authenticate only tests.    *)
(***************************************************************************)
EXTENDS Naturals, FiniteSets

CONSTANTS
    Admins,      \* callers of the store
    Accounts,    \* ESME ids
    SystemIds,   \* system_ids
    Quota,       \* quota.daily_messages, monthly_messages, monthly_spend; 0 for unlimited
    MessageCost, \* what a message costs
    MaxUsed      \* bound: what is counted of each

QuotaKinds == {"daily", "monthly", "spend"}

ASSUME EsmeAssumption == Quota \in [QuotaKinds -> Nat] /\ MessageCost \in Nat /\ MaxUsed \in Nat

VARIABLES
    esmes,       \* MemoryEsmeStore.esmes: account -> [system_id, used], or absent
    id_index,    \* MemoryEsmeStore.system_id_index: set of <<system_id, account>>
    call,        \* what each caller does: [at, id, esme]
    overlapped   \* history: accounts saved by two callers at the same time

es_vars == <<esmes, id_index, call, overlapped>>

Unused == [q \in QuotaKinds |-> 0]
NoEsme == [system_id |-> "none", used |-> Unused]
Esme == [system_id : SystemIds, used : [QuotaKinds -> 0..MaxUsed]]
Resting == [at |-> "rest", id |-> "none", esme |-> NoEsme]

Exists(id) == esmes[id] # NoEsme
At(S) == {c \in Admins : call[c].at \in S}
Enter(c, at, id, e) == call' = [call EXCEPT ![c] = [at |-> at, id |-> id, esme |-> e]]
Leave(c) == call' = [call EXCEPT ![c] = Resting]

EsmeInit ==
    /\ esmes = [id \in Accounts |-> NoEsme]
    /\ id_index = {}
    /\ call = [c \in Admins |-> Resting]
    /\ overlapped = {}

(* Who holds what: save holds the index while it wants the accounts, a lookup shares the *)
(* index while it wants the accounts, delete holds the accounts while it wants the index. *)
IndexWritten == At({"save_index"}) # {}
IndexRead == At({"lookup"}) # {}
EsmesHeldTwice == At({"delete", "save_esmes"}) # {}
EsmesWritten == At({"delete"}) # {}
---------------------------------------------------------------------------
\* EsmeQuota::is_exceeded and Esme::can_send: what an account may still do.
is_exceeded(e) == \E q \in QuotaKinds : Quota[q] > 0 /\ e.used[q] >= Quota[q]
can_send(e, statusAllows) == statusAllows /\ ~is_exceeded(e)

\* Esme::record_message.
record_message(used) == [q \in QuotaKinds |-> used[q] + (IF q = "spend" THEN MessageCost ELSE 1)]

\* get returns a copy, on which a message of an account that can still send is counted.
GetAndRecord(c, id) ==
    /\ call[c] = Resting /\ ~EsmesWritten
    /\ Exists(id) /\ can_send(esmes[id], TRUE)
    /\ \A q \in QuotaKinds : record_message(esmes[id].used)[q] <= MaxUsed
    /\ Enter(c, "copy", id, [esmes[id] EXCEPT !.used = record_message(@)])
    /\ UNCHANGED <<esmes, id_index, overlapped>>

\* save of a new account, or of the copy the caller has: it takes the index.
Save(c, id, e) ==
    /\ call[c] \in {Resting, [at |-> "copy", id |-> id, esme |-> e]}
    /\ ~IndexWritten /\ ~IndexRead
    /\ Enter(c, "save_index", id, e)
    /\ overlapped' = IF \E d \in At({"save_index", "save_esmes"}) : call[d].id = id
                     THEN overlapped \cup {id} ELSE overlapped
    /\ UNCHANGED <<esmes, id_index>>

IndexKeepsOld(c) ==
    LET k == call[c] IN
    /\ k.at = "save_index" /\ ~EsmesWritten
    /\ id_index' = {p \in id_index : p[1] # k.esme.system_id} \cup {<<k.esme.system_id, k.id>>}
    /\ Enter(c, "save_esmes", k.id, k.esme)
    /\ UNCHANGED <<esmes, overlapped>>

\* Under the index lock, save reads the account, drops the entry of the system_id it had
\* (whoever has it now), enters the new one and releases the lock.
SaveIndex(c) ==
    LET k == call[c] IN
    /\ k.at = "save_index" /\ ~EsmesWritten
    /\ id_index' = {p \in id_index : p[1] \notin {esmes[k.id].system_id, k.esme.system_id}}
                       \cup {<<k.esme.system_id, k.id>>}
    /\ Enter(c, "save_esmes", k.id, k.esme)
    /\ UNCHANGED <<esmes, overlapped>>

\* save stores the account.
SaveEsme(c) ==
    LET k == call[c] IN
    /\ k.at = "save_esmes" /\ ~EsmesWritten
    /\ esmes' = [esmes EXCEPT ![k.id] = k.esme]
    /\ Leave(c)
    /\ UNCHANGED <<id_index, overlapped>>

\* delete removes the account and, holding the accounts, goes for the index.
Delete(c, id) ==
    /\ call[c] = Resting /\ ~EsmesWritten /\ Exists(id)
    /\ esmes' = [esmes EXCEPT ![id] = NoEsme]
    /\ Enter(c, "delete", id, esmes[id])
    /\ UNCHANGED <<id_index, overlapped>>

DeleteIndex(c) ==
    LET k == call[c] IN
    /\ k.at = "delete" /\ ~IndexWritten /\ ~IndexRead
    /\ id_index' = {p \in id_index : p[1] # k.esme.system_id}
    /\ Leave(c)
    /\ UNCHANGED <<esmes, overlapped>>

\* authenticate, get_by_system_id: the index is read and kept while the account is.
Lookup(c, sid) ==
    /\ call[c] = Resting /\ ~IndexWritten
    /\ \E p \in id_index : p[1] = sid /\ Enter(c, "lookup", p[2], NoEsme)
    /\ UNCHANGED <<esmes, id_index, overlapped>>

\* AuthResult, in the order of the tests: account, status, password, address.
authenticate(id, statusAllows, passwordMatches, ipAllowed) ==
    CASE ~Exists(id) -> "NotFound"
      [] Exists(id) /\ ~statusAllows -> "Suspended"
      [] Exists(id) /\ statusAllows /\ ~passwordMatches -> "InvalidCredentials"
      [] Exists(id) /\ statusAllows /\ passwordMatches /\ ~ipAllowed -> "IpNotAllowed"
      [] OTHER -> "Success"

\* The rest of authenticate changes nothing but releases the index.
LookupEsme(c) ==
    /\ call[c].at = "lookup" /\ ~EsmesWritten
    /\ Leave(c)
    /\ UNCHANGED <<esmes, id_index, overlapped>>

\* reset_daily_quotas, reset_monthly_quotas.
ResetQuotas(kinds) ==
    /\ ~EsmesWritten
    /\ esmes' = [id \in Accounts |->
                    [esmes[id] EXCEPT !.used = [q \in QuotaKinds |-> IF q \in kinds THEN 0 ELSE @[q]]]]
    /\ UNCHANGED <<id_index, call, overlapped>>

\* A caller inside an operation takes its next step.
Proceed(c) ==
    \/ call[c].at = "copy" /\ Save(c, call[c].id, call[c].esme)
    \/ SaveIndex(c) \/ SaveEsme(c) \/ DeleteIndex(c) \/ LookupEsme(c)

EsmeNext ==
    \/ ResetQuotas({"daily"}) \/ ResetQuotas({"monthly", "spend"})
    \/ \E c \in Admins :
          \/ Proceed(c)
          \/ \E id \in Accounts :
                \/ Delete(c, id) \/ GetAndRecord(c, id)
                \/ \E sid \in SystemIds :
                      call[c] = Resting /\ Save(c, id, [system_id |-> sid, used |-> Unused])
          \/ \E sid \in SystemIds : Lookup(c, sid)

EsmeSpec == EsmeInit /\ [][EsmeNext]_es_vars
---------------------------------------------------------------------------
EsmeTypeOK ==
    /\ esmes \in [Accounts -> Esme \cup {NoEsme}]
    /\ id_index \subseteq SystemIds \X Accounts
    /\ call \in [Admins -> [at : {"rest", "copy", "save_index", "save_esmes", "delete", "lookup"},
                            id : Accounts \cup {"none"}, esme : Esme \cup {NoEsme}]]
    /\ overlapped \subseteq Accounts

\* The index tells the truth: the account it gives for a system_id has that system_id or
\* does not exist, unless that account is being saved or two saves of it ever overlapped.
\* An authentication then never answers for another account (save, delete).
TruthfulIndex ==
    \A p \in id_index :
        \/ p[2] \in overlapped
        \/ \E c \in At({"save_esmes"}) : call[c].id = p[2]
        \/ authenticate(p[2], TRUE, TRUE, TRUE) = "NotFound"
        \/ esmes[p[2]].system_id = p[1]

\* Callers that wait for each other's lock wait for a delete: saves, lookups and resets
\* alone never block each other for good (the order in which save and get_by_system_id
\* nest their locks).
StuckOnlyByDelete ==
    LET busy == Admins \ At({"rest"}) IN
    (busy # {} /\ \A c \in busy : ~ENABLED Proceed(c)) => At({"delete"}) # {}
===========================================================================
