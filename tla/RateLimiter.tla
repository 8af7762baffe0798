---------------------------- MODULE RateLimiter ----------------------------
(***************************************************************************)
(* The token buckets of filter/ratelimit.rs, for the requests of one client. *)
(*                                                                         *)
(* get_bucket looks the bucket up under a read lock and creates it under a  *)
(* write lock without looking again, so callers that meet create a bucket    *)
(* each and the last one stays in the map.  try_acquire refills under the    *)
(* lock of last_refill, but with a load and a store of the token count that  *)
(* the compare_exchange of another caller can come between.                 *)
(*                                                                         *)
(* A tick of the clock is the time in which Rate tokens are earned.          *)
(***************************************************************************)
EXTENDS Naturals, FiniteSets, Sequences

CONSTANTS
    Requests,    \* tasks that ask for a token
    Rate,        \* tokens per tick (requests_per_second)
    Burst,       \* capacity (burst_size)
    MaxClock     \* bound: the clock

ASSUME RateAssumption ==
    Rate \in Nat \ {0} /\ Burst \in Nat \ {0} /\ MaxClock \in Nat /\ IsFiniteSet(Requests)

VARIABLES
    mapped,      \* the bucket RateLimiterStore.buckets has for the client, 0 for none
    bucket,      \* the buckets created: sequence of [tokens, last, born, granted, refills]
    clock,       \* Instant::now
    asking       \* what each request does: [at, b, now, seen]

rl_vars == <<mapped, bucket, clock, asking>>

Buckets == DOMAIN bucket
NotAsking == [at |-> "idle", b |-> 0, now |-> 0, seen |-> 0]
Uncapped(n) == n
Capped(n) == IF n > Burst THEN Burst ELSE n

\* TokenBucket::new: full, refilled now.  born, granted and refills are history.
NewBucket == [tokens |-> Burst, last |-> clock, born |-> clock, granted |-> 0, refills |-> 0]

RateInit ==
    /\ mapped = 0
    /\ bucket = <<>>
    /\ clock = 0
    /\ asking = [r \in Requests |-> NotAsking]

\* The lock of bucket b's last_refill is held over the load and the store.
Locked(b) == \E r \in Requests : asking[r].at = "store" /\ asking[r].b = b
---------------------------------------------------------------------------
\* get_bucket under the read lock; try_acquire then reads the clock, before it has any lock.
GetBucket(r) ==
    /\ asking[r].at = "idle"
    /\ asking' = [asking EXCEPT ![r] = IF mapped = 0
                                       THEN [@ EXCEPT !.at = "create"]
                                       ELSE [at |-> "refill", b |-> mapped, now |-> clock, seen |-> 0]]
    /\ UNCHANGED <<mapped, bucket, clock>>

\* get_bucket under the write lock: insert replaces a bucket another caller has put there.
CreateBucket(r) ==
    /\ asking[r].at = "create"
    /\ bucket' = bucket \o <<NewBucket>>
    /\ mapped' = Len(bucket')
    /\ asking' = [asking EXCEPT ![r] = [at |-> "refill", b |-> mapped', now |-> clock, seen |-> 0]]
    /\ UNCHANGED clock

\* Tokens earned between the last refill and the instant r has read.
Earned(r) ==
    LET last == bucket[asking[r].b].last IN
    IF asking[r].now > last THEN Rate * (asking[r].now - last) ELSE 0

\* The refill: nothing to add, or the token count is loaded under the lock.
Refill(r) ==
    LET k == asking[r] IN
    /\ k.at = "refill" /\ ~Locked(k.b)
    /\ asking' = [asking EXCEPT ![r] = IF Earned(r) > 0
                                       THEN [k EXCEPT !.at = "store", !.seen = bucket[k.b].tokens]
                                       ELSE [k EXCEPT !.at = "take"]]
    /\ UNCHANGED <<mapped, bucket, clock>>

\* The store of the new total, computed from the loaded one, and of the instant.
RefillStore(r) ==
    LET k == asking[r] IN
    /\ k.at = "store"
    /\ bucket' = [bucket EXCEPT ![k.b].tokens = Capped(k.seen + Earned(r)),
                                ![k.b].last = k.now,
                                ![k.b].refills = @ + 1]
    /\ asking' = [asking EXCEPT ![r].at = "take"]
    /\ UNCHANGED <<mapped, clock>>

\* The consuming loop: the load, which refuses at zero, and the compare_exchange, which
\* goes back to the load when the count has changed.
Take(r) ==
    LET k == asking[r] IN
    /\ k.at = "take"
    /\ asking' = [asking EXCEPT ![r] = IF bucket[k.b].tokens = 0 THEN NotAsking
                                       ELSE [k EXCEPT !.at = "exchange", !.seen = bucket[k.b].tokens]]
    /\ UNCHANGED <<mapped, bucket, clock>>

PlainStore(r) ==
    LET k == asking[r] IN
    /\ k.at = "exchange"
    /\ bucket' = [bucket EXCEPT ![k.b].tokens = k.seen - 1, ![k.b].granted = @ + 1]
    /\ asking' = [asking EXCEPT ![r] = NotAsking]
    /\ UNCHANGED <<mapped, clock>>

CompareExchange(r) ==
    LET k == asking[r] IN
    /\ k.at = "exchange"
    /\ IF bucket[k.b].tokens = k.seen
       THEN /\ bucket' = [bucket EXCEPT ![k.b].tokens = @ - 1, ![k.b].granted = @ + 1]
            /\ asking' = [asking EXCEPT ![r] = NotAsking]
       ELSE asking' = [asking EXCEPT ![r].at = "take"] /\ UNCHANGED bucket
    /\ UNCHANGED <<mapped, clock>>

ClockTick ==
    /\ clock < MaxClock
    /\ clock' = clock + 1
    /\ UNCHANGED <<mapped, bucket, asking>>

RequestNext(r) ==
    \/ GetBucket(r) \/ CreateBucket(r) \/ Refill(r) \/ RefillStore(r) \/ Take(r) \/ CompareExchange(r)

RateNext == ClockTick \/ \E r \in Requests : RequestNext(r)

RateSpec == RateInit /\ [][RateNext]_rl_vars
---------------------------------------------------------------------------
RateTypeOK ==
    /\ mapped \in 0..Cardinality(Requests)
    /\ \A b \in Buckets : bucket[b].tokens \in 0..Burst
    /\ clock \in 0..MaxClock
    /\ \A r \in Requests : asking[r].at \in {"idle", "create", "refill", "store", "take", "exchange"}

\* What the limiter really limits: a bucket grants at most its burst, what it has earned
\* since it was created, and for each refill one token for every other request, which may
\* have taken its token between the load and the store of the refill; and the requests
\* that meet in get_bucket create at most one bucket each (try_acquire, get_bucket).
GrantsBounded ==
    /\ Cardinality(Buckets) <= Cardinality(Requests)
    /\ \A b \in Buckets :
          bucket[b].granted + bucket[b].tokens
              <= Burst + Rate * (clock - bucket[b].born)
                   + (Cardinality(Requests) - 1) * bucket[b].refills
===========================================================================
