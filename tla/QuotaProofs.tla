---------------------------- MODULE QuotaProofs ----------------------------
(***************************************************************************)
(* Proofs about the limits that are tested in one step and acted on in     *)
(* another: the tokens of the rate limiter and the quotas of the           *)
(* scheduler, for any number of concurrent callers.                        *)
(***************************************************************************)
EXTENDS RateLimiter, Scheduler, FiniteSetTheorems, TLAPS

(* The rate limiter *)

Others == Cardinality(Requests) - 1
Record == [tokens : 0..Burst, last : Nat, born : Nat, granted : Nat, refills : Nat]
Ask == [at : {"idle", "create", "refill", "store", "take", "exchange"}, b : Nat, now : Nat, seen : Nat]

RateTypes ==
    /\ bucket \in Seq(Record) /\ mapped = Len(bucket) /\ clock \in 0..MaxClock
    /\ asking \in [Requests -> Ask]

\* Every bucket there is, and every one that a request is about to create, is a request's own.
Creating == {r \in Requests : asking[r].at = "create"}
FewBuckets == Len(bucket) + Cardinality(Creating) <= Cardinality(Requests)

\* A request that has a bucket has one that exists, and an instant that is past; what it has
\* loaded is a token count.
AsksMakeSense ==
    \A r \in Requests : asking[r].at \notin {"idle", "create"} =>
        /\ asking[r].b \in 1..Len(bucket) /\ asking[r].now <= clock /\ asking[r].seen <= Burst
        /\ asking[r].at = "exchange" => asking[r].seen > 0
        /\ asking[r].at = "store" => asking[r].now > bucket[asking[r].b].last

TimesInOrder == \A b \in 1..Len(bucket) : bucket[b].born <= bucket[b].last /\ bucket[b].last <= clock

Refills(r, b) == asking[r].at = "store" /\ asking[r].b = b
OneRefill == \A b \in 1..Len(bucket) : \A r, q \in Requests : Refills(r, b) /\ Refills(q, b) => r = q

\* What the history of a bucket allows: its burst, what it has earned up to its last refill,
\* and a token of every other request for each refill.
Allowance(k) == (Burst + Rate * (k.last - k.born)) + Others * k.refills
WithinAllowance == \A b \in 1..Len(bucket) : bucket[b].granted + bucket[b].tokens <= Allowance(bucket[b])

\* While a refill has its count loaded, the requests that are past their refill may still take
\* a token each that the store brings back; no request joins them.
Takers(b) == {r \in Requests : asking[r].at \in {"take", "exchange"} /\ asking[r].b = b}
LoadedAccounted ==
    \A b \in 1..Len(bucket) : \A r \in Requests : Refills(r, b) =>
        (bucket[b].granted + asking[r].seen) + Cardinality(Takers(b)) <= Allowance(bucket[b]) + Others

RateInv ==
    RateTypes /\ FewBuckets /\ AsksMakeSense /\ TimesInOrder /\ OneRefill /\ WithinAllowance /\ LoadedAccounted
---------------------------------------------------------------------------
\* Arithmetic of the allowance: time that passes and a refill more.
LEMMA EarnedAdds ==
    \A x, born, filled, t \in Nat : born <= filled /\ filled <= t =>
        /\ x * (t - born) = x * (t - filled) + x * (filled - born)
        /\ x * (filled - born) <= x * (t - born)
        /\ x * (t - born) \in Nat /\ x * (filled - born) \in Nat /\ x * (t - filled) \in Nat
  <1> SUFFICES ASSUME NEW x \in Nat, NEW born \in Nat, NEW filled \in Nat, NEW t \in Nat,
                      born <= filled, filled <= t
               PROVE  /\ x * (t - born) = x * (t - filled) + x * (filled - born)
                      /\ x * (filled - born) <= x * (t - born)
                      /\ x * (t - born) \in Nat /\ x * (filled - born) \in Nat /\ x * (t - filled) \in Nat
    OBVIOUS
  <1> DEFINE m == t - filled
             n == filled - born
  <1>1. m \in Nat /\ n \in Nat /\ t = filled + m /\ filled = born + n  OBVIOUS
  <1>2. t - born = m + n /\ t - filled = m /\ filled - born = n  OBVIOUS
  <1> HIDE DEF m, n
  <1>3. x * (m + n) = x * m + x * n /\ x * m \in Nat /\ x * n \in Nat  BY <1>1
  <1>4. QED  BY <1>2, <1>3

\* One refill more allows one more token of each other request.
LEMMA OneRefillMore == ASSUME NEW x \in Int, NEW n \in Nat PROVE x * (n + 1) = x * n + x
  OBVIOUS

\* How many: the requests that are one fewer than all.
LEMMA FewerRequests ==
    /\ Cardinality(Requests) \in Nat
    /\ \A S \in SUBSET Requests : /\ IsFiniteSet(S) /\ Cardinality(S) \in Nat
                                  /\ Cardinality(S) <= Cardinality(Requests)
    /\ \A S \in SUBSET Requests : \A r \in Requests : r \notin S => Cardinality(S) <= Others
    /\ \A S \in SUBSET Requests : \A r \in S : Cardinality(S \ {r}) = Cardinality(S) - 1
  <1>0. IsFiniteSet(Requests)  BY RateAssumption
  <1>1. Cardinality(Requests) \in Nat  BY <1>0, FS_CardinalityType
  <1>2. ASSUME NEW S \in SUBSET Requests
        PROVE  IsFiniteSet(S) /\ Cardinality(S) \in Nat /\ Cardinality(S) <= Cardinality(Requests)
    <2>1. IsFiniteSet(S) /\ Cardinality(S) <= Cardinality(Requests)  BY <1>0, FS_Subset
    <2>2. QED  BY <2>1, FS_CardinalityType
  <1>3. ASSUME NEW S \in SUBSET Requests, NEW r \in Requests, r \notin S PROVE Cardinality(S) <= Others
    <2>1. IsFiniteSet(S)  BY <1>2
    <2>2. Cardinality(S \cup {r}) = Cardinality(S) + 1  BY <1>3, <2>1, FS_AddElement
    <2>3. S \cup {r} \in SUBSET Requests  OBVIOUS
    <2>4. Cardinality(S \cup {r}) <= Cardinality(Requests)  BY <1>2, <2>3
    <2>5. QED  BY <1>1, <1>2, <2>2, <2>4 DEF Others
  <1>4. ASSUME NEW S \in SUBSET Requests, NEW r \in S PROVE Cardinality(S \ {r}) = Cardinality(S) - 1
    BY <1>2, FS_RemoveElement
  <1>5. QED  BY <1>1, <1>2, <1>3, <1>4

\* The bucket that a request creates comes after the others.
LEMMA BucketAdded ==
    ASSUME NEW s \in Seq(Record), NEW k \in Record
    PROVE  /\ s \o <<k>> \in Seq(Record) /\ Len(s \o <<k>>) = Len(s) + 1
           /\ \A i \in 1..Len(s) : (s \o <<k>>)[i] = s[i]
           /\ (s \o <<k>>)[Len(s) + 1] = k
  OBVIOUS

\* A step that changes one bucket.
LEMMA BucketChanged ==
    ASSUME NEW s \in Seq(Record), NEW b \in 1..Len(s), NEW k \in Record
    PROVE  /\ [s EXCEPT ![b] = k] \in Seq(Record) /\ Len([s EXCEPT ![b] = k]) = Len(s)
           /\ [s EXCEPT ![b] = k][b] = k
           /\ \A i \in 1..Len(s) : i # b => [s EXCEPT ![b] = k][i] = s[i]
  OBVIOUS

\* What a bucket's fields become, in a refill and in a grant.
LEMMA RecordFields ==
    /\ \A o \in Record : \A x \in 0..Burst : [o EXCEPT !.tokens = x] \in Record
    /\ \A o \in Record : \A n \in Nat : /\ [o EXCEPT !.last = n] \in Record
                                        /\ [o EXCEPT !.granted = n] \in Record
                                        /\ [o EXCEPT !.refills = n] \in Record
  <1>1. \A o \in Record : \A x \in 0..Burst : [o EXCEPT !.tokens = x] \in Record  BY DEF Record
  <1>2. \A o \in Record : \A n \in Nat : [o EXCEPT !.last = n] \in Record  BY DEF Record
  <1>3. \A o \in Record : \A n \in Nat : [o EXCEPT !.granted = n] \in Record  BY DEF Record
  <1>4. \A o \in Record : \A n \in Nat : [o EXCEPT !.refills = n] \in Record  BY DEF Record
  <1>5. QED  BY <1>1, <1>2, <1>3, <1>4

\* A bucket that has granted a token.
LEMMA RecordGranted ==
    ASSUME NEW o \in Record, o.tokens > 0,
           NEW f, f = [o EXCEPT !.tokens = @ - 1, !.granted = @ + 1]
    PROVE  /\ f \in Record /\ f.tokens = o.tokens - 1 /\ f.last = o.last /\ f.born = o.born
           /\ f.granted = o.granted + 1 /\ f.refills = o.refills
  <1>1. PICK x \in 0..Burst : x = o.tokens - 1  BY RateAssumption DEF Record
  <1>2. PICK n \in Nat : n = o.granted + 1  BY DEF Record
  <1>3. PICK g \in Record : g = [o EXCEPT !.tokens = x]  BY RecordFields
  <1>4. f = [[o EXCEPT !.tokens = x] EXCEPT !.granted = n]  BY <1>1, <1>2 DEF Record
  <1>5. f = [g EXCEPT !.granted = n]  BY <1>3, <1>4
  <1>6. f \in Record  BY <1>5, RecordFields
  <1>7. f.tokens = o.tokens - 1 /\ f.granted = o.granted + 1  BY DEF Record
  <1>8. f.born = o.born /\ f.last = o.last /\ f.refills = o.refills  BY DEF Record
  <1>9. QED  BY <1>6, <1>7, <1>8

\* A request that takes its token is no longer one that may.
LEMMA TakerPays ==
    ASSUME NEW g \in Nat, NEW u \in Nat, NEW n \in Nat, NEW x \in Int, (g + u) + n <= x
    PROVE  ((g + 1) + u) + (n - 1) <= x /\ g + u <= x
  OBVIOUS

\* The allowance is a number.
LEMMA AllowanceInt == ASSUME NEW k \in Record PROVE Allowance(k) \in Int /\ Others \in Int
  BY RateAssumption, FewerRequests DEF Allowance, Others, Record

\* A token count is cut at the burst.
LEMMA CappedCount ==
    ASSUME NEW n \in Nat PROVE Capped(n) \in 0..Burst /\ Capped(n) <= n
  BY RateAssumption DEF Capped

\* A step of one request.
LEMMA AskedOnce ==
    ASSUME RateTypes, NEW r \in Requests, NEW k \in Ask, asking' = [asking EXCEPT ![r] = k]
    PROVE  /\ asking' \in [Requests -> Ask] /\ asking'[r] = k
           /\ \A q \in Requests : q # r => asking'[q] = asking[q]
  BY DEF RateTypes

\* At first there is no bucket.
LEMMA RateStart == RateInit => RateInv
  <1> SUFFICES ASSUME RateInit PROVE RateInv
    OBVIOUS
  <1>1. Len(bucket) = 0 /\ bucket \in Seq(Record)  BY DEF RateInit
  <1>2. \A r \in Requests : asking[r].at = "idle"  BY DEF RateInit, NotAsking
  <1>3. Creating = {}  BY <1>2 DEF Creating
  <1>4. FewBuckets  BY <1>1, <1>3, FS_EmptySet, FewerRequests DEF FewBuckets
  <1>5. RateTypes  BY <1>1, RateAssumption DEF RateInit, RateTypes, Ask, NotAsking
  <1>6. AsksMakeSense  BY <1>2 DEF AsksMakeSense
  <1>7. TimesInOrder /\ OneRefill /\ WithinAllowance /\ LoadedAccounted
    BY <1>1 DEF TimesInOrder, OneRefill, WithinAllowance, LoadedAccounted
  <1>8. QED  BY <1>4, <1>5, <1>6, <1>7 DEF RateInv

\* A step that changes no bucket: a request that loads the count of a refill finds the lock
\* free, and one that goes on to take a token was about to, or finds the lock free.
LEMMA OnlyAsking ==
    ASSUME RateInv, NEW r \in Requests, NEW k \in Ask, asking' = [asking EXCEPT ![r] = k],
           UNCHANGED <<mapped, bucket, clock>>, asking[r].at # "store",
           k.at = "create" => mapped = 0,
           k.at \notin {"idle", "create"} => k.b \in 1..Len(bucket) /\ k.now <= clock /\ k.seen <= Burst,
           k.at = "exchange" => k.seen > 0,
           k.at = "store" => k.now > bucket[k.b].last /\ k.seen = bucket[k.b].tokens /\ ~Locked(k.b),
           k.at \in {"take", "exchange"} => r \in Takers(k.b) \/ ~Locked(k.b)
    PROVE  RateInv'
  <1>0. RateTypes  BY DEF RateInv
  <1>1. /\ asking' \in [Requests -> Ask] /\ asking'[r] = k
        /\ \A q \in Requests : q # r => asking'[q] = asking[q]
    BY <1>0, AskedOnce
  <1>2. RateTypes'  BY <1>0, <1>1 DEF RateTypes
  <1>3. FewBuckets'
    <2>1. Creating \in SUBSET Requests /\ Creating' \in SUBSET Requests  BY DEF Creating
    <2>2. CASE k.at = "create"
      <3>1. Len(bucket') = 0  BY <1>0, <2>2 DEF RateTypes
      <3>2. Cardinality(Creating') \in Nat /\ Cardinality(Creating') <= Cardinality(Requests)
        BY <2>1, FewerRequests
      <3>3. QED  BY <3>1, <3>2, FewerRequests DEF FewBuckets
    <2>3. CASE k.at # "create"
      <3>1. Creating' \subseteq Creating  BY <1>1, <2>3 DEF Creating
      <3>2. IsFiniteSet(Creating)  BY <2>1, FewerRequests
      <3>3. Cardinality(Creating') <= Cardinality(Creating)  BY <3>1, <3>2, FS_Subset
      <3>4. Cardinality(Creating') \in Nat /\ Cardinality(Creating) \in Nat /\ Len(bucket) \in Nat
        BY <1>0, <2>1, FewerRequests DEF RateTypes
      <3>5. QED  BY <3>3, <3>4, FewerRequests DEF RateInv, FewBuckets
    <2>4. QED  BY <2>2, <2>3
  <1>4. AsksMakeSense'  BY <1>1 DEF RateInv, AsksMakeSense
  <1>5. TimesInOrder' /\ WithinAllowance'
    BY DEF RateInv, TimesInOrder, WithinAllowance, Allowance
  <1>6. OneRefill'
    <2> SUFFICES ASSUME NEW b \in 1..Len(bucket), NEW p \in Requests, NEW q \in Requests,
                        Refills(p, b)', Refills(q, b)'
                 PROVE  p = q
      BY DEF OneRefill
    <2>1. \A x \in Requests : x # r /\ Refills(x, b)' => Refills(x, b) /\ Locked(b)  BY <1>1 DEF Refills, Locked
    <2>2. Refills(r, b)' => ~Locked(b)  BY <1>1 DEF Refills
    <2>3. QED  BY <2>1, <2>2 DEF RateInv, OneRefill
  <1>7. LoadedAccounted'
    <2> SUFFICES ASSUME NEW b \in 1..Len(bucket), NEW q \in Requests, Refills(q, b)'
                 PROVE  (bucket[b].granted + asking'[q].seen) + Cardinality(Takers(b)')
                            <= Allowance(bucket[b]) + Others
      BY DEF LoadedAccounted, Allowance
    <2>1. Takers(b) \in SUBSET Requests /\ Takers(b)' \in SUBSET Requests  BY DEF Takers
    <2>2. Cardinality(Takers(b)) \in Nat /\ Cardinality(Takers(b)') \in Nat /\ IsFiniteSet(Takers(b))
      BY <2>1, FewerRequests
    <2>3. bucket[b] \in Record  BY <1>0 DEF RateTypes
    <2>4. Allowance(bucket[b]) \in Int /\ Others \in Int
      BY <2>3, RateAssumption, FewerRequests DEF Allowance, Others, Record
    <2>5. CASE q = r
      <3>1. k.at = "store" /\ k.b = b /\ k.seen = bucket[b].tokens  BY <1>1, <2>5 DEF Refills
      <3>2. r \notin Takers(b)'  BY <1>1, <3>1 DEF Takers
      <3>3. Cardinality(Takers(b)') <= Others  BY <2>1, <3>2, FewerRequests
      <3>4. bucket[b].granted + bucket[b].tokens <= Allowance(bucket[b])  BY DEF RateInv, WithinAllowance
      <3>5. bucket[b].granted \in Nat /\ bucket[b].tokens \in Nat  BY <2>3, RateAssumption DEF Record
      <3>6. QED  BY <1>1, <2>2, <2>4, <2>5, <3>1, <3>3, <3>4, <3>5
    <2>6. CASE q # r
      <3>1. Refills(q, b) /\ Locked(b) /\ asking'[q].seen = asking[q].seen  BY <1>1, <2>6 DEF Refills, Locked
      <3>2. Takers(b)' \subseteq Takers(b)  BY <1>1, <3>1 DEF Takers
      <3>3. Cardinality(Takers(b)') <= Cardinality(Takers(b))  BY <2>2, <3>2, FS_Subset
      <3>4. (bucket[b].granted + asking[q].seen) + Cardinality(Takers(b)) <= Allowance(bucket[b]) + Others
        BY <3>1 DEF RateInv, LoadedAccounted
      <3>5. bucket[b].granted \in Nat /\ asking[q].seen \in Nat  BY <1>0, <2>3 DEF RateTypes, Record, Ask
      <3>6. QED  BY <2>2, <2>4, <3>1, <3>3, <3>4, <3>5
    <2>7. QED  BY <2>5, <2>6
  <1>8. QED  BY <1>2, <1>3, <1>4, <1>5, <1>6, <1>7 DEF RateInv

\* A request finds its bucket, or is about to create one.
LEMMA GetBucketStep == ASSUME RateInv, NEW r \in Requests, GetBucket(r) PROVE RateInv'
  <1>1. RateTypes /\ asking[r] \in Ask /\ asking[r].at = "idle" /\ UNCHANGED <<mapped, bucket, clock>>
    BY DEF RateInv, RateTypes, GetBucket
  <1>2. mapped \in Nat /\ clock \in Nat /\ mapped = Len(bucket)  BY <1>1, RateAssumption DEF RateTypes
  <1>3. CASE mapped = 0
    <2> DEFINE k == [asking[r] EXCEPT !.at = "create"]
    <2>1. asking' = [asking EXCEPT ![r] = k]  BY <1>3 DEF GetBucket
    <2>2. k \in Ask /\ k.at = "create"  BY <1>1 DEF Ask
    <2> HIDE DEF k
    <2>3. QED  BY <1>1, <1>3, <2>1, <2>2, OnlyAsking
  <1>4. CASE mapped # 0
    <2> DEFINE k == [at |-> "refill", b |-> mapped, now |-> clock, seen |-> 0]
    <2>1. asking' = [asking EXCEPT ![r] = k]  BY <1>4 DEF GetBucket
    <2>2. k \in Ask /\ k.at = "refill" /\ k.b \in 1..Len(bucket) /\ k.now <= clock /\ k.seen <= Burst
      BY <1>2, <1>4, RateAssumption DEF Ask
    <2> HIDE DEF k
    <2>3. QED  BY <1>1, <2>1, <2>2, OnlyAsking
  <1>5. QED  BY <1>3, <1>4

\* A request compares the instants and loads the count, or goes on without a refill.
LEMMA RefillStep == ASSUME RateInv, NEW r \in Requests, Refill(r) PROVE RateInv'
  <1>1. /\ RateTypes /\ asking[r] \in Ask /\ asking[r].at = "refill" /\ ~Locked(asking[r].b)
        /\ UNCHANGED <<mapped, bucket, clock>>
    BY DEF RateInv, RateTypes, Refill
  <1>2. asking[r].b \in 1..Len(bucket) /\ asking[r].now <= clock /\ asking[r].seen <= Burst
    BY <1>1 DEF RateInv, AsksMakeSense
  <1>3. bucket[asking[r].b] \in Record  BY <1>1, <1>2 DEF RateTypes
  <1>4. CASE Earned(r) > 0
    <2> DEFINE k == [asking[r] EXCEPT !.at = "store", !.seen = bucket[asking[r].b].tokens]
    <2>1. asking' = [asking EXCEPT ![r] = k]  BY <1>4 DEF Refill
    <2>2. asking[r].now > bucket[asking[r].b].last  BY <1>4 DEF Earned
    <2>3. bucket[asking[r].b].tokens \in Nat /\ bucket[asking[r].b].tokens <= Burst
      BY <1>3, RateAssumption DEF Record
    <2>4. /\ k \in Ask /\ k.at = "store" /\ k.b = asking[r].b /\ k.now = asking[r].now
          /\ k.seen = bucket[asking[r].b].tokens
      BY <1>1, <2>3 DEF Ask
    <2> HIDE DEF k
    <2>5. QED  BY <1>1, <1>2, <2>1, <2>2, <2>3, <2>4, OnlyAsking
  <1>5. CASE ~(Earned(r) > 0)
    <2> DEFINE k == [asking[r] EXCEPT !.at = "take"]
    <2>1. asking' = [asking EXCEPT ![r] = k]  BY <1>5 DEF Refill
    <2>2. k \in Ask /\ k.at = "take" /\ k.b = asking[r].b /\ k.now = asking[r].now /\ k.seen = asking[r].seen
      BY <1>1 DEF Ask
    <2> HIDE DEF k
    <2>3. QED  BY <1>1, <1>2, <2>1, <2>2, OnlyAsking
  <1>6. QED  BY <1>4, <1>5

\* A request loads the count it will try to lower, or is refused.
LEMMA TakeStep == ASSUME RateInv, NEW r \in Requests, Take(r) PROVE RateInv'
  <1>1. RateTypes /\ asking[r] \in Ask /\ asking[r].at = "take" /\ UNCHANGED <<mapped, bucket, clock>>
    BY DEF RateInv, RateTypes, Take
  <1>2. /\ asking[r].b \in 1..Len(bucket) /\ asking[r].now <= clock /\ asking[r].seen <= Burst
        /\ r \in Takers(asking[r].b)
    BY <1>1 DEF RateInv, AsksMakeSense, Takers
  <1>3. bucket[asking[r].b] \in Record  BY <1>1, <1>2 DEF RateTypes
  <1>4. CASE bucket[asking[r].b].tokens = 0
    <2>1. asking' = [asking EXCEPT ![r] = NotAsking]  BY <1>4 DEF Take
    <2>2. NotAsking \in Ask /\ NotAsking.at = "idle"  BY DEF NotAsking, Ask
    <2>3. QED  BY <1>1, <2>1, <2>2, OnlyAsking
  <1>5. CASE bucket[asking[r].b].tokens # 0
    <2> DEFINE k == [asking[r] EXCEPT !.at = "exchange", !.seen = bucket[asking[r].b].tokens]
    <2>1. asking' = [asking EXCEPT ![r] = k]  BY <1>5 DEF Take
    <2>2. /\ bucket[asking[r].b].tokens \in Nat /\ bucket[asking[r].b].tokens <= Burst
          /\ bucket[asking[r].b].tokens > 0
      BY <1>3, <1>5, RateAssumption DEF Record
    <2>3. /\ k \in Ask /\ k.at = "exchange" /\ k.b = asking[r].b /\ k.now = asking[r].now
          /\ k.seen = bucket[asking[r].b].tokens
      BY <1>1, <2>2 DEF Ask
    <2> HIDE DEF k
    <2>4. QED  BY <1>1, <1>2, <2>1, <2>2, <2>3, OnlyAsking
  <1>6. QED  BY <1>4, <1>5

\* get_bucket without a second look: the new bucket is full and nobody else has it yet.
LEMMA CreateBucketStep == ASSUME RateInv, NEW r \in Requests, CreateBucket(r) PROVE RateInv'
  <1> DEFINE n == Len(bucket) + 1
             k == [at |-> "refill", b |-> n, now |-> clock, seen |-> 0]
  <1>0. RateTypes /\ clock \in Nat /\ Len(bucket) \in Nat  BY RateAssumption DEF RateInv, RateTypes
  <1>1. NewBucket \in Record  BY <1>0, RateAssumption DEF NewBucket, Record
  <1>2. /\ bucket' \in Seq(Record) /\ Len(bucket') = n /\ bucket'[n] = NewBucket
        /\ \A i \in 1..Len(bucket) : bucket'[i] = bucket[i]
    <2>1. bucket' = bucket \o <<NewBucket>> /\ bucket \in Seq(Record)  BY <1>0 DEF CreateBucket, RateTypes
    <2> HIDE DEF NewBucket
    <2>2. QED  BY <1>1, <2>1, BucketAdded
  <1>3. asking[r].at = "create" /\ mapped' = n /\ asking' = [asking EXCEPT ![r] = k] /\ clock' = clock
    BY <1>2 DEF CreateBucket
  <1>4. k \in Ask /\ k.at = "refill" /\ k.b = n /\ k.now = clock /\ k.seen = 0  BY <1>0 DEF Ask
  <1> HIDE DEF k
  <1>5. /\ asking' \in [Requests -> Ask] /\ asking'[r] = k
        /\ \A q \in Requests : q # r => asking'[q] = asking[q]
    BY <1>0, <1>3, <1>4, AskedOnce
  <1>6. RateTypes'  BY <1>0, <1>2, <1>3, <1>5 DEF RateTypes
  <1>7. FewBuckets'
    <2>1. Creating \in SUBSET Requests /\ r \in Creating /\ Creating' = Creating \ {r}
      BY <1>3, <1>4, <1>5 DEF Creating
    <2>2. Cardinality(Creating') = Cardinality(Creating) - 1 /\ Cardinality(Creating) \in Nat
      BY <2>1, FewerRequests
    <2>3. Len(bucket) + Cardinality(Creating) <= Cardinality(Requests)  BY DEF RateInv, FewBuckets
    <2>4. QED  BY <1>0, <1>2, <2>2, <2>3, FewerRequests DEF FewBuckets
  <1>8. AsksMakeSense'
    <2> SUFFICES ASSUME NEW q \in Requests, asking'[q].at \notin {"idle", "create"}
                 PROVE  /\ asking'[q].b \in 1..n /\ asking'[q].now <= clock /\ asking'[q].seen <= Burst
                        /\ asking'[q].at = "exchange" => asking'[q].seen > 0
                        /\ asking'[q].at = "store" => asking'[q].now > bucket'[asking'[q].b].last
      BY <1>2, <1>3 DEF AsksMakeSense
    <2>1. CASE q = r  BY <1>0, <1>4, <1>5, <2>1, RateAssumption
    <2>2. CASE q # r
      <3>1. asking'[q] = asking[q]  BY <1>5, <2>2
      <3>2. /\ asking[q].b \in 1..Len(bucket) /\ asking[q].now <= clock /\ asking[q].seen <= Burst
            /\ asking[q].at = "exchange" => asking[q].seen > 0
            /\ asking[q].at = "store" => asking[q].now > bucket[asking[q].b].last
        BY <3>1 DEF RateInv, AsksMakeSense
      <3>3. bucket'[asking[q].b] = bucket[asking[q].b] /\ asking[q].b \in 1..n  BY <1>0, <1>2, <3>2
      <3>4. QED  BY <3>1, <3>2, <3>3
    <2>3. QED  BY <2>1, <2>2
  <1>9. ASSUME NEW b \in 1..n
        PROVE  /\ b = n => bucket'[b] = NewBucket /\ \A q \in Requests : ~Refills(q, b)'
               /\ b # n => /\ b \in 1..Len(bucket) /\ bucket'[b] = bucket[b] /\ Takers(b)' = Takers(b)
                           /\ \A q \in Requests : Refills(q, b)' => Refills(q, b) /\ asking'[q] = asking[q]
    <2>1. CASE b = n
      <3>1. \A q \in Requests : q # r => ~Refills(q, b)'
        BY <1>0, <1>5, <2>1 DEF Refills, RateInv, AsksMakeSense
      <3>2. ~Refills(r, b)'  BY <1>4, <1>5 DEF Refills
      <3>3. QED  BY <1>2, <2>1, <3>1, <3>2
    <2>2. CASE b # n
      <3>1. b \in 1..Len(bucket) /\ bucket'[b] = bucket[b]  BY <1>0, <1>2, <2>2
      <3>2. Takers(b)' = Takers(b)  BY <1>3, <1>4, <1>5 DEF Takers
      <3>3. \A q \in Requests : Refills(q, b)' => Refills(q, b) /\ asking'[q] = asking[q]
        BY <1>4, <1>5 DEF Refills
      <3>4. QED  BY <2>2, <3>1, <3>2, <3>3
    <2>3. QED  BY <2>1, <2>2
  <1>10. TimesInOrder'
    BY <1>0, <1>2, <1>3, <1>9 DEF RateInv, TimesInOrder, NewBucket
  <1>11. OneRefill'  BY <1>2, <1>9 DEF RateInv, OneRefill
  <1>12. WithinAllowance'
    <2> SUFFICES ASSUME NEW b \in 1..n PROVE bucket'[b].granted + bucket'[b].tokens <= Allowance(bucket'[b])
      BY <1>2 DEF WithinAllowance, Allowance
    <2>1. CASE b # n  BY <1>9, <2>1 DEF RateInv, WithinAllowance
    <2>2. CASE b = n
      <3>1. /\ bucket'[b].granted = 0 /\ bucket'[b].tokens = Burst /\ bucket'[b].refills = 0
            /\ bucket'[b].last = clock /\ bucket'[b].born = clock
        BY <1>9, <2>2 DEF NewBucket
      <3>2. Rate * (clock - clock) = 0 /\ Others * 0 = 0
        BY <1>0, RateAssumption, FewerRequests DEF Others
      <3>3. Allowance(bucket'[b]) = Burst  BY <3>1, <3>2, RateAssumption DEF Allowance
      <3>4. QED  BY <3>1, <3>3, RateAssumption
    <2>3. QED  BY <2>1, <2>2
  <1>13. LoadedAccounted'
    <2> SUFFICES ASSUME NEW b \in 1..n, NEW q \in Requests, Refills(q, b)'
                 PROVE  (bucket'[b].granted + asking'[q].seen) + Cardinality(Takers(b)')
                            <= Allowance(bucket'[b]) + Others
      BY <1>2 DEF LoadedAccounted, Allowance
    <2>1. b # n  BY <1>9
    <2>2. QED  BY <1>9, <2>1 DEF RateInv, LoadedAccounted
  <1>14. QED  BY <1>6, <1>7, <1>8, <1>10, <1>11, <1>12, <1>13 DEF RateInv

\* A step on one bucket: what the other buckets' requests rely on stays.
LEMMA OneBucketMoves ==
    ASSUME RateInv, NEW r \in Requests, NEW k \in Ask, NEW f \in Record, NEW c \in 1..Len(bucket),
           asking[r].b = c, asking[r].at \in {"store", "exchange"},
           asking' = [asking EXCEPT ![r] = k], bucket' = [bucket EXCEPT ![c] = f],
           UNCHANGED <<mapped, clock>>,
           k.at \in {"take", "idle"}, k.at = "take" => k = [asking[r] EXCEPT !.at = "take"],
           f.born <= f.last, f.last <= clock,
           f.last = bucket[c].last \/ asking[r].at = "store",
           f.granted + f.tokens <= Allowance(f),
           asking[r].at = "exchange" =>
               /\ f.granted = bucket[c].granted + 1 /\ k.at = "idle"
               /\ Allowance(f) = Allowance(bucket[c])
    PROVE  RateInv'
  <1>0. /\ RateTypes /\ asking[r] \in Ask /\ c \in 1..Len(bucket) /\ asking[r].now <= clock
        /\ asking[r].seen <= Burst
    BY DEF RateInv, RateTypes, AsksMakeSense
  <1>1. /\ asking' \in [Requests -> Ask] /\ asking'[r] = k
        /\ \A q \in Requests : q # r => asking'[q] = asking[q]
    BY <1>0, AskedOnce
  <1>2. /\ bucket' \in Seq(Record) /\ Len(bucket') = Len(bucket) /\ bucket'[c] = f
        /\ \A b \in 1..Len(bucket) : b # c => bucket'[b] = bucket[b]
    <2>1. bucket \in Seq(Record) /\ bucket' = [bucket EXCEPT ![c] = f]  BY <1>0 DEF RateTypes
    <2>2. QED  BY <1>0, <2>1, BucketChanged
  <1>3. k.at = "take" => k.b = c /\ k.now <= clock /\ k.seen <= Burst  BY <1>0 DEF Ask
  <1>4. RateTypes'  BY <1>0, <1>1, <1>2 DEF RateTypes
  <1>5. FewBuckets'
    <2>1. Creating' = Creating  BY <1>1 DEF Creating
    <2>2. QED  BY <1>2, <2>1 DEF RateInv, FewBuckets
  \* Nobody but r stores into its bucket.
  <1>6. \A q \in Requests : \A b \in 1..Len(bucket) :
           Refills(q, b)' => q # r /\ asking'[q] = asking[q] /\ Refills(q, b)
    BY <1>1 DEF Refills
  <1>7. asking[r].at = "store" => \A q \in Requests : ~Refills(q, c)'
    BY <1>0, <1>6 DEF RateInv, OneRefill, Refills
  <1>8. AsksMakeSense'
    <2> SUFFICES ASSUME NEW q \in Requests, asking'[q].at \notin {"idle", "create"}
                 PROVE  /\ asking'[q].b \in 1..Len(bucket) /\ asking'[q].now <= clock /\ asking'[q].seen <= Burst
                        /\ asking'[q].at = "exchange" => asking'[q].seen > 0
                        /\ asking'[q].at = "store" => asking'[q].now > bucket'[asking'[q].b].last
      BY <1>2 DEF AsksMakeSense
    <2>1. CASE q = r  BY <1>0, <1>1, <1>3, <2>1
    <2>2. CASE q # r
      <3>1. asking'[q] = asking[q]  BY <1>1, <2>2
      <3>2. /\ asking[q].b \in 1..Len(bucket) /\ asking[q].now <= clock /\ asking[q].seen <= Burst
            /\ asking[q].at = "exchange" => asking[q].seen > 0
            /\ asking[q].at = "store" => asking[q].now > bucket[asking[q].b].last
        BY <3>1 DEF RateInv, AsksMakeSense
      <3>3. CASE asking[q].at = "store"
        <4>1. asking[q].b = c => Refills(q, c)'  BY <3>1, <3>3 DEF Refills
        <4>2. asking[q].b = c => f.last = bucket[c].last  BY <1>7, <4>1
        <4>3. bucket'[asking[q].b].last = bucket[asking[q].b].last  BY <1>2, <3>2, <4>2
        <4>4. QED  BY <3>1, <3>2, <4>3
      <3>4. QED  BY <3>1, <3>2, <3>3
    <2>3. QED  BY <2>1, <2>2
  <1>9. TimesInOrder'
    <2> SUFFICES ASSUME NEW b \in 1..Len(bucket)
                 PROVE  bucket'[b].born <= bucket'[b].last /\ bucket'[b].last <= clock
      BY <1>2 DEF TimesInOrder
    <2>1. CASE b = c  BY <1>2, <2>1
    <2>2. CASE b # c  BY <1>2, <2>2 DEF RateInv, TimesInOrder
    <2>3. QED  BY <2>1, <2>2
  <1>10. OneRefill'  BY <1>2, <1>6 DEF RateInv, OneRefill
  <1>11. WithinAllowance'
    <2> SUFFICES ASSUME NEW b \in 1..Len(bucket)
                 PROVE  bucket'[b].granted + bucket'[b].tokens <= Allowance(bucket'[b])
      BY <1>2 DEF WithinAllowance, Allowance
    <2>1. CASE b = c  BY <1>2, <2>1
    <2>2. CASE b # c  BY <1>2, <2>2 DEF RateInv, WithinAllowance
    <2>3. QED  BY <2>1, <2>2
  <1>12. LoadedAccounted'
    <2> SUFFICES ASSUME NEW b \in 1..Len(bucket), NEW q \in Requests, Refills(q, b)'
                 PROVE  (bucket'[b].granted + asking'[q].seen) + Cardinality(Takers(b)')
                            <= Allowance(bucket'[b]) + Others
      BY <1>2 DEF LoadedAccounted, Allowance
    <2>1. /\ asking'[q] = asking[q]
          /\ (bucket[b].granted + asking[q].seen) + Cardinality(Takers(b)) <= Allowance(bucket[b]) + Others
      BY <1>6 DEF RateInv, LoadedAccounted
    <2>2. CASE b # c
      <3>1. Takers(b)' = Takers(b)  BY <1>1, <1>3, <2>2 DEF Takers
      <3>2. QED  BY <1>2, <2>1, <2>2, <3>1
    <2>3. CASE b = c
      <3>1. asking[r].at = "exchange"  BY <1>7, <2>3
      <3>2. r \in Takers(b) /\ Takers(b)' = Takers(b) \ {r} /\ Takers(b) \in SUBSET Requests
        BY <1>1, <2>3, <3>1 DEF Takers
      <3>3. Cardinality(Takers(b)') = Cardinality(Takers(b)) - 1 /\ Cardinality(Takers(b)) \in Nat
        BY <3>2, FewerRequests
      <3>4. /\ bucket'[b].granted = bucket[b].granted + 1
            /\ Allowance(bucket'[b]) = Allowance(bucket[b])
        BY <1>2, <2>3, <3>1
      <3>5. bucket[b] \in Record /\ asking[q] \in Ask  BY <1>0 DEF RateTypes
      <3>6. bucket[b].granted \in Nat /\ asking[q].seen \in Nat  BY <3>5 DEF Record, Ask
      <3>7. Allowance(bucket[b]) \in Int /\ Others \in Int
        BY <3>5, AllowanceInt
      <3>8. ((bucket[b].granted + 1) + asking[q].seen) + (Cardinality(Takers(b)) - 1) <= Allowance(bucket[b]) + Others
        <4>1. Allowance(bucket[b]) + Others \in Int  BY <3>7
        <4>2. QED  BY <2>1, <3>3, <3>6, <4>1, TakerPays
      <3>9. asking'[q].seen = asking[q].seen  BY <2>1
      <3>10. QED  BY <3>3, <3>4, <3>8, <3>9, Zenon
    <2>4. QED  BY <2>2, <2>3
  <1>13. QED  BY <1>4, <1>5, <1>8, <1>9, <1>10, <1>11, <1>12 DEF RateInv

\* The refill adds to what it loaded; what was taken since comes back, a token for each taker.
LEMMA RefillStoreStep == ASSUME RateInv, NEW r \in Requests, RefillStore(r) PROVE RateInv'
  <1>1. PICK c \in 1..Len(bucket) : asking[r].b = c
    BY DEF RateInv, AsksMakeSense, RefillStore
  <1>2. RateTypes /\ asking[r] \in Ask /\ bucket[c] \in Record  BY DEF RateInv, RateTypes
  <1> DEFINE old == bucket[c]
             t == asking[r].now
             x == Capped(asking[r].seen + Earned(r))
             f == [old EXCEPT !.tokens = x, !.last = t, !.refills = @ + 1]
             k == [asking[r] EXCEPT !.at = "take"]
  <1>3. /\ asking[r].at = "store" /\ UNCHANGED <<mapped, clock>>
        /\ bucket' = [bucket EXCEPT ![c].tokens = x, ![c].last = t, ![c].refills = @ + 1]
        /\ asking' = [asking EXCEPT ![r].at = "take"]
    BY <1>1 DEF RefillStore
  <1>4. bucket' = [bucket EXCEPT ![c] = f]  BY <1>2, <1>3 DEF RateTypes
  <1>5. asking' = [asking EXCEPT ![r] = k] /\ k \in Ask /\ k.at = "take"
    BY <1>2, <1>3 DEF RateTypes, Ask
  <1>6. /\ t > old.last /\ t <= clock /\ old.born <= old.last
        /\ (old.granted + asking[r].seen) + Cardinality(Takers(c)) <= Allowance(old) + Others
    BY <1>1, <1>3 DEF RateInv, AsksMakeSense, TimesInOrder, LoadedAccounted, Refills
  <1>7. /\ old.tokens \in 0..Burst /\ old.last \in Nat /\ old.born \in Nat /\ old.granted \in Nat
        /\ old.refills \in Nat /\ t \in Nat /\ asking[r].seen \in Nat
    BY <1>2 DEF Record, Ask
  <1>8. /\ Rate \in Nat /\ old.born \in Nat /\ old.last \in Nat /\ t \in Nat
        /\ old.born <= old.last /\ old.last <= t
    BY <1>6, <1>7, RateAssumption
  <1>9. /\ Rate * (t - old.born) = Rate * (t - old.last) + Rate * (old.last - old.born)
        /\ Rate * (t - old.last) \in Nat /\ Rate * (old.last - old.born) \in Nat
    <2> HIDE DEF t, old, x, f, k
    <2>1. \A a, b, d \in Nat : a <= b /\ b <= d => /\ Rate * (d - a) = Rate * (d - b) + Rate * (b - a)
                                                  /\ Rate * (d - b) \in Nat /\ Rate * (b - a) \in Nat
      BY RateAssumption, EarnedAdds
    <2>2. QED  BY <1>8, <2>1, ZenonT(30)
  <1>10. Earned(r) = Rate * (t - old.last)  BY <1>1, <1>6 DEF Earned
  <1>11. x \in 0..Burst /\ x <= asking[r].seen + Earned(r)
    <2>1. asking[r].seen + Earned(r) \in Nat  BY <1>7, <1>9, <1>10
    <2>2. QED  BY <2>1, CappedCount
  <1>12. /\ f \in Record /\ f.tokens = x /\ f.last = t /\ f.born = old.born /\ f.granted = old.granted
         /\ f.refills = old.refills + 1
    <2> HIDE DEF x, t, old, f, k
    <2>1. old \in Record  BY <1>2 DEF old
    <2>2. f = [old EXCEPT !.tokens = x, !.last = t, !.refills = @ + 1]  BY DEF f
    <2>3. t \in Nat /\ x \in 0..Burst  BY <1>7, <1>11
    <2>4. PICK n \in Nat : n = old.refills + 1  BY <1>7
    <2>5. PICK g \in Record : g = [old EXCEPT !.tokens = x]  BY <2>1, <2>3, RecordFields
    <2>6. PICK h \in Record : h = [g EXCEPT !.last = t]  BY <2>3, RecordFields
    <2>7. f = [[[old EXCEPT !.tokens = x] EXCEPT !.last = t] EXCEPT !.refills = n]
      BY <2>1, <2>2, <2>4 DEF Record
    <2>8. f = [h EXCEPT !.refills = n]  BY <2>5, <2>6, <2>7
    <2>9. f \in Record  BY <2>8, RecordFields
    <2>10. f.tokens = x /\ f.last = t  BY <2>1, <2>2 DEF Record
    <2>11. f.born = old.born /\ f.granted = old.granted  BY <2>1, <2>2 DEF Record
    <2>12. f.refills = old.refills + 1  BY <2>1, <2>2 DEF Record
    <2>13. QED  BY <2>9, <2>10, <2>11, <2>12
  <1> HIDE DEF x, f, k
  <1>13. f.granted + f.tokens <= Allowance(f)
    <2>1. Others \in Int /\ Allowance(old) \in Int  BY <1>2, AllowanceInt
    <2> HIDE DEF old, t
    <2>2. PICK m \in Int : m = Others * old.refills  BY <1>7, <2>1
    <2>3. PICK y \in Nat : y = Rate * (t - old.last)  BY <1>9
    <2>4. PICK z \in Nat : z = Rate * (old.last - old.born)  BY <1>9
    <2>5. Earned(r) = y /\ Rate * (t - old.born) = y + z  BY <1>9, <1>10, <2>3, <2>4
    <2>6. Others * (old.refills + 1) = m + Others  BY <1>7, <2>1, <2>2, OneRefillMore
    <2>7. Allowance(f) = (Burst + (y + z)) + (m + Others)  BY <1>12, <2>5, <2>6, Zenon DEF Allowance
    <2>8. Allowance(old) = (Burst + z) + m  BY <2>2, <2>4, Zenon DEF Allowance
    <2>9. Allowance(f) = (Allowance(old) + Others) + y  BY <2>1, <2>7, <2>8, RateAssumption
    <2>10. Takers(c) \in SUBSET Requests  BY DEF Takers
    <2>11. Cardinality(Takers(c)) \in Nat /\ Allowance(old) + Others \in Int  BY <2>1, <2>10, FewerRequests
    <2>12. old.granted + asking[r].seen <= Allowance(old) + Others  BY <1>6, <1>7, <2>11, TakerPays
    <2>13. x \in Nat /\ x <= asking[r].seen + y  BY <1>11, <2>5, RateAssumption
    <2>14. old.granted + x <= (Allowance(old) + Others) + y  BY <1>7, <2>11, <2>12, <2>13
    <2>15. QED  BY <1>12, <2>9, <2>14
  <1>14. f.born <= f.last /\ f.last <= clock  BY <1>6, <1>8, <1>12
  <1>15. /\ asking[r].at \in {"store", "exchange"} /\ asking[r].at # "exchange" /\ k.at \in {"take", "idle"}
         /\ k = [asking[r] EXCEPT !.at = "take"] /\ k \in Ask /\ f \in Record
    BY <1>3, <1>5, <1>12 DEF k
  <1>16. QED  BY <1>1, <1>3, <1>4, <1>5, <1>13, <1>14, <1>15, OneBucketMoves, ZenonT(30)

\* The compare_exchange moves a token from the bucket to what it has granted.
LEMMA CompareExchangeStep == ASSUME RateInv, NEW r \in Requests, CompareExchange(r) PROVE RateInv'
  <1>1. PICK c \in 1..Len(bucket) : asking[r].b = c
    BY DEF RateInv, AsksMakeSense, CompareExchange
  <1>2. RateTypes /\ asking[r] \in Ask /\ bucket[c] \in Record  BY DEF RateInv, RateTypes
  <1>3. asking[r].at = "exchange" /\ UNCHANGED <<mapped, clock>>  BY DEF CompareExchange
  <1>4. asking[r].now <= clock /\ asking[r].seen <= Burst /\ asking[r].seen > 0
    BY <1>3 DEF RateInv, AsksMakeSense
  <1>5. CASE bucket[c].tokens # asking[r].seen
    <2> DEFINE k == [asking[r] EXCEPT !.at = "take"]
    <2>1. asking' = [asking EXCEPT ![r] = k] /\ UNCHANGED <<mapped, bucket, clock>>
      BY <1>1, <1>2, <1>5 DEF CompareExchange, RateTypes
    <2>2. k \in Ask /\ k.at = "take" /\ k.b = c /\ k.now = asking[r].now /\ k.seen = asking[r].seen
      BY <1>1, <1>2 DEF Ask
    <2>3. r \in Takers(c)  BY <1>1, <1>3 DEF Takers
    <2> HIDE DEF k
    <2>4. QED  BY <1>3, <1>4, <2>1, <2>2, <2>3, OnlyAsking
  <1>6. CASE bucket[c].tokens = asking[r].seen
    <2> DEFINE old == bucket[c]
               f == [old EXCEPT !.tokens = @ - 1, !.granted = @ + 1]
    <2>1. /\ bucket' = [bucket EXCEPT ![c].tokens = @ - 1, ![c].granted = @ + 1]
          /\ asking' = [asking EXCEPT ![r] = NotAsking]
      BY <1>1, <1>6 DEF CompareExchange
    <2>2. bucket' = [bucket EXCEPT ![c] = f]  BY <1>2, <2>1 DEF RateTypes
    <2>3. old.tokens \in Nat /\ old.granted \in Nat /\ old.tokens > 0
      BY <1>2, <1>4, <1>6, RateAssumption DEF Record
    <2>4. /\ f \in Record /\ f.tokens = old.tokens - 1 /\ f.last = old.last /\ f.born = old.born
          /\ f.granted = old.granted + 1 /\ f.refills = old.refills
      BY <1>2, <2>3, RecordGranted
    <2> HIDE DEF f
    <2>5. f.born <= f.last /\ f.last <= clock  BY <2>4 DEF RateInv, TimesInOrder
    <2>6. Allowance(f) = Allowance(old)  BY <2>4 DEF Allowance
    <2>7. old.granted + old.tokens <= Allowance(old)  BY DEF RateInv, WithinAllowance
    <2>8. f.granted + f.tokens <= Allowance(f)
      <3>1. f.granted + f.tokens = old.granted + old.tokens  BY <2>3, <2>4
      <3>2. QED  BY <2>6, <2>7, <3>1
    <2>9. NotAsking \in Ask /\ NotAsking.at = "idle"  BY DEF NotAsking, Ask
    <2>10. QED  BY <1>1, <1>3, <2>1, <2>2, <2>4, <2>5, <2>6, <2>8, <2>9, OneBucketMoves
  <1>7. QED  BY <1>5, <1>6

\* Every step of the rate limiter keeps its invariant.
LEMMA RateStep == RateInv /\ [RateNext]_rl_vars => RateInv'
  <1> SUFFICES ASSUME RateInv, [RateNext]_rl_vars PROVE RateInv'
    OBVIOUS
  <1>1. ASSUME UNCHANGED <<mapped, bucket, asking>>, clock' \in 0..MaxClock, clock <= clock' PROVE RateInv'
    <2>0. RateTypes /\ clock \in Nat /\ clock' \in Nat  BY <1>1, RateAssumption DEF RateInv, RateTypes
    <2>1. RateTypes'  BY <1>1, <2>0 DEF RateTypes
    <2>2. FewBuckets' /\ OneRefill' /\ WithinAllowance' /\ LoadedAccounted'
      BY <1>1 DEF RateInv, FewBuckets, Creating, OneRefill, Refills, WithinAllowance, LoadedAccounted, Takers,
         Allowance
    <2>3. AsksMakeSense'
      <3>1. \A r \in Requests : asking[r].now \in Nat  BY <2>0 DEF RateTypes, Ask
      <3>2. QED  BY <1>1, <2>0, <3>1 DEF RateInv, AsksMakeSense
    <2>4. TimesInOrder'
      <3>1. \A b \in 1..Len(bucket) : bucket[b].last \in Nat
        <4>1. \A b \in 1..Len(bucket) : bucket[b] \in Record  BY <2>0 DEF RateTypes
        <4>2. QED  BY <4>1 DEF Record
      <3>2. QED  BY <1>1, <2>0, <3>1 DEF RateInv, TimesInOrder
    <2>5. QED  BY <2>1, <2>2, <2>3, <2>4 DEF RateInv
  <1>2. CASE ClockTick
    <2>1. clock \in 0..MaxClock  BY DEF RateInv, RateTypes
    <2>2. clock' \in 0..MaxClock /\ clock <= clock'  BY <1>2, <2>1, RateAssumption DEF ClockTick
    <2>3. QED  BY <1>1, <1>2, <2>2 DEF ClockTick
  <1>3. CASE UNCHANGED rl_vars
    <2>1. clock' \in 0..MaxClock /\ clock <= clock'  BY <1>3, RateAssumption DEF rl_vars, RateInv, RateTypes
    <2>2. QED  BY <1>1, <1>3, <2>1 DEF rl_vars
  <1>4. QED
    BY <1>2, <1>3, GetBucketStep, CreateBucketStep, RefillStep, RefillStoreStep, TakeStep, CompareExchangeStep
       DEF RateNext, RequestNext

\* However many requests meet in get_bucket, in the refill and in the consuming loop, each
\* bucket stays within its allowance and a refill under way is accounted for.
THEOREM RateInvariant == RateSpec => []RateInv
  <1>1. QED  BY RateStart, RateStep, PTL DEF RateSpec

\* Token counts stay between zero and the burst, and there are no more buckets than requests.
THEOREM RateTyped == RateSpec => []RateTypeOK
  <1>1. RateInv => RateTypeOK
    <2> SUFFICES ASSUME RateInv PROVE RateTypeOK
      OBVIOUS
    <2>1. RateTypes  BY DEF RateInv
    <2>2. Creating \in SUBSET Requests  BY DEF Creating
    <2>3. Cardinality(Creating) \in Nat  BY <2>2, FewerRequests
    <2>4. mapped \in 0..Cardinality(Requests)
      BY <2>1, <2>3, FewerRequests DEF RateInv, RateTypes, FewBuckets
    <2>5. \A b \in Buckets : bucket[b].tokens \in 0..Burst
      <3>1. \A b \in Buckets : bucket[b] \in Record  BY <2>1 DEF RateTypes, Buckets
      <3>2. QED  BY <3>1 DEF Record
    <2>6. \A r \in Requests : asking[r].at \in {"idle", "create", "refill", "store", "take", "exchange"}
      BY <2>1 DEF RateTypes, Ask
    <2>7. QED  BY <2>1, <2>4, <2>5, <2>6 DEF RateTypes, RateTypeOK
  <1>2. QED  BY <1>1, RateInvariant, PTL

\* The limit that the limiter keeps in spite of its races: try_acquire grants no more than the
\* burst, the tokens earned and one token of each other request per refill; get_bucket creates
\* no more buckets than there are requests.
THEOREM LimitedGrants == RateSpec => []GrantsBounded
  <1>1. RateInv => GrantsBounded
    <2> SUFFICES ASSUME RateInv PROVE GrantsBounded
      OBVIOUS
    <2>1. RateTypes /\ clock \in Nat /\ Len(bucket) \in Nat /\ Buckets = 1..Len(bucket)
      BY RateAssumption DEF RateInv, RateTypes, Buckets
    <2>2. Cardinality(Buckets) <= Cardinality(Requests)
      <3>1. Cardinality(1..Len(bucket)) = Len(bucket)
        <4>1. Cardinality(1..Len(bucket)) = IF 1 > Len(bucket) THEN 0 ELSE Len(bucket) - 1 + 1
          BY <2>1, FS_Interval
        <4>2. QED  BY <2>1, <4>1
      <3>2. Creating \in SUBSET Requests  BY DEF Creating
      <3>3. Cardinality(Creating) \in Nat  BY <3>2, FewerRequests
      <3>4. QED  BY <2>1, <3>1, <3>3, FewerRequests DEF RateInv, FewBuckets
    <2>3. ASSUME NEW b \in Buckets
          PROVE  bucket[b].granted + bucket[b].tokens
                     <= Burst + Rate * (clock - bucket[b].born)
                          + (Cardinality(Requests) - 1) * bucket[b].refills
      <3> DEFINE k == bucket[b]
      <3>1. /\ k \in Record /\ k.born <= k.last /\ k.last <= clock
            /\ k.granted + k.tokens <= (Burst + Rate * (k.last - k.born)) + Others * k.refills
        BY <2>1 DEF RateInv, RateTypes, TimesInOrder, WithinAllowance, Allowance
      <3>2. /\ k.granted \in Nat /\ k.tokens \in Nat /\ k.born \in Nat /\ k.last \in Nat /\ k.refills \in Nat
        BY <3>1, RateAssumption DEF Record
      <3> HIDE DEF k
      <3>3. /\ Rate * (k.last - k.born) <= Rate * (clock - k.born)
            /\ Rate * (k.last - k.born) \in Nat /\ Rate * (clock - k.born) \in Nat
        BY <2>1, <3>1, <3>2, RateAssumption, EarnedAdds
      <3>4. Others * k.refills \in Int  BY <3>2, FewerRequests DEF Others
      <3>5. k.granted + k.tokens <= (Burst + Rate * (clock - k.born)) + Others * k.refills
        BY <3>1, <3>2, <3>3, <3>4, RateAssumption
      <3>6. QED  BY <3>5 DEF k, Others
    <2>4. QED  BY <2>2, <2>3 DEF GrantsBounded
  <1>2. QED  BY <1>1, RateInvariant, PTL
---------------------------------------------------------------------------
(* The scheduler *)

\* One thread at most has a schedule in its hands, and the schedule has been submitted.
Holds(t, s) == adding[t].at # "free" /\ adding[t].id = s
OneThread ==
    /\ \A t \in Threads : adding[t].at = "free" => adding[t] = Free
    /\ \A t \in Threads : adding[t].at # "free" => adding[t].id \in submitted
    /\ \A s \in Schedules : \A t, u \in Threads : Holds(t, s) /\ Holds(u, s) => t = u

\* A schedule that is not in the queue yet has left no trace.
FreshPlan(s) ==
    \/ s \notin submitted
    \/ \E t \in Threads : adding[t].at \in {"esme", "queue"} /\ adding[t].id = s
FreshIsQuiet ==
    \A s \in Schedules : FreshPlan(s) =>
        queue[s].status = "Absent" /\ sent[s] = 0 /\ last[s] = 0 /\ s \notin batch /\ sending # s

\* n deliveries of s are no more than it asked for.
Asks(s, n) ==
    /\ Plan[s].interval = 0 => n <= 1
    /\ (Plan[s].interval > 0 /\ Plan[s].max > 0) => n <= Plan[s].max

\* The count in the queue is the number of deliveries, one behind while the runner has sent
\* and not marked; a delivery that the runner is committed to is one that is asked for; after
\* a cancellation only such a delivery is left.
Delivery(s) ==
    /\ Asks(s, sent[s])
    /\ queue[s].status = "Pending" =>
          sent[s] = queue[s].count /\ s \notin batch /\ sending # s /\ Asks(s, sent[s] + 1)
    /\ queue[s].status = "Delivering" =>
          sent[s] = IF sending = s THEN queue[s].count + 1 ELSE queue[s].count
    /\ s \in batch => sending # s /\ Asks(s, sent[s] + 1) /\ sent[s] < MaxSent
    /\ last[s] > 0 => /\ queue[s].status = "Absent" /\ sent[s] <= last[s]
                      /\ s \in batch => sent[s] + 1 <= last[s]
Deliveries == \A s \in Schedules : Delivery(s)

\* The threads that have passed a test and not acted on it count with what is there.
Passing == {t \in Threads : adding[t].at \in {"esme", "queue"}}
Pushing(e) == {t \in Threads : adding[t].at \in {"queue", "index"} /\ Plan[adding[t].id].esme = e}
TotalBounded ==
    /\ IsFiniteSet(Queued)
    /\ Cardinality(Queued) + Cardinality(Passing) <= MaxTotal + (Cardinality(Threads) - 1)
EsmeBounded ==
    /\ IsFiniteSet(by_esme)
    /\ \A s \in Schedules : Cardinality(Of(Plan[s].esme)) + Cardinality(Pushing(Plan[s].esme))
                               <= MaxPerEsme + (Cardinality(Threads) - 1)

SchedulerInv ==
    SchedulerTypeOK /\ OneThread /\ FreshIsQuiet /\ Deliveries /\ QuotaCoversQueue /\ TotalBounded /\ EsmeBounded
---------------------------------------------------------------------------
\* How many threads.
LEMMA ThreadCount ==
    /\ Cardinality(Threads) \in Nat /\ Cardinality(Threads) >= 1
    /\ \A S \in SUBSET Threads : /\ IsFiniteSet(S) /\ Cardinality(S) \in Nat
                                 /\ Cardinality(S) <= Cardinality(Threads)
  <1>0. IsFiniteSet(Threads) /\ Runner \in Threads  BY SchedulerAssumption
  <1>1. Cardinality(Threads) \in Nat  BY <1>0, FS_CardinalityType
  <1>2. ASSUME NEW S \in SUBSET Threads
        PROVE  IsFiniteSet(S) /\ Cardinality(S) \in Nat /\ Cardinality(S) <= Cardinality(Threads)
    <2>1. IsFiniteSet(S) /\ Cardinality(S) <= Cardinality(Threads)  BY <1>0, FS_Subset
    <2>2. QED  BY <2>1, FS_CardinalityType
  <1>3. Cardinality({Runner}) = 1 /\ {Runner} \in SUBSET Threads  BY <1>0, FS_Singleton
  <1>4. Cardinality(Threads) >= 1  BY <1>1, <1>2, <1>3
  <1>5. QED  BY <1>1, <1>2, <1>4

\* Fewer than before.
LEMMA Shrinks ==
    ASSUME NEW S, NEW T, IsFiniteSet(T), S \subseteq T
    PROVE  IsFiniteSet(S) /\ Cardinality(S) \in Nat /\ Cardinality(T) \in Nat /\ Cardinality(S) <= Cardinality(T)
  <1>1. IsFiniteSet(S) /\ Cardinality(S) <= Cardinality(T)  BY FS_Subset
  <1>2. QED  BY <1>1, FS_CardinalityType

\* Fewer schedules and fewer threads past the test keep the total limit.
LEMMA TotalKept ==
    ASSUME TotalBounded, Queued' \subseteq Queued, Passing' \subseteq Passing PROVE TotalBounded'
  <1>1. IsFiniteSet(Queued)  BY DEF TotalBounded
  <1>2. Passing \in SUBSET Threads  BY DEF Passing
  <1>3. IsFiniteSet(Passing)  BY <1>2, ThreadCount
  <1>4. /\ IsFiniteSet(Queued') /\ Cardinality(Queued') <= Cardinality(Queued)
        /\ Cardinality(Queued') \in Nat /\ Cardinality(Queued) \in Nat
    BY <1>1, Shrinks
  <1>5. /\ Cardinality(Passing') <= Cardinality(Passing)
        /\ Cardinality(Passing') \in Nat /\ Cardinality(Passing) \in Nat
    BY <1>3, Shrinks
  <1>6. MaxTotal \in Nat  BY SchedulerAssumption
  <1>7. QED  BY <1>4, <1>5, <1>6, ThreadCount DEF TotalBounded

\* So with the limit of each ESME.
LEMMA EsmeKept ==
    ASSUME EsmeBounded, by_esme' \subseteq by_esme, \A e : Pushing(e)' \subseteq Pushing(e) PROVE EsmeBounded'
  <1>1. IsFiniteSet(by_esme)  BY DEF EsmeBounded
  <1>2. IsFiniteSet(by_esme')  BY <1>1, Shrinks
  <1>3. ASSUME NEW s \in Schedules
        PROVE  Cardinality(Of(Plan[s].esme)') + Cardinality(Pushing(Plan[s].esme)')
                   <= MaxPerEsme + (Cardinality(Threads) - 1)
    <2> DEFINE e == Plan[s].esme
    <2>1. Pushing(e) \in SUBSET Threads  BY DEF Pushing
    <2>2. IsFiniteSet(Pushing(e))  BY <2>1, ThreadCount
    <2>3. Of(e) \subseteq by_esme /\ Of(e)' \subseteq Of(e)  BY DEF Of
    <2>4. IsFiniteSet(Of(e))  BY <1>1, <2>3, Shrinks
    <2>5. /\ Cardinality(Of(e)') <= Cardinality(Of(e))
          /\ Cardinality(Of(e)') \in Nat /\ Cardinality(Of(e)) \in Nat
      BY <2>3, <2>4, Shrinks
    <2>6. /\ Cardinality(Pushing(e)') <= Cardinality(Pushing(e))
          /\ Cardinality(Pushing(e)') \in Nat /\ Cardinality(Pushing(e)) \in Nat
      BY <2>2, Shrinks
    <2>7. Cardinality(Of(e)) + Cardinality(Pushing(e)) <= MaxPerEsme + (Cardinality(Threads) - 1)
      BY DEF EsmeBounded
    <2>8. MaxPerEsme \in Nat  BY SchedulerAssumption
    <2>9. QED  BY <2>5, <2>6, <2>7, <2>8, ThreadCount
  <1>4. QED  BY <1>2, <1>3 DEF EsmeBounded

\* A schedule that a step leaves alone.
LEMMA DeliveryKept ==
    ASSUME NEW s \in Schedules, Delivery(s), queue'[s] = queue[s], sent'[s] = sent[s], last'[s] = last[s],
           s \in batch' <=> s \in batch, sending' = s <=> sending = s
    PROVE  Delivery(s)'
  BY DEF Delivery, Asks

\* At first nothing is scheduled.
LEMMA SchedulerStart == new => SchedulerInv
  <1> SUFFICES ASSUME new PROVE SchedulerInv
    OBVIOUS
  <1>1. \A t \in Threads : adding[t] = Free /\ adding[t].at = "free"  BY DEF new, Free
  <1>2. \A s \in Schedules : queue[s].status = "Absent" /\ sent[s] = 0 /\ last[s] = 0  BY DEF new, Absent
  <1>3. SchedulerTypeOK
    <2>1. MaxSent \in Nat /\ MaxNow \in Nat  BY SchedulerAssumption
    <2>2. queue \in [Schedules -> [status : {"Absent", "Pending", "Delivering"}, at : Nat, count : 0..MaxSent]]
      BY <2>1 DEF new, Absent
    <2>3. QED  BY <2>1, <2>2 DEF new, SchedulerTypeOK, Free
  <1>4. OneThread  BY <1>1 DEF OneThread, Holds
  <1>5. "none" \notin Schedules  BY SchedulerAssumption
  <1>6. FreshIsQuiet  BY <1>2, <1>5 DEF FreshIsQuiet, new
  <1>7. Deliveries
    <2> SUFFICES ASSUME NEW s \in Schedules PROVE Delivery(s)
      BY DEF Deliveries
    <2>1. s \notin batch  BY DEF new
    <2>2. Plan[s].max \in Nat  BY SchedulerAssumption
    <2>3. QED  BY <1>2, <2>1, <2>2 DEF Delivery, Asks
  <1>8. Queued = {}  BY <1>2 DEF Queued
  <1>9. QuotaCoversQueue  BY <1>8 DEF QuotaCoversQueue
  <1>10. MaxTotal \in Nat /\ MaxPerEsme \in Nat  BY SchedulerAssumption
  <1>11. TotalBounded
    <2>1. Passing = {}  BY <1>1 DEF Passing
    <2>2. QED  BY <1>8, <1>10, <2>1, FS_EmptySet, ThreadCount DEF TotalBounded
  <1>12. EsmeBounded
    <2>1. \A e : Pushing(e) = {} /\ Of(e) = {}  BY <1>1 DEF Pushing, Of, new
    <2>2. by_esme = {}  BY DEF new
    <2>3. QED  BY <1>10, <2>1, <2>2, FS_EmptySet, ThreadCount DEF EsmeBounded
  <1>13. QED  BY <1>3, <1>4, <1>6, <1>7, <1>9, <1>11, <1>12 DEF SchedulerInv

\* A thread goes on to another step of schedule, or is done with it.
LEMMA ThreadMoves ==
    ASSUME SchedulerTypeOK, NEW t \in Threads, NEW at \in {"esme", "queue", "index"}, NEW s \in Schedules,
           Step(t, at, s)
    PROVE  /\ adding'[t].at = at /\ adding'[t].id = s /\ adding'[t] = [at |-> at, id |-> s]
           /\ \A u \in Threads : u # t => adding'[u] = adding[u]
           /\ adding' \in [Threads -> [at : {"free", "esme", "queue", "index"}, id : Schedules \cup {"none"}]]
  BY DEF Step, SchedulerTypeOK

\* A thread has finished its call.
LEMMA ThreadDone ==
    ASSUME SchedulerTypeOK, NEW t \in Threads, adding' = [adding EXCEPT ![t] = Free]
    PROVE  /\ adding'[t].at = "free" /\ adding'[t] = Free
           /\ \A u \in Threads : u # t => adding'[u] = adding[u]
           /\ adding' \in [Threads -> [at : {"free", "esme", "queue", "index"}, id : Schedules \cup {"none"}]]
  BY DEF Free, SchedulerTypeOK

\* What the steps of schedule before the queue leave alone.
LEMMA QueueRests ==
    ASSUME SchedulerInv, UNCHANGED <<queue, batch, sending, sent, last>>,
           \A s \in Schedules : FreshPlan(s)' => FreshPlan(s)
    PROVE  FreshIsQuiet' /\ Deliveries'
  <1>1. FreshIsQuiet'  BY DEF SchedulerInv, FreshIsQuiet
  <1>2. Deliveries'
    <2> SUFFICES ASSUME NEW s \in Schedules PROVE Delivery(s)'
      BY DEF Deliveries
    <2>1. Delivery(s)  BY DEF SchedulerInv, Deliveries
    <2>2. QED  BY <2>1, DeliveryKept
  <1>3. QED  BY <1>1, <1>2

\* The test of the total: whoever passes it finds room for one more, so that all the threads
\* together overshoot by the others at most.
LEMMA CheckTotalStep ==
    ASSUME SchedulerInv, NEW t \in Threads, NEW s \in Schedules, CheckTotal(t, s) PROVE SchedulerInv'
  <1>0. /\ SchedulerTypeOK /\ s \notin submitted /\ adding[t].at = "free" /\ submitted' = submitted \cup {s}
        /\ UNCHANGED <<queue, by_esme, now, batch, sending, output_open, sent, last>>
    BY DEF SchedulerInv, CheckTotal, Free
  <1>1. \A u \in Threads : ~Holds(u, s)  BY <1>0 DEF SchedulerInv, OneThread, Holds
  <1>2. CASE UNCHANGED adding
    <2>1. SchedulerTypeOK'  BY <1>0, <1>2 DEF SchedulerTypeOK
    <2>2. OneThread'  BY <1>0, <1>2 DEF SchedulerInv, OneThread, Holds
    <2>3. FreshIsQuiet' /\ Deliveries'
      <3>1. \A x \in Schedules : FreshPlan(x)' => FreshPlan(x)  BY <1>0, <1>2 DEF FreshPlan
      <3>2. QED  BY <1>0, <3>1, QueueRests
    <2>4. QuotaCoversQueue'  BY <1>0, <1>2 DEF SchedulerInv, QuotaCoversQueue, Queued
    <2>5. TotalBounded'
      <3>1. Queued' = Queued /\ Passing' = Passing  BY <1>0, <1>2 DEF Queued, Passing
      <3>2. QED  BY <3>1, TotalKept DEF SchedulerInv
    <2>6. EsmeBounded'
      <3>1. \A e : Pushing(e)' = Pushing(e)  BY <1>2 DEF Pushing
      <3>2. QED  BY <1>0, <3>1, EsmeKept DEF SchedulerInv
    <2>7. QED  BY <2>1, <2>2, <2>3, <2>4, <2>5, <2>6 DEF SchedulerInv
  <1>3. CASE ~(Cardinality(Queued) >= MaxTotal) /\ Step(t, "esme", s)
    <2>1. /\ adding'[t].at = "esme" /\ adding'[t].id = s
          /\ \A u \in Threads : u # t => adding'[u] = adding[u]
          /\ adding' \in [Threads -> [at : {"free", "esme", "queue", "index"}, id : Schedules \cup {"none"}]]
      BY <1>0, <1>3, ThreadMoves
    <2>2. SchedulerTypeOK'  BY <1>0, <2>1 DEF SchedulerTypeOK
    <2>3. OneThread'
      <3>1. \A u \in Threads : adding'[u].at = "free" => adding'[u] = Free
        BY <2>1 DEF SchedulerInv, OneThread
      <3>2. \A u \in Threads : adding'[u].at # "free" => adding'[u].id \in submitted'
        BY <1>0, <2>1 DEF SchedulerInv, OneThread
      <3>3. ASSUME NEW x \in Schedules, NEW u \in Threads, NEW v \in Threads, Holds(u, x)', Holds(v, x)'
            PROVE  u = v
        <4>1. \A w \in Threads : w # t /\ Holds(w, x)' => Holds(w, x)  BY <2>1 DEF Holds
        <4>2. Holds(t, x)' => x = s  BY <2>1 DEF Holds
        <4>3. QED  BY <1>1, <3>3, <4>1, <4>2 DEF SchedulerInv, OneThread
      <3>4. QED  BY <3>1, <3>2, <3>3 DEF OneThread
    <2>4. FreshIsQuiet' /\ Deliveries'
      <3>1. \A x \in Schedules : FreshPlan(x)' => FreshPlan(x)  BY <1>0, <2>1 DEF FreshPlan
      <3>2. QED  BY <1>0, <3>1, QueueRests
    <2>5. QuotaCoversQueue'
      <3> SUFFICES ASSUME NEW x \in Queued
                   PROVE  x \in by_esme \/ \E u \in Threads : adding'[u] = [at |-> "index", id |-> x]
        BY <1>0 DEF QuotaCoversQueue, Queued
      <3>1. x \in by_esme \/ \E u \in Threads : adding[u] = [at |-> "index", id |-> x]
        BY DEF SchedulerInv, QuotaCoversQueue
      <3>2. QED  BY <1>0, <2>1, <3>1
    <2>6. TotalBounded'
      <3>1. Queued' = Queued  BY <1>0 DEF Queued
      <3>2. Passing' \in SUBSET Threads  BY DEF Passing
      <3>3. Cardinality(Passing') \in Nat /\ Cardinality(Passing') <= Cardinality(Threads)
        BY <3>2, ThreadCount
      <3>4. IsFiniteSet(Queued) /\ Cardinality(Queued) \in Nat
        BY FS_CardinalityType DEF SchedulerInv, TotalBounded
      <3>5. MaxTotal \in Nat  BY SchedulerAssumption
      <3>6. Cardinality(Queued) <= MaxTotal - 1  BY <1>3, <3>4, <3>5
      <3>7. Cardinality(Queued) + Cardinality(Passing') <= MaxTotal + (Cardinality(Threads) - 1)
        BY <3>3, <3>4, <3>5, <3>6, ThreadCount
      <3>8. QED  BY <3>1, <3>4, <3>7 DEF TotalBounded
    <2>7. EsmeBounded'
      <3>1. \A e : Pushing(e)' \subseteq Pushing(e)  BY <2>1 DEF Pushing
      <3>2. QED  BY <1>0, <3>1, EsmeKept DEF SchedulerInv
    <2>8. QED  BY <2>2, <2>3, <2>4, <2>5, <2>6, <2>7 DEF SchedulerInv
  <1>4. QED  BY <1>2, <1>3 DEF CheckTotal

\* A thread that gives a schedule up or goes on with the one it has.
LEMMA OneThreadGoesOn ==
    ASSUME SchedulerInv, NEW t \in Threads, UNCHANGED submitted, adding[t].at # "free",
           \A u \in Threads : u # t => adding'[u] = adding[u],
           adding'[t] = Free \/ (adding'[t].at # "free" /\ adding'[t].id = adding[t].id)
    PROVE  OneThread'
  <1>1. \A u \in Threads : adding'[u].at = "free" => adding'[u] = Free  BY DEF SchedulerInv, OneThread
  <1>2. \A u \in Threads : adding'[u].at # "free" => adding'[u].id \in submitted'
    BY DEF SchedulerInv, OneThread, Free
  <1>3. ASSUME NEW x \in Schedules, NEW u \in Threads, NEW v \in Threads, Holds(u, x)', Holds(v, x)'
        PROVE  u = v
    <2>1. \A w \in Threads : Holds(w, x)' => Holds(w, x)  BY DEF Holds, Free
    <2>2. QED  BY <1>3, <2>1 DEF SchedulerInv, OneThread
  <1>4. QED  BY <1>1, <1>2, <1>3 DEF OneThread

\* The quota of the ESME, in the same way.
LEMMA CheckEsmeStep == ASSUME SchedulerInv, NEW t \in Threads, CheckEsme(t) PROVE SchedulerInv'
  <1>1. PICK s \in Schedules : s = adding[t].id
    BY DEF CheckEsme, SchedulerInv, OneThread, SchedulerTypeOK
  <1>2. /\ SchedulerTypeOK /\ adding[t].at = "esme"
        /\ UNCHANGED <<queue, by_esme, now, batch, sending, output_open, submitted, sent, last>>
    BY DEF SchedulerInv, CheckEsme
  <1>3. \/ adding' = [adding EXCEPT ![t] = Free]
        \/ ~(Cardinality(Of(Plan[s].esme)) >= MaxPerEsme) /\ Step(t, "queue", s)
    BY <1>1 DEF CheckEsme
  <1>4. /\ \A u \in Threads : u # t => adding'[u] = adding[u]
        /\ adding' \in [Threads -> [at : {"free", "esme", "queue", "index"}, id : Schedules \cup {"none"}]]
        /\ \/ adding'[t] = Free
           \/ /\ adding'[t].at = "queue" /\ adding'[t].id = s
              /\ ~(Cardinality(Of(Plan[s].esme)) >= MaxPerEsme)
    BY <1>2, <1>3, ThreadMoves, ThreadDone
  <1>5. SchedulerTypeOK'  BY <1>2, <1>4 DEF SchedulerTypeOK
  <1>6. OneThread'  BY <1>1, <1>2, <1>4, OneThreadGoesOn
  <1>7. FreshIsQuiet' /\ Deliveries'
    <2>1. \A x \in Schedules : FreshPlan(x)' => FreshPlan(x)  BY <1>1, <1>2, <1>4 DEF FreshPlan, Free
    <2>2. QED  BY <1>2, <2>1, QueueRests
  <1>8. QuotaCoversQueue'
    <2> SUFFICES ASSUME NEW x \in Queued
                 PROVE  x \in by_esme \/ \E u \in Threads : adding'[u] = [at |-> "index", id |-> x]
      BY <1>2 DEF QuotaCoversQueue, Queued
    <2>1. x \in by_esme \/ \E u \in Threads : adding[u] = [at |-> "index", id |-> x]
      BY DEF SchedulerInv, QuotaCoversQueue
    <2>2. QED  BY <1>2, <1>4, <2>1
  <1>9. TotalBounded'
    <2>1. Queued' = Queued /\ Passing' \subseteq Passing  BY <1>2, <1>4 DEF Queued, Passing
    <2>2. QED  BY <2>1, TotalKept DEF SchedulerInv
  <1>10. EsmeBounded'
    <2>1. CASE adding'[t] = Free
      <3>1. \A e : Pushing(e)' \subseteq Pushing(e)  BY <1>4, <2>1 DEF Pushing, Free
      <3>2. QED  BY <1>2, <3>1, EsmeKept DEF SchedulerInv
    <2>2. CASE adding'[t].at = "queue" /\ adding'[t].id = s /\ ~(Cardinality(Of(Plan[s].esme)) >= MaxPerEsme)
      <3> SUFFICES ASSUME NEW x \in Schedules
                   PROVE  Cardinality(Of(Plan[x].esme)) + Cardinality(Pushing(Plan[x].esme)')
                              <= MaxPerEsme + (Cardinality(Threads) - 1)
        BY <1>2 DEF SchedulerInv, EsmeBounded, Of
      <3> DEFINE e == Plan[x].esme
      <3>1. IsFiniteSet(by_esme) /\ Of(e) \subseteq by_esme  BY DEF SchedulerInv, EsmeBounded, Of
      <3>2. Cardinality(Of(e)) \in Nat  BY <3>1, Shrinks
      <3>3. MaxPerEsme \in Nat  BY SchedulerAssumption
      <3>4. CASE e = Plan[s].esme
        <4>1. Cardinality(Of(e)) <= MaxPerEsme - 1  BY <2>2, <3>2, <3>3, <3>4
        <4>2. Pushing(e)' \in SUBSET Threads  BY DEF Pushing
        <4>3. Cardinality(Pushing(e)') \in Nat /\ Cardinality(Pushing(e)') <= Cardinality(Threads)
          BY <4>2, ThreadCount
        <4>4. QED  BY <3>2, <3>3, <4>1, <4>3, ThreadCount
      <3>5. CASE e # Plan[s].esme
        <4>1. Pushing(e)' = Pushing(e)  BY <1>2, <1>4, <2>2, <3>5 DEF Pushing
        <4>2. QED  BY <4>1 DEF SchedulerInv, EsmeBounded
      <3>6. QED  BY <3>4, <3>5
    <2>3. QED  BY <1>4, <2>1, <2>2
  <1>11. QED  BY <1>5, <1>6, <1>7, <1>8, <1>9, <1>10 DEF SchedulerInv

\* The insertion into the queue: one queued more, one thread fewer on its way there.
LEMMA PushQueueStep == ASSUME SchedulerInv, NEW t \in Threads, PushQueue(t) PROVE SchedulerInv'
  <1>1. PICK s \in Schedules : s = adding[t].id
    BY DEF PushQueue, SchedulerInv, OneThread, SchedulerTypeOK
  <1> DEFINE p == [status |-> "Pending", at |-> Plan[s].at, count |-> 0]
  <1>2. /\ SchedulerTypeOK /\ adding[t].at = "queue" /\ queue' = [queue EXCEPT ![s] = p]
        /\ Step(t, "index", s) /\ UNCHANGED <<by_esme, now, batch, sending, output_open, submitted, sent, last>>
    BY <1>1 DEF SchedulerInv, PushQueue
  <1>3. /\ adding'[t].at = "index" /\ adding'[t].id = s /\ adding'[t] = [at |-> "index", id |-> s]
        /\ \A u \in Threads : u # t => adding'[u] = adding[u]
        /\ adding' \in [Threads -> [at : {"free", "esme", "queue", "index"}, id : Schedules \cup {"none"}]]
    BY <1>2, ThreadMoves
  <1>4. /\ queue'[s].status = "Pending" /\ queue'[s].count = 0
        /\ \A x \in Schedules : x # s => queue'[x] = queue[x]
        /\ queue' \in [Schedules -> [status : {"Absent", "Pending", "Delivering"}, at : Nat, count : 0..MaxSent]]
    <2>1. Plan[s].at \in Nat /\ MaxSent \in Nat  BY SchedulerAssumption
    <2>2. p \in [status : {"Absent", "Pending", "Delivering"}, at : Nat, count : 0..MaxSent]  BY <2>1
    <2>3. p.status = "Pending" /\ p.count = 0  OBVIOUS
    <2> HIDE DEF p
    <2>4. QED  BY <1>2, <2>2, <2>3 DEF SchedulerTypeOK
  <1> HIDE DEF p
  <1>5. FreshPlan(s) /\ Holds(t, s) /\ s \in submitted
    BY <1>1, <1>2 DEF FreshPlan, Holds, SchedulerInv, OneThread
  <1>6. /\ queue[s].status = "Absent" /\ sent[s] = 0 /\ last[s] = 0 /\ s \notin batch /\ sending # s
    BY <1>5 DEF SchedulerInv, FreshIsQuiet
  <1>7. SchedulerTypeOK'  BY <1>2, <1>3, <1>4 DEF SchedulerTypeOK
  <1>8. OneThread'  BY <1>1, <1>2, <1>3, OneThreadGoesOn
  <1>9. FreshIsQuiet'
    <2> SUFFICES ASSUME NEW x \in Schedules, FreshPlan(x)'
                 PROVE  /\ queue'[x].status = "Absent" /\ sent[x] = 0 /\ last[x] = 0
                        /\ x \notin batch /\ sending # x
      BY <1>2 DEF FreshIsQuiet
    <2>1. FreshPlan(x)  BY <1>1, <1>2, <1>3 DEF FreshPlan
    <2>2. x # s
      <3> SUFFICES ASSUME x = s PROVE FALSE
        OBVIOUS
      <3>1. PICK u \in Threads : adding'[u].at \in {"esme", "queue"} /\ adding'[u].id = s
        BY <1>2, <1>5 DEF FreshPlan
      <3>2. u # t /\ Holds(u, s)  BY <1>3, <3>1 DEF Holds
      <3>3. QED  BY <1>5, <3>2 DEF SchedulerInv, OneThread
    <2>3. QED  BY <1>4, <2>1, <2>2 DEF SchedulerInv, FreshIsQuiet
  <1>10. Deliveries'
    <2> SUFFICES ASSUME NEW x \in Schedules PROVE Delivery(x)'
      BY DEF Deliveries
    <2>1. Delivery(x)  BY DEF SchedulerInv, Deliveries
    <2>2. CASE x # s  BY <1>2, <1>4, <2>1, <2>2, DeliveryKept
    <2>3. CASE x = s
      <3>1. Plan[s].max \in Nat  BY SchedulerAssumption
      <3>2. QED  BY <1>2, <1>4, <1>6, <2>3, <3>1 DEF Delivery, Asks
    <2>4. QED  BY <2>2, <2>3
  <1>11. QuotaCoversQueue'
    <2> SUFFICES ASSUME NEW x \in Schedules, queue'[x].status # "Absent"
                 PROVE  x \in by_esme \/ \E u \in Threads : adding'[u] = [at |-> "index", id |-> x]
      BY <1>2 DEF QuotaCoversQueue, Queued
    <2>1. CASE x = s  BY <1>3, <2>1
    <2>2. CASE x # s
      <3>1. x \in by_esme \/ \E u \in Threads : adding[u] = [at |-> "index", id |-> x]
        BY <1>4, <2>2 DEF SchedulerInv, QuotaCoversQueue, Queued
      <3>2. QED  BY <1>2, <1>3, <3>1
    <2>3. QED  BY <2>1, <2>2
  <1>12. TotalBounded'
    <2>1. Queued' = Queued \cup {s} /\ s \notin Queued  BY <1>4, <1>6 DEF Queued
    <2>2. Passing' = Passing \ {t} /\ t \in Passing /\ Passing \in SUBSET Threads
      BY <1>2, <1>3 DEF Passing
    <2>3. IsFiniteSet(Queued) /\ IsFiniteSet(Passing)  BY <2>2, ThreadCount DEF SchedulerInv, TotalBounded
    <2>4. IsFiniteSet(Queued') /\ Cardinality(Queued') = Cardinality(Queued) + 1
      BY <2>1, <2>3, FS_AddElement
    <2>5. Cardinality(Passing') = Cardinality(Passing) - 1  BY <2>2, <2>3, FS_RemoveElement
    <2>6. Cardinality(Queued) \in Nat /\ Cardinality(Passing) \in Nat  BY <2>3, FS_CardinalityType
    <2>7. Cardinality(Queued) + Cardinality(Passing) <= MaxTotal + (Cardinality(Threads) - 1)
      BY DEF SchedulerInv, TotalBounded
    <2>8. Cardinality(Queued') + Cardinality(Passing') = Cardinality(Queued) + Cardinality(Passing)
      BY <2>4, <2>5, <2>6
    <2>9. QED  BY <2>4, <2>7, <2>8 DEF TotalBounded
  <1>13. EsmeBounded'
    <2>1. \A e : Pushing(e)' \subseteq Pushing(e)  BY <1>1, <1>2, <1>3 DEF Pushing
    <2>2. QED  BY <1>2, <2>1, EsmeKept DEF SchedulerInv
  <1>14. QED  BY <1>7, <1>8, <1>9, <1>10, <1>11, <1>12, <1>13 DEF SchedulerInv

\* The insertion into the index: one listed more at most, one thread fewer.
LEMMA PushIndexStep == ASSUME SchedulerInv, NEW t \in Threads, PushIndex(t) PROVE SchedulerInv'
  <1>1. PICK s \in Schedules : s = adding[t].id
    BY DEF PushIndex, SchedulerInv, OneThread, SchedulerTypeOK
  <1>2. /\ SchedulerTypeOK /\ adding[t].at = "index" /\ by_esme' = by_esme \cup {s}
        /\ adding' = [adding EXCEPT ![t] = Free]
        /\ UNCHANGED <<queue, now, batch, sending, output_open, submitted, sent, last>>
    BY <1>1 DEF SchedulerInv, PushIndex
  <1>3. /\ adding'[t].at = "free" /\ adding'[t] = Free
        /\ \A u \in Threads : u # t => adding'[u] = adding[u]
        /\ adding' \in [Threads -> [at : {"free", "esme", "queue", "index"}, id : Schedules \cup {"none"}]]
    BY <1>2, ThreadDone
  <1>4. SchedulerTypeOK'  BY <1>2, <1>3 DEF SchedulerTypeOK
  <1>5. OneThread'  BY <1>1, <1>2, <1>3, OneThreadGoesOn
  <1>6. FreshIsQuiet' /\ Deliveries'
    <2>1. \A x \in Schedules : FreshPlan(x)' => FreshPlan(x)  BY <1>2, <1>3 DEF FreshPlan
    <2>2. QED  BY <1>2, <2>1, QueueRests
  <1>7. QuotaCoversQueue'
    <2> SUFFICES ASSUME NEW x \in Queued
                 PROVE  x \in by_esme' \/ \E u \in Threads : adding'[u] = [at |-> "index", id |-> x]
      BY <1>2 DEF QuotaCoversQueue, Queued
    <2>1. x \in by_esme \/ \E u \in Threads : adding[u] = [at |-> "index", id |-> x]
      BY DEF SchedulerInv, QuotaCoversQueue
    <2>2. ASSUME NEW u \in Threads, adding[u] = [at |-> "index", id |-> x], u = t PROVE x = s
      BY <1>1, <2>2
    <2>3. QED  BY <1>2, <1>3, <2>1, <2>2
  <1>8. TotalBounded'
    <2>1. Queued' = Queued /\ Passing' \subseteq Passing  BY <1>2, <1>3 DEF Queued, Passing
    <2>2. QED  BY <2>1, TotalKept DEF SchedulerInv
  <1>9. EsmeBounded'
    <2>1. IsFiniteSet(by_esme)  BY DEF SchedulerInv, EsmeBounded
    <2>2. IsFiniteSet(by_esme')  BY <1>2, <2>1, FS_AddElement
    <2>3. ASSUME NEW x \in Schedules
          PROVE  Cardinality(Of(Plan[x].esme)') + Cardinality(Pushing(Plan[x].esme)')
                     <= MaxPerEsme + (Cardinality(Threads) - 1)
      <3> DEFINE e == Plan[x].esme
      <3>1. Cardinality(Of(e)) + Cardinality(Pushing(e)) <= MaxPerEsme + (Cardinality(Threads) - 1)
        BY DEF SchedulerInv, EsmeBounded
      <3>2. Of(e) \subseteq by_esme /\ Pushing(e) \in SUBSET Threads  BY DEF Of, Pushing
      <3>3. IsFiniteSet(Of(e)) /\ IsFiniteSet(Pushing(e))  BY <2>1, <3>2, Shrinks, ThreadCount
      <3>4. Cardinality(Of(e)) \in Nat /\ Cardinality(Pushing(e)) \in Nat  BY <3>3, FS_CardinalityType
      <3>5. CASE e # Plan[s].esme
        <4>1. Of(e)' = Of(e)  BY <1>2, <3>5 DEF Of
        <4>2. Pushing(e)' = Pushing(e)  BY <1>1, <1>3, <3>5 DEF Pushing
        <4>3. QED  BY <3>1, <4>1, <4>2
      <3>6. CASE e = Plan[s].esme
        <4>1. Of(e)' = Of(e) \cup {s}  BY <1>2, <3>6 DEF Of
        <4>2. t \in Pushing(e) /\ Pushing(e)' = Pushing(e) \ {t}  BY <1>1, <1>2, <1>3, <3>6 DEF Pushing
        <4>3. Cardinality(Pushing(e)') = Cardinality(Pushing(e)) - 1  BY <3>3, <4>2, FS_RemoveElement
        <4>4. Cardinality(Of(e)') = Cardinality(Of(e)) \/ Cardinality(Of(e)') = Cardinality(Of(e)) + 1
          <5>1. CASE s \in Of(e)
            <6>1. Of(e)' = Of(e)  BY <4>1, <5>1
            <6>2. QED  BY <6>1
          <5>2. CASE s \notin Of(e)
            <6>1. Cardinality(Of(e) \cup {s}) = Cardinality(Of(e)) + 1  BY <3>3, <5>2, FS_AddElement
            <6>2. QED  BY <4>1, <6>1
          <5>3. QED  BY <5>1, <5>2
        <4>5. MaxPerEsme \in Nat  BY SchedulerAssumption
        <4>6. QED  BY <3>1, <3>4, <4>3, <4>4, <4>5, ThreadCount
      <3>7. QED  BY <3>5, <3>6
    <2>4. QED  BY <2>2, <2>3 DEF EsmeBounded
  <1>10. QED  BY <1>4, <1>5, <1>6, <1>7, <1>8, <1>9 DEF SchedulerInv

\* Steps outside schedule: the queue and the index only lose.
LEMMA OutsideSchedule ==
    ASSUME SchedulerInv, UNCHANGED <<adding, submitted>>, Queued' \subseteq Queued, by_esme' \subseteq by_esme
    PROVE  OneThread' /\ TotalBounded' /\ EsmeBounded' /\ \A s \in Schedules : FreshPlan(s)' <=> FreshPlan(s)
  <1>1. OneThread'  BY DEF SchedulerInv, OneThread, Holds
  <1>2. TotalBounded'
    <2>1. Passing' = Passing  BY DEF Passing
    <2>2. QED  BY <2>1, TotalKept DEF SchedulerInv
  <1>3. EsmeBounded'
    <2>1. \A e : Pushing(e)' = Pushing(e)  BY DEF Pushing
    <2>2. QED  BY <2>1, EsmeKept DEF SchedulerInv
  <1>4. \A s \in Schedules : FreshPlan(s)' <=> FreshPlan(s)  BY DEF FreshPlan
  <1>5. QED  BY <1>1, <1>2, <1>3, <1>4

\* cancel: a copy that the runner has is the one delivery that may still come.
LEMMA CancelStep == ASSUME SchedulerInv, NEW s \in Schedules, Cancel(s) PROVE SchedulerInv'
  <1>1. /\ SchedulerTypeOK /\ queue[s].status # "Absent" /\ queue' = [queue EXCEPT ![s] = Absent]
        /\ last' = [last EXCEPT ![s] = sent[s] + 1]
        /\ UNCHANGED <<by_esme, now, adding, batch, sending, output_open, submitted, sent>>
    BY DEF SchedulerInv, Cancel, Queued
  <1>2. sent[s] \in 0..MaxSent /\ MaxSent \in Nat  BY <1>1, SchedulerAssumption DEF SchedulerTypeOK
  <1>3. /\ queue'[s].status = "Absent" /\ last'[s] = sent[s] + 1
        /\ \A x \in Schedules : x # s => queue'[x] = queue[x] /\ last'[x] = last[x]
    BY <1>1 DEF SchedulerTypeOK, Absent
  <1>4. SchedulerTypeOK'
    <2>1. Absent \in [status : {"Absent", "Pending", "Delivering"}, at : Nat, count : 0..MaxSent]
      BY <1>2 DEF Absent
    <2>2. queue' \in [Schedules -> [status : {"Absent", "Pending", "Delivering"}, at : Nat, count : 0..MaxSent]]
      BY <1>1, <2>1 DEF SchedulerTypeOK
    <2>3. sent[s] + 1 \in 0..(MaxSent + 1)  BY <1>2
    <2>4. last' \in [Schedules -> 0..(MaxSent + 1)]  BY <1>1, <2>3 DEF SchedulerTypeOK
    <2>5. QED  BY <1>1, <2>2, <2>4 DEF SchedulerTypeOK
  <1>5. Queued' \subseteq Queued  BY <1>3 DEF Queued
  <1>6. OneThread' /\ TotalBounded' /\ EsmeBounded' /\ \A x \in Schedules : FreshPlan(x)' <=> FreshPlan(x)
    BY <1>1, <1>5, OutsideSchedule
  <1>7. FreshIsQuiet'  BY <1>1, <1>3, <1>6 DEF SchedulerInv, FreshIsQuiet
  <1>8. Deliveries'
    <2> SUFFICES ASSUME NEW x \in Schedules PROVE Delivery(x)'
      BY DEF Deliveries
    <2>1. Delivery(x)  BY DEF SchedulerInv, Deliveries
    <2>2. CASE x # s  BY <1>1, <1>3, <2>1, <2>2, DeliveryKept
    <2>3. CASE x = s  BY <1>1, <1>2, <1>3, <2>1, <2>3 DEF Delivery, Asks
    <2>4. QED  BY <2>2, <2>3
  <1>9. QuotaCoversQueue'  BY <1>1, <1>5 DEF SchedulerInv, QuotaCoversQueue
  <1>10. QED  BY <1>4, <1>6, <1>7, <1>8, <1>9 DEF SchedulerInv

\* get_due: what is taken was Pending, and what it counts is what has been delivered.
LEMMA GetDueStep == ASSUME SchedulerInv, GetDue PROVE SchedulerInv'
  <1>1. PICK D \in SUBSET Due :
           /\ batch' = D
           /\ queue' = [s \in Schedules |->
                           IF s \in D THEN [queue[s] EXCEPT !.status = "Delivering"] ELSE queue[s]]
    BY DEF GetDue
  <1>2. /\ SchedulerTypeOK /\ batch = {} /\ sending = "none" /\ "none" \notin Schedules
        /\ UNCHANGED <<by_esme, now, adding, sending, output_open, submitted, sent, last>>
    BY SchedulerAssumption DEF SchedulerInv, GetDue, RunnerFree
  <1>3. \A s \in D : s \in Schedules /\ queue[s].status = "Pending" /\ sent[s] < MaxSent
    BY DEF Due, Queued
  <1>4. ASSUME NEW s \in Schedules
        PROVE  /\ queue'[s] \in [status : {"Absent", "Pending", "Delivering"}, at : Nat, count : 0..MaxSent]
               /\ s \notin D => queue'[s] = queue[s]
               /\ s \in D => queue'[s].status = "Delivering" /\ queue'[s].count = queue[s].count
    BY <1>1, <1>2 DEF SchedulerTypeOK
  <1>5. SchedulerTypeOK'
    <2>1. queue' \in [Schedules -> [status : {"Absent", "Pending", "Delivering"}, at : Nat, count : 0..MaxSent]]
      BY <1>1, <1>4
    <2>2. batch' \subseteq Schedules  BY <1>1, <1>3
    <2>3. QED  BY <1>2, <2>1, <2>2 DEF SchedulerTypeOK
  <1>6. Queued' = Queued  BY <1>3, <1>4 DEF Queued
  <1>7. OneThread' /\ TotalBounded' /\ EsmeBounded' /\ \A x \in Schedules : FreshPlan(x)' <=> FreshPlan(x)
    BY <1>2, <1>6, OutsideSchedule
  <1>8. FreshIsQuiet'
    <2> SUFFICES ASSUME NEW x \in Schedules, FreshPlan(x)
                 PROVE  /\ queue'[x].status = "Absent" /\ sent[x] = 0 /\ last[x] = 0
                        /\ x \notin D /\ sending # x
      BY <1>1, <1>2, <1>7 DEF FreshIsQuiet
    <2>1. queue[x].status = "Absent" /\ sent[x] = 0 /\ last[x] = 0  BY DEF SchedulerInv, FreshIsQuiet
    <2>2. x \notin D  BY <1>3, <2>1
    <2>3. QED  BY <1>2, <1>4, <2>1, <2>2
  <1>9. Deliveries'
    <2> SUFFICES ASSUME NEW x \in Schedules PROVE Delivery(x)'
      BY DEF Deliveries
    <2>1. Delivery(x)  BY DEF SchedulerInv, Deliveries
    <2>2. CASE x \notin D  BY <1>1, <1>2, <1>4, <2>1, <2>2, DeliveryKept
    <2>3. CASE x \in D
      <3>1. /\ queue[x].status = "Pending" /\ sent[x] < MaxSent /\ sent[x] = queue[x].count /\ ~(last[x] > 0)
            /\ Asks(x, sent[x]) /\ Asks(x, sent[x] + 1)
        BY <1>3, <2>1, <2>3 DEF Delivery
      <3>2. queue'[x].status = "Delivering" /\ queue'[x].count = queue[x].count /\ sending # x
        BY <1>2, <1>4, <2>3
      <3>3. QED  BY <1>2, <3>1, <3>2 DEF Delivery, Asks
    <2>4. QED  BY <2>2, <2>3
  <1>10. QuotaCoversQueue'  BY <1>2, <1>6 DEF SchedulerInv, QuotaCoversQueue
  <1>11. QED  BY <1>5, <1>7, <1>8, <1>9, <1>10 DEF SchedulerInv

\* The runner sends what it took, or drops it.
LEMMA SendStep == ASSUME SchedulerInv, NEW s \in Schedules, Send(s) PROVE SchedulerInv'
  <1>1. /\ SchedulerTypeOK /\ s \in batch /\ sending = "none" /\ "none" \notin Schedules
        /\ batch' = batch \ {s} /\ UNCHANGED <<queue, by_esme, now, adding, output_open, submitted, last>>
    BY SchedulerAssumption DEF SchedulerInv, Send
  <1>2. \/ sending' = s /\ sent' = [sent EXCEPT ![s] = @ + 1]
        \/ UNCHANGED <<sending, sent>>
    BY DEF Send
  <1>3. sent[s] \in Nat /\ sent[s] < MaxSent /\ MaxSent \in Nat
    BY <1>1, SchedulerAssumption DEF SchedulerInv, SchedulerTypeOK, Deliveries, Delivery
  <1>4. /\ sent' \in [Schedules -> 0..MaxSent]
        /\ \A x \in Schedules : x # s => sent'[x] = sent[x]
        /\ \/ sending' = s /\ sent'[s] = sent[s] + 1
           \/ sending' = sending /\ sent' = sent
    <2>1. sent \in [Schedules -> 0..MaxSent] /\ sent[s] + 1 \in 0..MaxSent  BY <1>1, <1>3 DEF SchedulerTypeOK
    <2>2. QED  BY <1>2, <2>1
  <1>5. SchedulerTypeOK'  BY <1>1, <1>4 DEF SchedulerTypeOK
  <1>6. Queued' = Queued  BY <1>1 DEF Queued
  <1>7. OneThread' /\ TotalBounded' /\ EsmeBounded' /\ \A x \in Schedules : FreshPlan(x)' <=> FreshPlan(x)
    BY <1>1, <1>6, OutsideSchedule
  <1>8. FreshIsQuiet'
    <2> SUFFICES ASSUME NEW x \in Schedules, FreshPlan(x)
                 PROVE  /\ queue[x].status = "Absent" /\ sent'[x] = 0 /\ last[x] = 0
                        /\ x \notin batch' /\ sending' # x
      BY <1>1, <1>7 DEF FreshIsQuiet
    <2>1. /\ queue[x].status = "Absent" /\ sent[x] = 0 /\ last[x] = 0 /\ x \notin batch /\ sending # x
      BY DEF SchedulerInv, FreshIsQuiet
    <2>2. x # s  BY <1>1, <2>1
    <2>3. QED  BY <1>1, <1>4, <2>1, <2>2
  <1>9. Deliveries'
    <2> SUFFICES ASSUME NEW x \in Schedules PROVE Delivery(x)'
      BY DEF Deliveries
    <2>1. Delivery(x)  BY DEF SchedulerInv, Deliveries
    <2>2. CASE x # s
      <3>1. sending' = x <=> sending = x  BY <1>1, <1>4, <2>2
      <3>2. QED  BY <1>1, <1>4, <2>1, <2>2, <3>1, DeliveryKept
    <2>3. CASE x = s
      <3>1. /\ queue[s].status # "Pending" /\ sending # s /\ Asks(s, sent[s]) /\ Asks(s, sent[s] + 1)
            /\ queue[s].status = "Delivering" => sent[s] = queue[s].count
            /\ last[s] > 0 => queue[s].status = "Absent" /\ sent[s] + 1 <= last[s] /\ sent[s] <= last[s]
        BY <1>1, <2>1, <2>3 DEF Delivery
      <3>2. s \notin batch' /\ queue' = queue /\ last' = last  BY <1>1
      <3>3. CASE sending' = s /\ sent'[s] = sent[s] + 1
        <4>1. Asks(s, sent'[s])  BY <3>1, <3>3
        <4>2. QED  BY <2>3, <3>1, <3>2, <3>3, <4>1 DEF Delivery, Asks
      <3>4. CASE sending' = sending /\ sent' = sent
        BY <2>3, <3>1, <3>2, <3>4 DEF Delivery, Asks
      <3>5. QED  BY <1>4, <3>3, <3>4
    <2>4. QED  BY <2>2, <2>3
  <1>10. QuotaCoversQueue'  BY <1>1, <1>6 DEF SchedulerInv, QuotaCoversQueue
  <1>11. QED  BY <1>5, <1>7, <1>8, <1>9, <1>10 DEF SchedulerInv

\* mark_delivered: the next delivery is asked for, or the schedule leaves queue and index.
LEMMA MarkDeliveredStep == ASSUME SchedulerInv, MarkDelivered PROVE SchedulerInv'
  <1>1. PICK s \in Schedules : s = sending
    BY DEF SchedulerInv, SchedulerTypeOK, MarkDelivered
  <1>2. /\ SchedulerTypeOK /\ sending = s /\ sending' = "none" /\ "none" \notin Schedules
        /\ UNCHANGED <<now, adding, batch, output_open, submitted, sent, last>>
    BY <1>1, SchedulerAssumption DEF SchedulerInv, MarkDelivered
  <1>3. /\ queue[s] \in [status : {"Absent", "Pending", "Delivering"}, at : Nat, count : 0..MaxSent]
        /\ sent[s] \in 0..MaxSent /\ MaxSent \in Nat
    BY <1>2, SchedulerAssumption DEF SchedulerTypeOK
  <1>4. /\ s \notin batch /\ queue[s].status # "Pending" /\ Asks(s, sent[s])
        /\ queue[s].status = "Delivering" => sent[s] = queue[s].count + 1
        /\ last[s] > 0 => queue[s].status = "Absent" /\ sent[s] <= last[s]
    BY <1>2 DEF SchedulerInv, Deliveries, Delivery
  <1>5. ~FreshPlan(s)  BY <1>2 DEF SchedulerInv, FreshIsQuiet
  <1> DEFINE n == queue[s].count + 1
             p == [status |-> "Pending", at |-> next_from(s, queue[s].at), count |-> n]
  <1>6. /\ queue' \in [Schedules -> [status : {"Absent", "Pending", "Delivering"}, at : Nat, count : 0..MaxSent]]
        /\ \A x \in Schedules : x # s => queue'[x] = queue[x]
        /\ by_esme' \subseteq by_esme /\ \A x \in by_esme : x # s => x \in by_esme'
        /\ \/ queue' = queue /\ by_esme' = by_esme /\ queue[s].status # "Delivering"
           \/ /\ queue'[s].status = "Pending" /\ queue'[s].count = n /\ queue[s].status = "Delivering"
              /\ can_repeat(s, n) /\ by_esme' = by_esme
           \/ queue'[s].status = "Absent" /\ queue[s].status = "Delivering"
    <2>1. CASE queue[s].status # "Delivering"
      <3>1. queue' = queue /\ by_esme' = by_esme  BY <1>1, <2>1 DEF MarkDelivered
      <3>2. QED  BY <1>2, <2>1, <3>1 DEF SchedulerTypeOK
    <2>2. CASE queue[s].status = "Delivering" /\ can_repeat(s, n)
      <3>1. queue' = [queue EXCEPT ![s] = p] /\ by_esme' = by_esme  BY <1>1, <2>2 DEF MarkDelivered
      <3>2. {Plan[s].interval, Plan[s].end} \subseteq Nat  BY SchedulerAssumption
      <3>3. next_from(s, queue[s].at) \in Nat  BY <1>3, <3>2 DEF next_from
      <3>4. n \in 0..MaxSent  BY <1>3, <1>4, <2>2
      <3>5. /\ p \in [status : {"Absent", "Pending", "Delivering"}, at : Nat, count : 0..MaxSent]
            /\ p.status = "Pending" /\ p.count = n
        BY <3>3, <3>4
      <3> HIDE DEF p, n
      <3>6. QED  BY <1>2, <2>2, <3>1, <3>5 DEF SchedulerTypeOK
    <2>3. CASE queue[s].status = "Delivering" /\ ~can_repeat(s, n)
      <3>1. queue' = [queue EXCEPT ![s] = Absent] /\ by_esme' = by_esme \ {s}
        BY <1>1, <2>3 DEF MarkDelivered
      <3>2. /\ Absent \in [status : {"Absent", "Pending", "Delivering"}, at : Nat, count : 0..MaxSent]
            /\ Absent.status = "Absent"
        BY <1>3 DEF Absent
      <3>3. QED  BY <1>2, <2>3, <3>1, <3>2 DEF SchedulerTypeOK
    <2>4. QED  BY <2>1, <2>2, <2>3
  <1>7. SchedulerTypeOK'  BY <1>2, <1>6 DEF SchedulerTypeOK
  <1>8. Queued' \subseteq Queued  BY <1>6 DEF Queued
  <1>9. OneThread' /\ TotalBounded' /\ EsmeBounded' /\ \A x \in Schedules : FreshPlan(x)' <=> FreshPlan(x)
    BY <1>2, <1>6, <1>8, OutsideSchedule
  <1>10. FreshIsQuiet'
    <2> SUFFICES ASSUME NEW x \in Schedules, FreshPlan(x)
                 PROVE  /\ queue'[x].status = "Absent" /\ sent[x] = 0 /\ last[x] = 0
                        /\ x \notin batch /\ sending' # x
      BY <1>2, <1>9 DEF FreshIsQuiet
    <2>1. x # s  BY <1>5
    <2>2. QED  BY <1>2, <1>6, <2>1 DEF SchedulerInv, FreshIsQuiet
  <1>11. Deliveries'
    <2> SUFFICES ASSUME NEW x \in Schedules PROVE Delivery(x)'
      BY DEF Deliveries
    <2>1. Delivery(x)  BY DEF SchedulerInv, Deliveries
    <2>2. CASE x # s  BY <1>2, <1>6, <2>1, <2>2, DeliveryKept
    <2>3. CASE x = s
      <3>1. s \notin batch' /\ sending' # s /\ sent' = sent /\ last' = last  BY <1>2, <1>4
      <3>2. CASE queue' = queue /\ queue[s].status # "Delivering"
        BY <1>4, <2>3, <3>1, <3>2 DEF Delivery, Asks
      <3>3. CASE queue'[s].status = "Pending" /\ queue'[s].count = n /\ queue[s].status = "Delivering" /\ can_repeat(s, n)
        <4>1. sent[s] = n  BY <1>4, <3>3
        <4>2. {Plan[s].interval, Plan[s].max} \subseteq Nat  BY SchedulerAssumption
        <4>3. Asks(s, sent[s] + 1)  BY <1>3, <3>3, <4>1, <4>2 DEF Asks, can_repeat
        <4>4. ~(last[s] > 0)  BY <1>4, <3>3
        <4> HIDE DEF n
        <4>5. QED  BY <1>4, <2>3, <3>1, <3>3, <4>1, <4>3, <4>4 DEF Delivery, Asks
      <3>4. CASE queue'[s].status = "Absent" /\ queue[s].status = "Delivering"
        BY <1>4, <2>3, <3>1, <3>4 DEF Delivery, Asks
      <3>5. QED  BY <1>6, <3>2, <3>3, <3>4
    <2>4. QED  BY <2>2, <2>3
  <1>12. QuotaCoversQueue'
    <2> SUFFICES ASSUME NEW x \in Schedules, queue'[x].status # "Absent"
                 PROVE  x \in by_esme' \/ \E u \in Threads : adding[u] = [at |-> "index", id |-> x]
      BY <1>2 DEF QuotaCoversQueue, Queued
    <2>1. x \in Queued /\ (x = s => by_esme' = by_esme)  BY <1>6 DEF Queued
    <2>2. x \in by_esme \/ \E u \in Threads : adding[u] = [at |-> "index", id |-> x]
      BY <2>1 DEF SchedulerInv, QuotaCoversQueue
    <2>3. QED  BY <1>6, <2>1, <2>2
  <1>13. QED  BY <1>7, <1>9, <1>10, <1>11, <1>12 DEF SchedulerInv

\* Every step of the scheduler keeps its invariant.
LEMMA SchedulerStep == SchedulerInv /\ [SchedulerNext]_sc_vars => SchedulerInv'
  <1> SUFFICES ASSUME SchedulerInv, [SchedulerNext]_sc_vars PROVE SchedulerInv'
    OBVIOUS
  <1>1. ASSUME UNCHANGED <<queue, by_esme, adding, batch, sending, submitted, sent, last>>,
               now' \in 0..MaxNow, output_open' \in BOOLEAN
        PROVE  SchedulerInv'
    <2>1. SchedulerTypeOK'  BY <1>1 DEF SchedulerInv, SchedulerTypeOK
    <2>2. Queued' = Queued  BY <1>1 DEF Queued
    <2>3. OneThread' /\ TotalBounded' /\ EsmeBounded' /\ \A x \in Schedules : FreshPlan(x)' <=> FreshPlan(x)
      BY <1>1, <2>2, OutsideSchedule
    <2>4. FreshIsQuiet' /\ Deliveries'  BY <1>1, <2>3, QueueRests
    <2>5. QuotaCoversQueue'  BY <1>1, <2>2 DEF SchedulerInv, QuotaCoversQueue
    <2>6. QED  BY <2>1, <2>3, <2>4, <2>5 DEF SchedulerInv
  <1>2. now \in 0..MaxNow /\ output_open \in BOOLEAN  BY DEF SchedulerInv, SchedulerTypeOK
  <1>3. CASE CloseOutput  BY <1>1, <1>2, <1>3 DEF CloseOutput
  <1>4. CASE Tick
    <2>1. MaxNow \in Nat  BY SchedulerAssumption
    <2>2. now' \in 0..MaxNow  BY <1>2, <1>4, <2>1 DEF Tick
    <2>3. QED  BY <1>1, <1>2, <1>4, <2>2 DEF Tick
  <1>5. CASE UNCHANGED sc_vars  BY <1>1, <1>2, <1>5 DEF sc_vars
  <1>6. QED
    BY <1>3, <1>4, <1>5, CheckTotalStep, CheckEsmeStep, PushQueueStep, PushIndexStep, CancelStep, GetDueStep,
       SendStep, MarkDeliveredStep DEF SchedulerNext, RunnerNext, ThreadNext

\* However the callers of schedule, cancel and the runner interleave, the count in the queue
\* follows the deliveries and the threads between a test and its insertion are counted.
THEOREM SchedulerInvariant == SchedulerSpec => []SchedulerInv
  <1>1. QED  BY SchedulerStart, SchedulerStep, PTL DEF SchedulerSpec

\* The queue, the index and the runner keep their types.
THEOREM SchedulerTyped == SchedulerSpec => []SchedulerTypeOK
  <1>1. SchedulerInv => SchedulerTypeOK  BY DEF SchedulerInv
  <1>2. QED  BY <1>1, SchedulerInvariant, PTL

\* Every queued schedule counts towards its quota, the limits are overshot by the concurrent
\* callers at most, no schedule is delivered more often than it asked for, and at most one
\* delivery comes after a cancellation.
THEOREM SchedulerKeeps == SchedulerSpec => []SchedulesKept
  <1>1. SchedulerInv => SchedulesKept
    <2> SUFFICES ASSUME SchedulerInv PROVE SchedulesKept
      OBVIOUS
    <2>1. MaxTotal \in Nat /\ MaxPerEsme \in Nat  BY SchedulerAssumption
    <2>2. Cardinality(Queued) <= MaxTotal + Cardinality(Threads) - 1
      <3>1. Passing \in SUBSET Threads /\ IsFiniteSet(Queued)  BY DEF Passing, SchedulerInv, TotalBounded
      <3>2. Cardinality(Passing) \in Nat /\ Cardinality(Queued) \in Nat
        BY <3>1, ThreadCount, FS_CardinalityType
      <3>3. Cardinality(Queued) + Cardinality(Passing) <= MaxTotal + (Cardinality(Threads) - 1)
        BY DEF SchedulerInv, TotalBounded
      <3>4. QED  BY <2>1, <3>2, <3>3, ThreadCount
    <2>3. ASSUME NEW s \in Schedules
          PROVE  Cardinality(Of(Plan[s].esme)) <= MaxPerEsme + Cardinality(Threads) - 1
      <3> DEFINE e == Plan[s].esme
      <3>1. Pushing(e) \in SUBSET Threads /\ Of(e) \subseteq by_esme /\ IsFiniteSet(by_esme)
        BY DEF Pushing, Of, SchedulerInv, EsmeBounded
      <3>2. Cardinality(Pushing(e)) \in Nat /\ Cardinality(Of(e)) \in Nat  BY <3>1, ThreadCount, Shrinks
      <3>3. Cardinality(Of(e)) + Cardinality(Pushing(e)) <= MaxPerEsme + (Cardinality(Threads) - 1)
        BY DEF SchedulerInv, EsmeBounded
      <3>4. QED  BY <2>1, <3>2, <3>3, ThreadCount
    <2>4. OvershootBounded  BY <2>2, <2>3 DEF OvershootBounded
    <2>5. DeliveredAsAsked /\ OneMoreAfterCancel
      BY DEF SchedulerInv, Deliveries, Delivery, Asks, DeliveredAsAsked, OneMoreAfterCancel
    <2>6. QED  BY <2>4, <2>5 DEF SchedulerInv, SchedulesKept
  <1>2. QED  BY <1>1, SchedulerInvariant, PTL
===========================================================================
