---------------------------- MODULE ChoiceProofs ----------------------------
(***************************************************************************)
(* Proofs about the parts that choose: the endpoint a balancer picks, the  *)
(* cluster a route leads to, the rule of the filter and the chain of the   *)
(* firewall that decide on a message.  They share the facts about sorting, *)
(* positions and running totals that come first.                           *)
(***************************************************************************)
EXTENDS Balancer, Routing, MessageFilter, Firewall, FiniteSetTheorems, NaturalsInduction,
        WellFoundedInduction, TLAPS

\* A strict total order on S, as a set of pairs.
StrictOrder(S, R) ==
    /\ \A x \in S : <<x, x>> \notin R
    /\ \A x, y, z \in S : <<x, y>> \in R /\ <<y, z>> \in R => <<x, z>> \in R
    /\ \A x, y \in S : x = y \/ <<x, y>> \in R \/ <<y, x>> \in R

\* What sorting promises: each member once, in order.
InOrder(s, S, R) ==
    /\ s \in [1 .. Cardinality(S) -> S]
    /\ \A x \in S : \E k \in 1 .. Cardinality(S) : s[k] = x
    /\ \A i, j \in 1 .. Cardinality(S) : i < j => <<s[i], s[j]>> \in R
    /\ \A i, j \in 1 .. Cardinality(S) : s[i] = s[j] => i = j

\* The k-th member by a strict total order is the one that k - 1 come before, and there is
\* exactly one for every k.
LEMMA SortedIsSorted ==
  ASSUME NEW S, IsFiniteSet(S), NEW R, StrictOrder(S, R)
  PROVE  InOrder(Sorted(S, R), S, R)
  <1> DEFINE below(x) == {y \in S : <<y, x>> \in R}
             rank == [x \in S |-> Cardinality(below(x))]
             n == Cardinality(S)
  <1>0. n \in Nat  BY FS_CardinalityType
  <1>1. \A x \in S : IsFiniteSet(below(x)) /\ Cardinality(below(x)) \in Nat
    <2> TAKE x \in S
    <2>1. below(x) \in SUBSET S  OBVIOUS
    <2>2. IsFiniteSet(below(x))  BY <2>1, FS_Subset
    <2>3. QED  BY <2>2, FS_CardinalityType
  <1>2. ASSUME NEW x \in S, NEW y \in S, <<x, y>> \in R PROVE rank[x] < rank[y]
    <2>1. below(x) \in SUBSET below(y)  BY <1>2 DEF StrictOrder
    <2>2. x \in below(y) /\ x \notin below(x)  BY <1>2 DEF StrictOrder
    <2>3. Cardinality(below(x)) <= Cardinality(below(y)) /\ Cardinality(below(x)) # Cardinality(below(y))
      BY <2>1, <2>2, <1>1, FS_Subset
    <2>4. Cardinality(below(x)) < Cardinality(below(y))
      <3> HIDE DEF below
      <3> QED  BY <2>3, <1>1
    <2>5. QED  BY <2>4
  <1>3. rank \in [S -> 0 .. n - 1]
    <2> SUFFICES ASSUME NEW x \in S PROVE Cardinality(below(x)) \in 0 .. n - 1
      OBVIOUS
    <2>1. below(x) \in SUBSET S /\ x \notin below(x)  BY DEF StrictOrder
    <2>2. Cardinality(below(x)) <= n /\ Cardinality(below(x)) # n
      BY <2>1, FS_Subset
    <2>3. QED
      <3> HIDE DEF below, n
      <3> QED  BY <2>2, <1>0, <1>1
  <1> HIDE DEF rank
  <1>4. \A x, y \in S : rank[x] = rank[y] => x = y
    <2> SUFFICES ASSUME NEW x \in S, NEW y \in S, rank[x] = rank[y], x # y PROVE FALSE
      OBVIOUS
    <2>1. <<x, y>> \in R \/ <<y, x>> \in R  BY DEF StrictOrder
    <2>2. rank[x] \in Int /\ rank[y] \in Int
      <3>1. rank[x] \in 0 .. n - 1 /\ rank[y] \in 0 .. n - 1  BY <1>3
      <3> HIDE DEF n
      <3> QED  BY <3>1, <1>0
    <2>3. QED  BY <2>1, <2>2, <1>2
  <1>5. rank \in Injection(S, 0 .. n - 1)
    BY <1>3, <1>4 DEF Injection, IsInjective
  <1>6. IsFiniteSet(0 .. n - 1) /\ Cardinality(0 .. n - 1) = n
    <2> HIDE DEF n
    <2>1. n - 1 \in Int /\ 0 \in Int  BY <1>0
    <2>2. IsFiniteSet(0 .. n - 1) /\ Cardinality(0 .. n - 1) = IF 0 > n - 1 THEN 0 ELSE n - 1 - 0 + 1
      BY <2>1, FS_Interval
    <2> QED  BY <2>2, <1>0
  <1>7. rank \in Surjection(S, 0 .. n - 1)
    BY <1>5, <1>6, FS_Injection
  <1> DEFINE s == Sorted(S, R)
  <1>8. \A k \in 1 .. n : s[k] \in S /\ rank[s[k]] = k - 1
    <2> TAKE k \in 1 .. n
    <2>1. k - 1 \in 0 .. n - 1
      <3> HIDE DEF n
      <3> QED  BY <1>0
    <2>2. \E x \in S : rank[x] = k - 1  BY <2>1, <1>7 DEF Surjection
    <2>3. \E x \in S : Cardinality({y \in S : <<y, x>> \in R}) = k - 1
      BY <2>2 DEF rank
    <2>4. s[k] = CHOOSE x \in S : Cardinality({y \in S : <<y, x>> \in R}) = k - 1
      BY DEF Sorted
    <2>5. s[k] \in S /\ Cardinality({y \in S : <<y, s[k]>> \in R}) = k - 1
      <3> HIDE DEF s
      <3> QED  BY <2>3, <2>4
    <2> HIDE DEF s
    <2>6. QED  BY <2>5 DEF rank
  <1>9. s \in [1 .. n -> S]  BY <1>8 DEF Sorted
  <1> HIDE DEF s
  <1>10. \A x \in S : \E k \in 1 .. n : s[k] = x
    <2> TAKE x \in S
    <2>1. rank[x] \in 0 .. n - 1  BY <1>3
    <2>2. PICK k \in 1 .. n : k - 1 = rank[x]
      <3>1. rank[x] + 1 \in 1 .. n /\ (rank[x] + 1) - 1 = rank[x]
        <4> HIDE DEF n
        <4> QED  BY <2>1, <1>0
      <3> QED  BY <3>1
    <2>3. s[k] \in S /\ rank[s[k]] = rank[x]  BY <2>2, <1>8
    <2>4. s[k] = x  BY <2>3, <1>4
    <2> QED  BY <2>4
  <1>11. ASSUME NEW i \in 1 .. n, NEW j \in 1 .. n, i < j PROVE <<s[i], s[j]>> \in R
    <2>1. s[i] \in S /\ rank[s[i]] = i - 1 /\ s[j] \in S /\ rank[s[j]] = j - 1  BY <1>8
    <2>2. i \in Int /\ j \in Int
      <3> HIDE DEF n
      <3> QED  BY <1>0
    <2>3. s[i] # s[j]  BY <2>1, <2>2, <1>11
    <2>4. <<s[j], s[i]>> \notin R
      <3> SUFFICES ASSUME <<s[j], s[i]>> \in R PROVE FALSE
        OBVIOUS
      <3>1. rank[s[j]] < rank[s[i]]  BY <1>2, <2>1
      <3> QED  BY <3>1, <2>1, <2>2, <1>11
    <2>5. QED  BY <2>1, <2>3, <2>4 DEF StrictOrder
  <1>12. ASSUME NEW i \in 1 .. n, NEW j \in 1 .. n, s[i] = s[j] PROVE i = j
    <2>1. rank[s[i]] = i - 1 /\ rank[s[j]] = j - 1  BY <1>8
    <2>2. i \in Int /\ j \in Int
      <3> HIDE DEF n
      <3> QED  BY <1>0
    <2>3. i - 1 = j - 1  BY <2>1, <1>12
    <2> QED  BY <2>2, <2>3
  <1>13. QED  BY <1>9, <1>10, <1>11, <1>12 DEF InOrder, s

\* Ascending lists each member of a finite set of numbers once, least first.
LEMMA AscendingIsSorted ==
  ASSUME NEW S \in SUBSET Int, IsFiniteSet(S)
  PROVE  LET s == Ascending(S) IN
         /\ s \in [1 .. Cardinality(S) -> S]
         /\ \A x \in S : \E k \in 1 .. Cardinality(S) : s[k] = x
         /\ \A i, j \in 1 .. Cardinality(S) : i < j => s[i] < s[j]
         /\ \A i, j \in 1 .. Cardinality(S) : s[i] = s[j] => i = j
  <1> DEFINE R == {xy \in S \X S : xy[1] < xy[2]}
  <1>1. \A x, y \in S : <<x, y>> \in R <=> x < y  OBVIOUS
  <1> HIDE DEF R
  <1>2. StrictOrder(S, R)
    <2>1. \A x \in S : <<x, x>> \notin R  BY <1>1
    <2>2. \A x, y, z \in S : <<x, y>> \in R /\ <<y, z>> \in R => <<x, z>> \in R  BY <1>1
    <2>3. \A x, y \in S : x = y \/ x < y \/ y < x  OBVIOUS
    <2>4. \A x, y \in S : x = y \/ <<x, y>> \in R \/ <<y, x>> \in R  BY <1>1, <2>3
    <2> QED  BY <2>1, <2>2, <2>4 DEF StrictOrder
  <1>3. Ascending(S) = Sorted(S, R)  BY DEF Ascending, R
  <1>4. InOrder(Ascending(S), S, R)  BY <1>2, <1>3, SortedIsSorted
  <1>5. \A i, j \in 1 .. Cardinality(S) : i < j => Ascending(S)[i] < Ascending(S)[j]
    BY <1>1, <1>4 DEF InOrder
  <1> QED  BY <1>4, <1>5 DEF InOrder

\* The numbers from 1 to n, least first, are 1 to n.
LEMMA AscendingInterval ==
  ASSUME NEW n \in Nat
  PROVE  Ascending(1 .. n) = [k \in 1 .. n |-> k]
  <1> DEFINE S == 1 .. n
             R == {xy \in S \X S : xy[1] < xy[2]}
  <1>1. Cardinality(S) = n
    BY FS_Interval
  <1>2. ASSUME NEW x \in S PROVE Cardinality({y \in S : <<y, x>> \in R}) = x - 1
    <2>1. {y \in S : <<y, x>> \in R} = 1 .. x - 1  OBVIOUS
    <2>2. Cardinality(1 .. x - 1) = x - 1
      <3>1. 1 \in Int /\ x - 1 \in Int /\ x >= 1  OBVIOUS
      <3>2. Cardinality(1 .. x - 1) = IF 1 > x - 1 THEN 0 ELSE ((x - 1) - 1) + 1  BY <3>1, FS_Interval
      <3> QED  BY <3>1, <3>2
    <2> QED  BY <2>1, <2>2
  <1>3. ASSUME NEW k \in S
        PROVE  (CHOOSE x \in S : Cardinality({y \in S : <<y, x>> \in R}) = k - 1) = k
    <2> DEFINE c == CHOOSE x \in S : Cardinality({y \in S : <<y, x>> \in R}) = k - 1
    <2>1. \E x \in S : Cardinality({y \in S : <<y, x>> \in R}) = k - 1  BY <1>2
    <2> HIDE DEF R
    <2>2. c \in S /\ Cardinality({y \in S : <<y, c>> \in R}) = k - 1  BY <2>1
    <2> HIDE DEF c
    <2>3. c - 1 = k - 1  BY <2>2, <1>2
    <2>4. c = k  BY <2>3, <2>2
    <2> QED  BY <2>4 DEF c
  <1> HIDE DEF R
  <1>4. Ascending(S) = Sorted(S, R)  BY DEF Ascending, R
  <1>5. Sorted(S, R) = [k \in 1 .. n |-> k]  BY <1>1, <1>3 DEF Sorted
  <1> QED  BY <1>4, <1>5

\* SortByKey lists every place of the keys once, by rising key and then by place.
LEMMA SortByKeySorts ==
  ASSUME NEW n \in Nat, NEW keys \in [1 .. n -> Int]
  PROVE  LET order == SortByKey(keys) IN
         /\ order \in [1 .. n -> 1 .. n]
         /\ \A i \in 1 .. n : \E k \in 1 .. n : order[k] = i
         /\ \A i, j \in 1 .. n : i < j =>
               \/ keys[order[i]] < keys[order[j]]
               \/ keys[order[i]] = keys[order[j]] /\ order[i] < order[j]
  <1> DEFINE S == DOMAIN keys
             R == ByKey(keys)
  <1>0. S = 1 .. n  OBVIOUS
  <1>1. \A i, j \in S : <<i, j>> \in R <=> (keys[i] < keys[j] \/ (keys[i] = keys[j] /\ i < j))
    BY DEF ByKey
  <1>2. IsFiniteSet(S) /\ Cardinality(S) = n
    BY <1>0, FS_Interval
  <1>3. SortByKey(keys) = Sorted(S, R)  BY DEF SortByKey
  <1>4. \A i \in S : i \in Int /\ keys[i] \in Int  OBVIOUS
  <1> HIDE DEF R, S
  <1>5. StrictOrder(S, R)
    <2>1. \A x \in S : <<x, x>> \notin R  BY <1>1, <1>4
    <2>2. \A x, y, z \in S : <<x, y>> \in R /\ <<y, z>> \in R => <<x, z>> \in R  BY <1>1, <1>4
    <2>3. ASSUME NEW x \in S, NEW y \in S PROVE x = y \/ <<x, y>> \in R \/ <<y, x>> \in R
      <3>1. x \in Int /\ y \in Int /\ keys[x] \in Int /\ keys[y] \in Int  BY <1>4
      <3>2. \/ x = y \/ (keys[x] < keys[y] \/ (keys[x] = keys[y] /\ x < y))
            \/ (keys[y] < keys[x] \/ (keys[y] = keys[x] /\ y < x))
        BY <3>1
      <3> QED  BY <3>2, <1>1
    <2> QED  BY <2>1, <2>2, <2>3 DEF StrictOrder
  <1>6. InOrder(SortByKey(keys), S, R)  BY <1>2, <1>3, <1>5, SortedIsSorted
  <1> DEFINE order == SortByKey(keys)
  <1> HIDE DEF order
  <1>7. order \in [1 .. n -> 1 .. n] /\ \A i \in 1 .. n : \E k \in 1 .. n : order[k] = i
    BY <1>0, <1>2, <1>6 DEF InOrder, order
  <1>8. \A i, j \in 1 .. n : i < j => <<order[i], order[j]>> \in R
    BY <1>2, <1>6 DEF InOrder, order
  <1>9. \A i, j \in 1 .. n : i < j => \/ keys[order[i]] < keys[order[j]]
                                      \/ keys[order[i]] = keys[order[j]] /\ order[i] < order[j]
    BY <1>0, <1>1, <1>7, <1>8
  <1> QED  BY <1>7, <1>9 DEF order

\* A set of natural numbers that is not empty has a least member.
LEMMA HasLeast ==
  ASSUME NEW T \in SUBSET Nat, T # {}
  PROVE  \E x \in T : \A y \in T : x <= y
  <1>1. \E x \in T : \A y \in T : ~ (<<y, x>> \in OpToRel(<, Nat))
    BY NatLessThanWellFounded, WFMin
  <1>2. PICK x \in T : \A y \in T : ~ (<<y, x>> \in OpToRel(<, Nat))
    BY <1>1
  <1>3. \A y \in T : ~ (y < x)  BY <1>2 DEF OpToRel
  <1> QED  BY <1>3

\* The running totals of a list: nothing at first, then one number more each.
LEMMA RunningTotals ==
  ASSUME NEW N \in Nat, NEW s \in [1 .. N -> Nat], Len(s) = N
  PROVE  LET sum == RunningTotal(s) IN
         /\ sum \in [0 .. N -> Nat]
         /\ sum[0] = 0
         /\ \A i \in 1 .. N : sum[i] = sum[i - 1] + s[i]
  <1> DEFINE Good(f, n) == /\ f \in [0 .. n -> Nat] /\ f[0] = 0
                           /\ \A i \in 1 .. n : f[i] = f[i - 1] + s[i]
             Bad == {n \in 0 .. N : ~ \E f : Good(f, n)}
  <1>1. Bad = {}
    <2> SUFFICES ASSUME Bad # {} PROVE FALSE
      OBVIOUS
    <2>1. PICK n \in Bad : \A m \in Bad : n <= m
      <3>1. Bad \in SUBSET Nat  OBVIOUS
      <3> HIDE DEF Bad
      <3> QED  BY <3>1, HasLeast
    <2>2. n # 0
      <3>1. Good([i \in 0 .. 0 |-> 0], 0)  OBVIOUS
      <3> HIDE DEF Good
      <3> QED  BY <3>1
    <2>3. n \in 1 .. N /\ n - 1 \in 0 .. N  BY <2>2
    <2>4. n - 1 \notin Bad
      <3> HIDE DEF Bad
      <3> QED  BY <2>1, <2>3
    <2>5. PICK f : Good(f, n - 1)
      <3> HIDE DEF Good
      <3> QED  BY <2>3, <2>4
    <2>6. Good([i \in 0 .. n |-> IF i = n THEN f[n - 1] + s[n] ELSE f[i]], n)
      <3> DEFINE g == [i \in 0 .. n |-> IF i = n THEN f[n - 1] + s[n] ELSE f[i]]
      <3>1. f[n - 1] \in Nat /\ s[n] \in Nat  BY <2>3, <2>5
      <3>2. g \in [0 .. n -> Nat]
        <4> SUFFICES ASSUME NEW i \in 0 .. n, i # n PROVE f[i] \in Nat
          BY <3>1
        <4>1. i \in 0 .. n - 1  BY <2>3
        <4> QED  BY <4>1, <2>5
      <3>3. g[0] = 0  BY <2>3, <2>5
      <3>4. ASSUME NEW i \in 1 .. n PROVE g[i] = g[i - 1] + s[i]
        <4>1. i - 1 \in 0 .. n /\ i \in 0 .. n /\ i - 1 # n  BY <2>3
        <4>2. g[i - 1] = f[i - 1]  BY <4>1
        <4>3. CASE i = n  BY <4>1, <4>2, <4>3
        <4>4. CASE i # n
          <5>1. i \in 1 .. n - 1  BY <2>3, <4>4
          <5> QED  BY <4>1, <4>2, <4>4, <5>1, <2>5
        <4> QED  BY <4>3, <4>4
      <3> HIDE DEF g
      <3>5. Good(g, n)  BY <3>2, <3>3, <3>4
      <3> QED  BY <3>5 DEF g
    <2> HIDE DEF Good
    <2>7. QED  BY <2>1, <2>6
  <1>2. PICK f : Good(f, N)
    <2> HIDE DEF Good
    <2>1. N \in 0 .. N  OBVIOUS
    <2> QED  BY <1>1, <2>1
  <1>3. f = [i \in 0 .. Len(s) |-> IF i = 0 THEN 0 ELSE f[i - 1] + s[i]]
    BY <1>2
  <1> DEFINE sum == RunningTotal(s)
  <1>4. sum = [i \in 0 .. Len(s) |-> IF i = 0 THEN 0 ELSE sum[i - 1] + s[i]]
    BY <1>3 DEF RunningTotal
  <1> HIDE DEF sum
  <1>5. sum[0] = 0 /\ DOMAIN sum = 0 .. N
    BY <1>4
  <1>6. \A i \in 1 .. N : sum[i] = sum[i - 1] + s[i]
    BY <1>4
  <1>7. \A n \in 0 .. N : sum[n] = f[n]
    <2> DEFINE Off == {n \in 0 .. N : sum[n] # f[n]}
    <2> SUFFICES ASSUME Off # {} PROVE FALSE
      OBVIOUS
    <2>1. PICK n \in Off : \A m \in Off : n <= m
      <3>1. Off \in SUBSET Nat  OBVIOUS
      <3> HIDE DEF Off
      <3> QED  BY <3>1, HasLeast
    <2>2. n # 0  BY <2>1, <1>2, <1>5
    <2>3. n \in 1 .. N /\ n - 1 \in 0 .. N  BY <2>2
    <2>4. sum[n - 1] = f[n - 1]  BY <2>1, <2>3
    <2>5. f[n] = f[n - 1] + s[n]  BY <1>2, <2>3
    <2>6. QED  BY <2>1, <2>3, <2>4, <2>5, <1>6
  <1>8. sum \in [0 .. N -> Nat]
    <2>1. \A n \in 0 .. N : sum[n] \in Nat  BY <1>2, <1>7
    <2> QED  BY <1>4, <2>1
  <1> QED  BY <1>5, <1>6, <1>8 DEF sum

\* A later running total is no less.
LEMMA TotalsRise ==
  ASSUME NEW N \in Nat, NEW s \in [1 .. N -> Nat], Len(s) = N,
         NEW i \in 0 .. N, NEW j \in 0 .. N, i <= j
  PROVE  RunningTotal(s)[i] <= RunningTotal(s)[j]
  <1> DEFINE sum == RunningTotal(s)
             Off == {k \in 0 .. N : i <= k /\ ~ (sum[i] <= sum[k])}
  <1>0. sum \in [0 .. N -> Nat] /\ \A k \in 1 .. N : sum[k] = sum[k - 1] + s[k]  BY RunningTotals
  <1> HIDE DEF sum
  <1> SUFFICES ASSUME Off # {} PROVE FALSE
    BY DEF sum
  <1>1. PICK k \in Off : \A m \in Off : k <= m
    <2>1. Off \in SUBSET Nat  OBVIOUS
    <2> HIDE DEF Off
    <2> QED  BY <2>1, HasLeast
  <1>2. k # i  BY <1>0
  <1>3. k \in 1 .. N /\ i <= k - 1 /\ k - 1 \in 0 .. N  BY <1>1, <1>2
  <1>4. k - 1 \notin Off
    <2> HIDE DEF Off
    <2> QED  BY <1>1, <1>3
  <1>5. sum[i] <= sum[k - 1]  BY <1>3, <1>4
  <1>6. sum[k] = sum[k - 1] + s[k] /\ s[k] \in Nat  BY <1>0, <1>3
  <1>7. sum[i] \in Nat /\ sum[k] \in Nat /\ sum[k - 1] \in Nat  BY <1>0, <1>3
  <1>8. ~ (sum[i] <= sum[k])  BY <1>1
  <1> QED  BY <1>5, <1>6, <1>7, <1>8

\* The least of a set of numbers is one of them and no more than any.
LEMMA MinIsLeast ==
  ASSUME NEW S \in SUBSET Nat, S # {}
  PROVE  Min(S) \in S /\ \A y \in S : Min(S) <= y
  <1>1. \E x \in S : \A y \in S : x <= y  BY HasLeast
  <1> QED  BY <1>1 DEF Min

\* The places whose running total exceeds r, and the first of them.
Reached(s, r) == {i \in DOMAIN s : r < RunningTotal(s)[i]}
FirstReached(s, r) == Min(Reached(s, r))

\* A number below the total lies in the stretch of exactly one place, the first whose
\* running total exceeds it.
LEMMA StretchFound ==
  ASSUME NEW N \in Nat, NEW s \in [1 .. N -> Nat], Len(s) = N, NEW r \in Nat, r < Total(s)
  PROVE  /\ Reached(s, r) # {} /\ FirstReached(s, r) \in 1 .. N
         /\ RunningTotal(s)[FirstReached(s, r) - 1] <= r /\ r < RunningTotal(s)[FirstReached(s, r)]
         /\ \A f \in 1 .. N : RunningTotal(s)[f - 1] <= r /\ r < RunningTotal(s)[f] => f = FirstReached(s, r)
  <1> DEFINE sum == RunningTotal(s)
             reached == {i \in 1 .. N : r < sum[i]}
             k == Min(reached)
  <1>1. /\ sum \in [0 .. N -> Nat] /\ sum[0] = 0
        /\ \A i \in 1 .. N : sum[i] = sum[i - 1] + s[i]
    BY RunningTotals
  <1>2. r < sum[N]  BY DEF Total
  <1>3. \A i, j \in 0 .. N : i <= j => sum[i] <= sum[j]  BY TotalsRise
  <1> HIDE DEF sum
  <1>4. N \in 1 .. N  BY <1>1, <1>2
  <1>5. reached # {} /\ reached \in SUBSET Nat  BY <1>2, <1>4
  <1>6. k \in reached /\ \A y \in reached : k <= y
    <2> HIDE DEF reached
    <2> QED  BY <1>5, MinIsLeast
  <1> HIDE DEF k
  <1>7. k \in 1 .. N /\ r < sum[k]  BY <1>6
  <1>8. sum[k - 1] <= r
    <2>1. CASE k = 1  BY <1>1, <2>1
    <2>2. CASE k # 1
      <3>1. k - 1 \in 1 .. N /\ ~ (k <= k - 1) /\ k - 1 \in 0 .. N  BY <1>7, <2>2
      <3>2. k - 1 \notin reached
        <4> HIDE DEF reached
        <4> QED  BY <1>6, <3>1
      <3>3. ~ (r < sum[k - 1]) /\ sum[k - 1] \in Nat  BY <1>1, <3>1, <3>2
      <3> QED  BY <3>3
    <2> QED  BY <2>1, <2>2
  <1>9. ASSUME NEW f \in 1 .. N, sum[f - 1] <= r, r < sum[f] PROVE f = k
    <2>1. f \in reached  BY <1>9
    <2>2. k <= f
      <3> HIDE DEF reached
      <3> QED  BY <1>6, <2>1
    <2>3. ~ (k <= f - 1)
      <3> SUFFICES ASSUME k <= f - 1 PROVE FALSE
        OBVIOUS
      <3>1. k \in 0 .. N /\ f - 1 \in 0 .. N  BY <1>7
      <3>2. sum[k] <= sum[f - 1] /\ sum[k] \in Nat /\ sum[f - 1] \in Nat  BY <1>1, <1>3, <3>1
      <3> QED  BY <1>7, <1>9, <3>2
    <2> QED  BY <1>7, <2>2, <2>3
  <1>10. Reached(s, r) = reached /\ FirstReached(s, r) = k  BY DEF Reached, FirstReached, k, sum
  <1> QED  BY <1>5, <1>7, <1>8, <1>9, <1>10 DEF sum
---------------------------------------------------------------------------
(* Counting in rounds *)

\* Products with a non-negative factor respect the order.
LEMMA TimesMonotone ==
  ASSUME NEW a \in Int, NEW b \in Int, NEW c \in Nat, a <= b
  PROVE  a * c <= b * c
  OBVIOUS

\* A product of natural numbers is one.
LEMMA NatTimes ==
  ASSUME NEW a \in Nat, NEW b \in Nat
  PROVE  a * b \in Nat
  OBVIOUS

\* Division with remainder.
LEMMA Remainder ==
  ASSUME NEW n \in Nat, NEW T \in Nat \ {0}
  PROVE  /\ n \div T \in Nat /\ n % T \in 0 .. T - 1
         /\ n = (n \div T) * T + (n % T)
  OBVIOUS

\* Quotient and remainder are determined by what they make up.
LEMMA RemainderUnique ==
  ASSUME NEW n \in Nat, NEW T \in Nat \ {0}, NEW q \in Nat, NEW r \in 0 .. T - 1, n = q * T + r
  PROVE  n \div T = q /\ n % T = r
  <1> DEFINE p == n \div T
             u == n % T
  <1>1. p \in Nat /\ u \in 0 .. T - 1 /\ n = p * T + u  BY Remainder
  <1> HIDE DEF p, u
  <1>2. ~ (p > q)
    <2> SUFFICES ASSUME p > q PROVE FALSE
      OBVIOUS
    <2>1. (q + 1) * T <= p * T  BY <1>1, TimesMonotone
    <2>2. (q + 1) * T = q * T + T /\ q * T \in Int /\ p * T \in Int  BY <1>1
    <2> QED  BY <1>1, <2>1, <2>2
  <1>3. ~ (q > p)
    <2> SUFFICES ASSUME q > p PROVE FALSE
      OBVIOUS
    <2>1. (p + 1) * T <= q * T  BY <1>1, TimesMonotone
    <2>2. (p + 1) * T = p * T + T /\ q * T \in Int /\ p * T \in Int  BY <1>1
    <2> QED  BY <1>1, <2>1, <2>2
  <1>4. p = q  BY <1>1, <1>2, <1>3
  <1>5. q * T \in Int  OBVIOUS
  <1>6. u = r  BY <1>1, <1>4, <1>5
  <1> QED  BY <1>4, <1>6 DEF p, u

\* How much of a stretch from a to b lies below r.
Below(r, a, b) == IF r <= a THEN 0 ELSE IF r >= b THEN b - a ELSE r - a

\* How many of the numbers less than n leave a remainder in a .. b - 1.
Hits(n, T, a, b) == (n \div T) * (b - a) + Below(n % T, a, b)

\* The next number is one more hit exactly if its remainder is in the stretch.
LEMMA NextHit ==
  ASSUME NEW n \in Nat, NEW T \in Nat \ {0}, NEW a \in 0 .. T, NEW b \in 0 .. T, a <= b
  PROVE  Hits(n + 1, T, a, b) = Hits(n, T, a, b) + (IF a <= n % T /\ n % T < b THEN 1 ELSE 0)
  <1> DEFINE q == n \div T
             r == n % T
  <1>1. q \in Nat /\ r \in 0 .. T - 1 /\ n = q * T + r  BY Remainder
  <1>2. CASE r + 1 < T
    <2> HIDE DEF q, r
    <2>1. n + 1 = q * T + (r + 1) /\ r + 1 \in 0 .. T - 1 /\ n + 1 \in Nat  BY <1>1, <1>2
    <2>2. (n + 1) \div T = q /\ (n + 1) % T = r + 1  BY <1>1, <2>1, RemainderUnique
    <2>3. Below(r + 1, a, b) = Below(r, a, b) + (IF a <= r /\ r < b THEN 1 ELSE 0)
      BY <1>1 DEF Below
    <2>4. q * (b - a) \in Int  BY <1>1
    <2>5. Below(r, a, b) \in Int /\ Below(r + 1, a, b) \in Int  BY <1>1 DEF Below
    <2>6. Hits(n + 1, T, a, b) = q * (b - a) + Below(r + 1, a, b)  BY <2>2 DEF Hits
    <2>7. Hits(n, T, a, b) = q * (b - a) + Below(r, a, b)  BY DEF Hits, q, r
    <2>8. Hits(n + 1, T, a, b) = Hits(n, T, a, b) + (IF a <= r /\ r < b THEN 1 ELSE 0)
      BY <2>3, <2>4, <2>5, <2>6, <2>7
    <2> QED  BY <2>8 DEF r
  <1>3. CASE ~ (r + 1 < T)
    <2> HIDE DEF q, r
    <2>0. r = T - 1  BY <1>1, <1>3
    <2>1. n + 1 = (q + 1) * T + 0 /\ 0 \in 0 .. T - 1 /\ n + 1 \in Nat /\ q + 1 \in Nat
      <3>1. (q + 1) * T = q * T + T /\ q * T \in Int  BY <1>1
      <3> QED  BY <1>1, <2>0, <3>1
    <2>2. (n + 1) \div T = q + 1 /\ (n + 1) % T = 0  BY <2>1, RemainderUnique
    <2>3. Below(0, a, b) = 0 /\ b - a = Below(r, a, b) + (IF a <= r /\ r < b THEN 1 ELSE 0)
      BY <1>1, <2>0 DEF Below
    <2>4. (q + 1) * (b - a) = q * (b - a) + (b - a) /\ q * (b - a) \in Int  BY <1>1
    <2>5. Below(r, a, b) \in Int  BY <1>1 DEF Below
    <2>6. Hits(n + 1, T, a, b) = (q + 1) * (b - a) + Below(0, a, b)  BY <2>2 DEF Hits
    <2>7. Hits(n, T, a, b) = q * (b - a) + Below(r, a, b)  BY DEF Hits, q, r
    <2>8. Hits(n + 1, T, a, b) = Hits(n, T, a, b) + (IF a <= r /\ r < b THEN 1 ELSE 0)
      BY <2>3, <2>4, <2>5, <2>6, <2>7
    <2> QED  BY <2>8 DEF r
  <1> QED  BY <1>2, <1>3

\* Hits are counted by natural numbers.
LEMMA HitsType ==
  ASSUME NEW n \in Nat, NEW T \in Nat \ {0}, NEW a \in 0 .. T, NEW b \in 0 .. T, a <= b
  PROVE  Hits(n, T, a, b) \in Nat
  <1>1. n \div T \in Nat /\ n % T \in 0 .. T - 1  BY Remainder
  <1>2. (n \div T) * (b - a) \in Nat
    <2>1. b - a \in Nat  OBVIOUS
    <2> QED  BY <1>1, <2>1
  <1>3. Below(n % T, a, b) \in Nat  BY <1>1 DEF Below
  <1> QED  BY <1>2, <1>3 DEF Hits

\* Among any m numbers in a row every whole round of T has all the hits of the stretch, and
\* no round begun has more.
LEMMA HitsInARow ==
  ASSUME NEW s \in Nat, NEW m \in Nat, NEW T \in Nat \ {0}, NEW a \in 0 .. T, NEW b \in 0 .. T, a <= b
  PROVE  Hits(s + m, T, a, b) - Hits(s, T, a, b)
             \in (m \div T) * (b - a) .. ((m + T - 1) \div T) * (b - a)
  <1> DEFINE p == s \div T
             u == s % T
             q == m \div T
             r == m % T
             w == b - a
  <1>1. p \in Nat /\ u \in 0 .. T - 1 /\ s = p * T + u  BY Remainder
  <1>2. q \in Nat /\ r \in 0 .. T - 1 /\ m = q * T + r  BY Remainder
  <1>3. w \in Nat  OBVIOUS
  <1>4. Hits(s, T, a, b) = p * w + Below(u, a, b)  BY DEF Hits
  <1> HIDE DEF p, u, q, r, w
  <1>5. p * w \in Int /\ q * w \in Int /\ p * T \in Int /\ q * T \in Int  BY <1>1, <1>2, <1>3
  <1>6. (p + q) * w = p * w + q * w /\ (p + q) * T = p * T + q * T
    BY <1>1, <1>2, <1>3
  <1>7. (m + T - 1) \div T = IF r = 0 THEN q ELSE q + 1
    <2>1. CASE r = 0
      <3>1. m + T - 1 = q * T + (T - 1) /\ T - 1 \in 0 .. T - 1 /\ m + T - 1 \in Nat
        BY <1>2, <1>5, <2>1
      <3> QED  BY <1>2, <2>1, <3>1, RemainderUnique
    <2>2. CASE r # 0
      <3>0. (q + 1) * T = q * T + T  BY <1>2
      <3>1. m + T - 1 = (q + 1) * T + (r - 1) /\ r - 1 \in 0 .. T - 1 /\ m + T - 1 \in Nat /\ q + 1 \in Nat
        BY <1>2, <1>5, <2>2, <3>0
      <3> QED  BY <2>2, <3>1, RemainderUnique
    <2> QED  BY <2>1, <2>2
  <1>8. Hits(s + m, T, a, b) =
            IF u + r < T THEN (p * w + q * w) + Below(u + r, a, b)
            ELSE ((p * w + q * w) + w) + Below(u + r - T, a, b)
    <2>1. CASE u + r < T
      <3>1. s + m = (p + q) * T + (u + r) /\ u + r \in 0 .. T - 1 /\ s + m \in Nat /\ p + q \in Nat
        BY <1>1, <1>2, <1>5, <1>6, <2>1
      <3>2. (s + m) \div T = p + q /\ (s + m) % T = u + r  BY <3>1, RemainderUnique
      <3> QED  BY <2>1, <3>2, <1>6 DEF Hits, w
    <2>2. CASE ~ (u + r < T)
      <3>0. (p + q + 1) * T = (p + q) * T + T /\ (p + q + 1) * w = (p + q) * w + w
        BY <1>1, <1>2, <1>3
      <3>1. s + m = (p + q + 1) * T + (u + r - T) /\ u + r - T \in 0 .. T - 1 /\ s + m \in Nat /\ p + q + 1 \in Nat
        BY <1>1, <1>2, <1>5, <1>6, <2>2, <3>0
      <3>2. (s + m) \div T = p + q + 1 /\ (s + m) % T = u + r - T  BY <3>1, RemainderUnique
      <3> QED  BY <2>2, <3>0, <3>2, <1>6 DEF Hits, w
    <2> QED  BY <2>1, <2>2
  <1>9. CASE u + r < T
    <2>1. /\ Below(u + r, a, b) \in Int /\ Below(u, a, b) \in Int
          /\ Below(u + r, a, b) - Below(u, a, b) \in 0 .. w
          /\ r = 0 => Below(u + r, a, b) = Below(u, a, b)
      BY <1>1, <1>2 DEF Below, w
    <2>2. (q + 1) * w = q * w + w  BY <1>2, <1>3
    <2>3. Hits(s + m, T, a, b) - Hits(s, T, a, b) = q * w + (Below(u + r, a, b) - Below(u, a, b))
      BY <1>4, <1>5, <1>8, <1>9, <2>1
    <2>4. Hits(s + m, T, a, b) - Hits(s, T, a, b) \in q * w .. (IF r = 0 THEN q ELSE q + 1) * w
      BY <1>3, <1>5, <2>1, <2>2, <2>3
    <2> QED  BY <2>4, <1>7 DEF q, w
  <1>10. CASE ~ (u + r < T)
    <2>0. r # 0  BY <1>1, <1>2, <1>10
    <2>1. /\ Below(u + r - T, a, b) \in Int /\ Below(u, a, b) \in Int
          /\ w + Below(u + r - T, a, b) - Below(u, a, b) \in 0 .. w
      BY <1>1, <1>2, <1>10 DEF Below, w
    <2>2. (q + 1) * w = q * w + w  BY <1>2, <1>3
    <2>3. Hits(s + m, T, a, b) - Hits(s, T, a, b) = q * w + (w + Below(u + r - T, a, b) - Below(u, a, b))
      BY <1>3, <1>4, <1>5, <1>8, <1>10, <2>1
    <2>4. Hits(s + m, T, a, b) - Hits(s, T, a, b) \in q * w .. (IF r = 0 THEN q ELSE q + 1) * w
      BY <1>3, <1>5, <2>0, <2>1, <2>2, <2>3
    <2> QED  BY <2>4, <1>7 DEF q, w
  <1> QED  BY <1>9, <1>10

---------------------------------------------------------------------------
(* Load balancers *)

\* The endpoints are numbered from 1, and there are as many as weights.
LEMMA EndpointNumbers ==
  /\ Len(Weights) \in Nat /\ Endpoints = 1 .. Len(Weights) /\ Weights \in [Endpoints -> Nat]
  /\ IsFiniteSet(Endpoints) /\ Cardinality(Endpoints) = Len(Weights)
  <1>1. Len(Weights) \in Nat /\ Endpoints = 1 .. Len(Weights) /\ Weights \in [Endpoints -> Nat]
    BY BalancerAssumption DEF Endpoints
  <1> DEFINE n == Len(Weights)
  <1> HIDE DEF n
  <1>2. n \in Nat /\ n \in Int /\ 1 \in Int  BY <1>1 DEF n
  <1>3. IsFiniteSet(1 .. n) /\ Cardinality(1 .. n) = n  BY <1>2, FS_Interval
  <1> QED  BY <1>1, <1>3 DEF n

\* The weights add up: from nothing to the total, endpoint by endpoint.
LEMMA WeightsAddUp ==
  /\ total_weight \in Nat /\ total_weight = Accumulated(Len(Weights))
  /\ Accumulated(0) = 0
  /\ \A i \in 0 .. Len(Weights) : Accumulated(i) \in Nat
  /\ \A i \in Endpoints : Accumulated(i) = Accumulated(i - 1) + Weights[i]
  <1> DEFINE N == Len(Weights)
  <1>1. N \in Nat /\ Weights \in [1 .. N -> Nat]  BY EndpointNumbers
  <1>2. /\ RunningTotal(Weights) \in [0 .. N -> Nat] /\ RunningTotal(Weights)[0] = 0
        /\ \A i \in 1 .. N : RunningTotal(Weights)[i] = RunningTotal(Weights)[i - 1] + Weights[i]
    <2> HIDE DEF N
    <2> QED  BY <1>1, RunningTotals DEF N
  <1>3. N \in 0 .. N  BY <1>1
  <1> QED  BY <1>1, <1>2, <1>3, EndpointNumbers DEF Accumulated, total_weight, Total

\* A later sum is no less.
LEMMA AccumulatedRises ==
  ASSUME NEW i \in 0 .. Len(Weights), NEW j \in 0 .. Len(Weights), i <= j
  PROVE  Accumulated(i) <= Accumulated(j)
  <1> DEFINE N == Len(Weights)
  <1>1. N \in Nat /\ Weights \in [1 .. N -> Nat] /\ Len(Weights) = N /\ i \in 0 .. N /\ j \in 0 .. N
    BY EndpointNumbers
  <1> HIDE DEF N
  <1> QED  BY <1>1, TotalsRise DEF Accumulated

\* With the list of all endpoints, Weighted chooses the one in whose stretch of the total
\* the counter lies.
LEMMA WeightedChoice ==
  ASSUME ticket \in Nat, total_weight > 0, NEW list, list = [k \in Endpoints |-> k],
         NEW e, Weighted(list) = {e}
  PROVE  /\ e \in Endpoints
         /\ \A f \in Endpoints : (Accumulated(f - 1) <= ticket % total_weight
                                    /\ ticket % total_weight < Accumulated(f)) <=> f = e
  <1> DEFINE r == ticket % total_weight
             N == Len(Weights)
             k == FirstReached(Weights, r)
  <1>1. total_weight \in Nat \ {0}  BY WeightsAddUp
  <1>2. r \in Nat /\ r < Total(Weights)
    <2>1. r \in 0 .. total_weight - 1  BY <1>1, Remainder
    <2> HIDE DEF r
    <2> QED  BY <1>1, <2>1 DEF total_weight
  <1>3. N \in Nat /\ Endpoints = 1 .. N /\ Weights \in [1 .. N -> Nat] /\ Len(Weights) = N  BY EndpointNumbers
  <1>4. /\ Reached(Weights, r) # {} /\ k \in 1 .. N
        /\ RunningTotal(Weights)[k - 1] <= r /\ r < RunningTotal(Weights)[k]
        /\ \A f \in 1 .. N : RunningTotal(Weights)[f - 1] <= r /\ r < RunningTotal(Weights)[f] => f = k
    <2> HIDE DEF r, N
    <2> QED  BY <1>2, <1>3, StretchFound
  <1>5. Weighted(list) = {list[k]}
    <2>1. Reached(Weights, r) = {i \in DOMAIN list : ticket % total_weight < Accumulated(i)}
      BY <1>3 DEF Accumulated, Reached
    <2> QED  BY <1>4, <2>1 DEF Weighted, FirstReached
  <1> HIDE DEF k, r
  <1>6. e = k  BY <1>3, <1>4, <1>5
  <1> QED  BY <1>3, <1>4, <1>6 DEF Accumulated, r

\* What the variables of the balancer hold; a tally never counts more than the counter.
LbTypes ==
    /\ BalancerTypeOK
    /\ DOMAIN pick = Pickers
    /\ \A p \in Pickers : pick[p].at = "select" => 1 \in DOMAIN pick[p].list
    /\ tally \in [Endpoints -> Nat]
    /\ chosen \in 0 .. ticket

\* The choices counted are those of the last tickets: each endpoint has the tickets whose
\* remainder lies in its stretch of the round.
Turns ==
    /\ strategy \in Counting =>
          \A k \in 1 .. Cardinality(up) :
              tally[Healthy[k]] = Hits(ticket, Cardinality(up), k - 1, k)
                                      - Hits(ticket - chosen, Cardinality(up), k - 1, k)
    /\ strategy = "weighted" /\ up = Endpoints /\ total_weight > 0 =>
          \A e \in Endpoints :
              tally[e] = Hits(ticket, total_weight, Accumulated(e - 1), Accumulated(e))
                             - Hits(ticket - chosen, total_weight, Accumulated(e - 1), Accumulated(e))

\* The callers that have chosen an endpoint and not yet connected.
Pending(e) == {p \in Pickers : pick[p].at = "connect" /\ pick[p].got = e}

ConnWeight(e) == IF strategy = "least_conn" THEN 1 ELSE WeightFromOne(e)

\* Counting the connections under way, loads are level up to one for each caller.
Levelled ==
    level /\ strategy \in {"least_conn", "weighted_least_conn"} =>
        /\ up = Endpoints
        /\ \A p \in Pickers : pick[p].at = "select" => pick[p].list = [k \in Endpoints |-> k]
        /\ \A e, f \in Endpoints :
              \/ load[f] = MaxLoad
              \/ (load[e] + Cardinality(Pending(e))) * ConnWeight(f)
                     <= load[f] * ConnWeight(e) + Cardinality(Pickers) * ConnWeight(f)

BalancerInv == LbTypes /\ Turns /\ Levelled

\* The list of the healthy endpoints has each of them once.
LEMMA HealthyLists ==
  ASSUME up \subseteq Endpoints
  PROVE  /\ IsFiniteSet(up) /\ Cardinality(up) \in Nat
         /\ Healthy \in [1 .. Cardinality(up) -> up]
         /\ Len(Healthy) = Cardinality(up)
         /\ \A e \in up : \E k \in 1 .. Cardinality(up) : Healthy[k] = e
         /\ \A i, j \in 1 .. Cardinality(up) : Healthy[i] = Healthy[j] => i = j
         /\ up = Endpoints => Healthy = [k \in Endpoints |-> k]
  <1>1. IsFiniteSet(up) /\ Cardinality(up) \in Nat
    BY EndpointNumbers, FS_Subset, FS_CardinalityType
  <1>2. up \in SUBSET Int  BY EndpointNumbers
  <1>3. /\ Healthy \in [1 .. Cardinality(up) -> up]
        /\ \A e \in up : \E k \in 1 .. Cardinality(up) : Healthy[k] = e
        /\ \A i, j \in 1 .. Cardinality(up) : Healthy[i] = Healthy[j] => i = j
    BY <1>1, <1>2, AscendingIsSorted DEF Healthy
  <1>4. Len(Healthy) = Cardinality(up)
    <2> DEFINE n == Cardinality(up)
    <2>1. n \in Nat /\ Healthy \in [1 .. n -> up]  BY <1>1, <1>3
    <2> HIDE DEF n
    <2>2. Len(Healthy) = n  BY <2>1
    <2> QED  BY <2>2 DEF n
  <1>5. up = Endpoints => Healthy = [k \in Endpoints |-> k]
    BY EndpointNumbers, AscendingInterval DEF Healthy
  <1> QED  BY <1>1, <1>3, <1>4, <1>5

\* The stretch of an endpoint lies within the round.
LEMMA StretchOfWeight ==
  ASSUME NEW e \in Endpoints
  PROVE  /\ Accumulated(e - 1) \in 0 .. total_weight /\ Accumulated(e) \in 0 .. total_weight
         /\ Accumulated(e - 1) <= Accumulated(e)
         /\ Accumulated(e) - Accumulated(e - 1) = Weights[e]
  <1>1. e \in 0 .. Len(Weights) /\ e - 1 \in 0 .. Len(Weights) /\ Len(Weights) \in 0 .. Len(Weights)
        /\ e - 1 <= e /\ e <= Len(Weights) /\ e - 1 <= Len(Weights)
    BY EndpointNumbers
  <1>2. /\ Accumulated(e - 1) <= Accumulated(e)
        /\ Accumulated(e) <= total_weight /\ Accumulated(e - 1) <= total_weight
    BY <1>1, AccumulatedRises, WeightsAddUp
  <1>3. Accumulated(e) \in Nat /\ Accumulated(e - 1) \in Nat /\ total_weight \in Nat
    BY <1>1, WeightsAddUp
  <1>4. Accumulated(e) = Accumulated(e - 1) + Weights[e] /\ Weights[e] \in Nat
    BY WeightsAddUp, EndpointNumbers
  <1> QED  BY <1>2, <1>3, <1>4

\* Counters at zero, nothing chosen, every endpoint presumed healthy.
LEMMA BalancerStarts == BalancerInit => LbTypes
  BY BalancerAssumption
     DEF BalancerInit, LbTypes, BalancerTypeOK, NoTally, NotPicking, Strategies, Counting

\* No step breaks the types.
LEMMA LbTypesStep == LbTypes /\ [BalancerNext]_lb_vars => LbTypes'
  <1> SUFFICES ASSUME LbTypes, [BalancerNext]_lb_vars PROVE LbTypes'
    OBVIOUS
  <1> USE DEF LbTypes, BalancerTypeOK
  <1>1. ASSUME NEW p \in Pickers, ListHealthy(p) PROVE LbTypes'
    <2>1. 1 \in DOMAIN Healthy
      <3>1. up # {} /\ up \subseteq Endpoints  BY <1>1 DEF ListHealthy
      <3>2. Cardinality(up) \in Nat /\ Cardinality(up) # 0 /\ DOMAIN Healthy = 1 .. Cardinality(up)
        BY <3>1, HealthyLists, FS_EmptySet
      <3> QED  BY <3>2
    <2> QED  BY <1>1, <2>1 DEF ListHealthy
  <1>2. ASSUME NEW p \in Pickers, Select(p) PROVE LbTypes'
    <2>1. PICK e \in MayReturn(pick[p].list) :
             /\ pick' = [pick EXCEPT ![p] = IF e = 0 THEN NotPicking
                                            ELSE [at |-> "connect", list |-> <<>>, got |-> e]]
             /\ IF e = 0 THEN UNCHANGED ticket ELSE CountUp
             /\ Counted(pick[p].list, e)
      BY <1>2 DEF Select
    <2>2. UNCHANGED <<strategy, up, load, level>>  BY <1>2 DEF Select
    <2>3. /\ DOMAIN pick' = Pickers /\ \A q \in Pickers : pick'[q].at \in {"idle", "select", "connect"}
          /\ \A q \in Pickers : pick'[q].at = "select" => 1 \in DOMAIN pick'[q].list
      BY <2>1 DEF NotPicking
    <2>4. ticket' \in 0 .. Span - 1 /\ (ticket' > ticket => ticket' = ticket + 1)
      <3>1. CASE ticket' = ticket  BY <3>1, BalancerAssumption
      <3>2. CASE ticket' = (ticket + 1) % Span
        <4>1. ticket + 1 \in Nat /\ Span \in Nat \ {0}  BY BalancerAssumption
        <4>2. (ticket + 1) % Span \in 0 .. Span - 1  BY <4>1, Remainder
        <4>3. CASE ticket + 1 = Span
          <5>1. ticket + 1 = 1 * Span + 0 /\ 0 \in 0 .. Span - 1  BY <4>1, <4>3
          <5>2. (ticket + 1) % Span = 0  BY <4>1, <5>1, RemainderUnique
          <5> QED  BY <3>2, <4>2, <5>2, BalancerAssumption
        <4>4. CASE ticket + 1 # Span
          <5>1. ticket + 1 = 0 * Span + (ticket + 1) /\ ticket + 1 \in 0 .. Span - 1  BY <4>1, <4>4
          <5>2. (ticket + 1) % Span = ticket + 1  BY <4>1, <5>1, RemainderUnique
          <5> QED  BY <3>2, <4>2, <5>2
        <4> QED  BY <4>3, <4>4
      <3> QED  BY <2>1, <3>1, <3>2 DEF CountUp
    <2>5. tally' \in [Endpoints -> Nat] /\ chosen' \in 0 .. ticket'
      <3>1. CASE pick[p].list = Healthy /\ ticket' > ticket
        <4>1. tally' = [tally EXCEPT ![e] = @ + 1] /\ chosen' = chosen + 1
          BY <2>1, <3>1 DEF Counted
        <4>2. tally' \in [Endpoints -> Nat]
          <5>1. DOMAIN tally' = Endpoints /\ tally' = [x \in Endpoints |-> tally'[x]]  BY <4>1
          <5>2. ASSUME NEW x \in Endpoints PROVE tally'[x] \in Nat
            <6>1. tally[x] \in Nat  OBVIOUS
            <6>2. CASE x = e  BY <4>1, <6>1, <6>2
            <6>3. CASE x # e  BY <4>1, <6>1, <6>3
            <6> QED  BY <6>2, <6>3
          <5> QED  BY <5>1, <5>2
        <4>3. ticket' = ticket + 1 /\ ticket \in Nat /\ chosen \in 0 .. ticket
          BY <2>4, <3>1, BalancerAssumption
        <4>4. chosen' \in 0 .. ticket'  BY <4>1, <4>3
        <4> QED  BY <4>2, <4>4
      <3>2. CASE ~ (pick[p].list = Healthy /\ ticket' > ticket)
        <4>1. tally' = NoTally /\ chosen' = 0  BY <2>1, <3>2 DEF Counted
        <4> QED  BY <2>4, <4>1, BalancerAssumption DEF NoTally
      <3> QED  BY <3>1, <3>2
    <2> QED  BY <2>2, <2>3, <2>4, <2>5
  <1>3. ASSUME NEW p \in Pickers, Connect(p) PROVE LbTypes'
    <2>1. load' \in [Endpoints -> 0 .. MaxLoad]
      <3>1. CASE UNCHANGED load  BY <3>1
      <3>2. ASSUME NEW e \in up, load[e] < MaxLoad, load' = [load EXCEPT ![e] = @ + 1]
            PROVE  load' \in [Endpoints -> 0 .. MaxLoad]
        BY <3>2, BalancerAssumption
      <3> QED  BY <1>3, <3>1, <3>2 DEF Connect
    <2>2. /\ DOMAIN pick' = Pickers /\ \A q \in Pickers : pick'[q].at \in {"idle", "select", "connect"}
          /\ \A q \in Pickers : pick'[q].at = "select" => 1 \in DOMAIN pick'[q].list
      BY <1>3 DEF Connect, NotPicking
    <2> QED  BY <1>3, <2>1, <2>2 DEF Connect
  <1>4. ASSUME NEW e \in Endpoints, HealthChanges(e) PROVE LbTypes'
    BY <1>4, BalancerAssumption DEF HealthChanges, NoTally
  <1>5. CASE UNCHANGED lb_vars
    BY <1>5 DEF lb_vars
  <1> QED  BY <1>1, <1>2, <1>3, <1>4, <1>5 DEF BalancerNext

\* A tally that starts again counts no ticket.
LEMMA TurnsReset ==
  ASSUME LbTypes, tally = NoTally, chosen = 0
  PROVE  Turns
  <1>0. ticket \in Nat /\ ticket - chosen = ticket
    BY BalancerAssumption DEF LbTypes, BalancerTypeOK
  <1>1. ASSUME NEW k \in 1 .. Cardinality(up)
        PROVE  tally[Healthy[k]] = Hits(ticket, Cardinality(up), k - 1, k)
                                      - Hits(ticket - chosen, Cardinality(up), k - 1, k)
    <2>1. up \subseteq Endpoints  BY DEF LbTypes, BalancerTypeOK
    <2>2. Cardinality(up) \in Nat /\ Healthy[k] \in Endpoints  BY <2>1, HealthyLists
    <2> DEFINE T == Cardinality(up)
    <2>3. T \in Nat /\ k \in 1 .. T  BY <2>2
    <2> HIDE DEF T
    <2>4. T \in Nat \ {0} /\ k - 1 \in 0 .. T /\ k \in 0 .. T /\ k - 1 <= k  BY <2>3
    <2>5. Hits(ticket, T, k - 1, k) \in Nat  BY <1>0, <2>4, HitsType
    <2>6. tally[Healthy[k]] = 0  BY <2>2 DEF NoTally
    <2> HIDE DEF Hits
    <2>7. 0 = Hits(ticket, T, k - 1, k) - Hits(ticket, T, k - 1, k)  BY <2>5
    <2> QED  BY <1>0, <2>6, <2>7 DEF T
  <1>2. ASSUME total_weight > 0, NEW e \in Endpoints
        PROVE  tally[e] = Hits(ticket, total_weight, Accumulated(e - 1), Accumulated(e))
                             - Hits(ticket - chosen, total_weight, Accumulated(e - 1), Accumulated(e))
    <2>1. total_weight \in Nat \ {0}  BY <1>2, WeightsAddUp
    <2>2. Hits(ticket, total_weight, Accumulated(e - 1), Accumulated(e)) \in Nat
      BY <1>0, <2>1, StretchOfWeight, HitsType
    <2>3. tally[e] = 0  BY DEF NoTally
    <2> QED  BY <1>0, <2>2, <2>3
  <1> QED  BY <1>1, <1>2 DEF Turns

\* One choice more from the same list, one ticket more.
LEMMA TurnsAdvance ==
  ASSUME LbTypes, LbTypes', Turns, NEW e, ticket' = ticket + 1, chosen' = chosen + 1,
         tally' = [tally EXCEPT ![e] = @ + 1], UNCHANGED <<strategy, up>>,
         strategy \in Counting => Cardinality(up) > 0 /\ e = Healthy[1 + (ticket % Cardinality(up))],
         strategy = "weighted" /\ up = Endpoints /\ total_weight > 0 => Weighted(Healthy) = {e}
  PROVE  Turns'
  <1>0. ticket \in Nat /\ chosen \in Nat /\ ticket' - chosen' = ticket - chosen /\ ticket - chosen \in Nat
    <2>1. ticket \in 0 .. Span - 1 /\ chosen \in 0 .. ticket  BY DEF LbTypes, BalancerTypeOK
    <2>2. Span \in Nat  BY BalancerAssumption
    <2>3. ticket \in Nat /\ chosen \in Nat /\ chosen <= ticket  BY <2>1, <2>2
    <2> QED  BY <2>3
  <1>1. up \subseteq Endpoints  BY DEF LbTypes, BalancerTypeOK
  <1>2. Healthy' = Healthy  BY DEF Healthy
  <1>3. ASSUME strategy \in Counting, NEW k \in 1 .. Cardinality(up)
        PROVE  tally'[Healthy[k]] = Hits(ticket', Cardinality(up), k - 1, k)
                                      - Hits(ticket' - chosen', Cardinality(up), k - 1, k)
    <2> DEFINE T == Cardinality(up)
    <2>1. T \in Nat /\ k \in 1 .. T /\ T > 0  BY <1>1, <1>3, HealthyLists
    <2>2. tally[Healthy[k]] = Hits(ticket, T, k - 1, k) - Hits(ticket - chosen, T, k - 1, k)
      BY <1>3 DEF Turns
    <2>3. /\ Healthy[k] \in Endpoints
          /\ \A i, j \in 1 .. T : Healthy[i] = Healthy[j] => i = j
      BY <1>1, HealthyLists
    <2>4. e = Healthy[1 + (ticket % T)]  BY <1>3
    <2> HIDE DEF T
    <2>5. T \in Nat \ {0} /\ k - 1 \in 0 .. T /\ k \in 0 .. T /\ k - 1 <= k  BY <2>1
    <2>6. ticket % T \in 0 .. T - 1 /\ 1 + (ticket % T) \in 1 .. T
      <3>1. ticket % T \in 0 .. T - 1  BY <1>0, <2>5, Remainder
      <3> QED  BY <2>5, <3>1
    <2>7. Hits(ticket + 1, T, k - 1, k) = Hits(ticket, T, k - 1, k)
              + (IF k - 1 <= ticket % T /\ ticket % T < k THEN 1 ELSE 0)
      BY <1>0, <2>5, NextHit
    <2>8. Healthy[k] = e <=> (k - 1 <= ticket % T /\ ticket % T < k)
      <3>1. Healthy[k] = e <=> k = 1 + (ticket % T)  BY <2>1, <2>3, <2>4, <2>6
      <3> QED  BY <2>1, <2>6, <3>1
    <2>9. tally[Healthy[k]] \in Nat /\ tally'[Healthy[k]] = tally[Healthy[k]] + (IF Healthy[k] = e THEN 1 ELSE 0)
      BY <2>3 DEF LbTypes
    <2>10. Hits(ticket, T, k - 1, k) \in Nat /\ Hits(ticket - chosen, T, k - 1, k) \in Nat
      BY <1>0, <2>5, HitsType
    <2> HIDE DEF Hits
    <2>11. tally'[Healthy[k]] = Hits(ticket + 1, T, k - 1, k) - Hits(ticket - chosen, T, k - 1, k)
      BY <2>2, <2>7, <2>8, <2>9, <2>10
    <2> QED  BY <1>0, <2>11 DEF T
  <1>4. ASSUME strategy = "weighted", up = Endpoints, total_weight > 0, NEW f \in Endpoints
        PROVE  tally'[f] = Hits(ticket', total_weight, Accumulated(f - 1), Accumulated(f))
                             - Hits(ticket' - chosen', total_weight, Accumulated(f - 1), Accumulated(f))
    <2> DEFINE T == total_weight
               a == Accumulated(f - 1)
               b == Accumulated(f)
    <2>1. tally[f] = Hits(ticket, T, a, b) - Hits(ticket - chosen, T, a, b)  BY <1>4 DEF Turns
    <2>2. Healthy = [k \in Endpoints |-> k]  BY <1>1, <1>4, HealthyLists
    <2>3. (a <= ticket % T /\ ticket % T < b) <=> f = e
      <3>1. Weighted(Healthy) = {e}  BY <1>4
      <3> QED  BY <1>0, <1>4, <2>2, <3>1, WeightedChoice
    <2>4. T \in Nat \ {0}  BY <1>4, WeightsAddUp
    <2>5. a \in 0 .. T /\ b \in 0 .. T /\ a <= b  BY StretchOfWeight
    <2>6. tally[f] \in Nat /\ tally'[f] = tally[f] + (IF f = e THEN 1 ELSE 0)
      BY DEF LbTypes
    <2> HIDE DEF T, a, b
    <2>7. Hits(ticket + 1, T, a, b) = Hits(ticket, T, a, b)
              + (IF a <= ticket % T /\ ticket % T < b THEN 1 ELSE 0)
      BY <1>0, <2>4, <2>5, NextHit
    <2>8. Hits(ticket, T, a, b) \in Nat /\ Hits(ticket - chosen, T, a, b) \in Nat
      BY <1>0, <2>4, <2>5, HitsType
    <2>9. tally'[f] = Hits(ticket + 1, T, a, b) - Hits(ticket - chosen, T, a, b)
      BY <2>1, <2>3, <2>6, <2>7, <2>8
    <2> QED  BY <1>0, <2>9 DEF T, a, b
  <1> QED  BY <1>2, <1>3, <1>4 DEF Turns

\* Every step keeps the tally the share of the tickets it has counted.
LEMMA TurnsStep == LbTypes /\ LbTypes' /\ Turns /\ [BalancerNext]_lb_vars => Turns'
  <1> SUFFICES ASSUME LbTypes, LbTypes', Turns, [BalancerNext]_lb_vars PROVE Turns'
    OBVIOUS
  <1>1. CASE UNCHANGED <<strategy, ticket, up, tally, chosen>>
    BY <1>1 DEF Turns, Healthy
  <1>2. CASE tally' = NoTally /\ chosen' = 0
    <2>1. LbTypes' /\ (tally = NoTally)' /\ (chosen = 0)'  BY <1>2 DEF NoTally
    <2> QED  BY <2>1, TurnsReset, PTL
  <1>3. ASSUME NEW p \in Pickers, Select(p) PROVE Turns'
    <2>1. PICK e \in MayReturn(pick[p].list) :
             /\ IF e = 0 THEN UNCHANGED ticket ELSE CountUp
             /\ Counted(pick[p].list, e)
      BY <1>3 DEF Select
    <2>2. CASE ~ (pick[p].list = Healthy /\ ticket' > ticket)
      BY <1>2, <2>1, <2>2 DEF Counted
    <2>3. CASE pick[p].list = Healthy /\ ticket' > ticket
      <3>1. tally' = [tally EXCEPT ![e] = @ + 1] /\ chosen' = chosen + 1
        BY <2>1, <2>3 DEF Counted
      <3>2. UNCHANGED <<strategy, up>>  BY <1>3 DEF Select
      <3>3. ticket' = (ticket + 1) % Span /\ ticket \in 0 .. Span - 1
        BY <2>1, <2>3, BalancerAssumption DEF CountUp, LbTypes, BalancerTypeOK
      <3>4. ticket' = ticket + 1
        BY <2>3, <3>3, BalancerAssumption
      <3>5. strategy \in Counting => Cardinality(up) > 0 /\ e = Healthy[1 + (ticket % Cardinality(up))]
        <4> SUFFICES ASSUME strategy \in Counting
                     PROVE  Cardinality(up) > 0 /\ e = Healthy[1 + (ticket % Cardinality(up))]
          OBVIOUS
        <4>1. up \subseteq Endpoints  BY DEF LbTypes, BalancerTypeOK
        <4>2. Len(Healthy) = Cardinality(up)  BY <4>1, HealthyLists
        <4>3. e = Healthy[1 + (ticket % Cardinality(up))]
          BY <2>1, <2>3, <4>2 DEF MayReturn, RoundRobin, Counting
        <4>4. 1 \in 1 .. Cardinality(up) /\ Cardinality(up) \in Nat
          BY <1>3, <2>3, <4>1, HealthyLists DEF LbTypes, Select
        <4> QED  BY <4>3, <4>4
      <3>6. strategy = "weighted" /\ up = Endpoints /\ total_weight > 0 => Weighted(Healthy) = {e}
        <4> SUFFICES ASSUME strategy = "weighted", total_weight > 0 PROVE Weighted(Healthy) = {e}
          OBVIOUS
        <4>1. e \in Weighted(Healthy)
          BY <2>1, <2>3, WeightsAddUp DEF MayReturn, Counting
        <4> QED  BY <4>1 DEF Weighted
      <3> QED  BY <3>1, <3>2, <3>4, <3>5, <3>6, TurnsAdvance
    <2> QED  BY <2>2, <2>3
  <1> QED  BY <1>1, <1>2, <1>3 DEF BalancerNext, ListHealthy, Connect, HealthChanges, lb_vars

\* Cross-multiplied, a ratio no more than a second that is no more than a third is no more
\* than the third.
LEMMA RatioTransitive ==
  ASSUME NEW a \in Nat, NEW b \in Nat, NEW c \in Nat,
         NEW u \in Nat \ {0}, NEW v \in Nat \ {0}, NEW w \in Nat \ {0},
         a * v <= b * u, b * w <= c * v
  PROVE  a * w <= c * u
  <1>1. (a * v) * w <= (b * u) * w  BY TimesMonotone
  <1>2. (b * w) * u <= (c * v) * u  BY TimesMonotone
  <1>3. (b * u) * w = (b * w) * u /\ (a * v) * w = (a * w) * v /\ (c * v) * u = (c * u) * v
    OBVIOUS
  <1> DEFINE x == a * w
             y == c * u
  <1>4. x \in Nat /\ y \in Nat /\ x * v <= y * v
    <2>1. x \in Nat /\ y \in Nat  OBVIOUS
    <2>2. (a * v) * w \in Int /\ (b * u) * w \in Int /\ (c * v) * u \in Int  OBVIOUS
    <2> QED  BY <1>1, <1>2, <1>3, <2>1, <2>2
  <1> HIDE DEF x, y
  <1>5. x <= y
    <2> SUFFICES ASSUME y < x PROVE FALSE
      BY <1>4
    <2>1. (y + 1) * v <= x * v  BY <1>4, TimesMonotone
    <2>2. (y + 1) * v = y * v + v /\ y * v \in Int /\ x * v \in Int  BY <1>4
    <2> QED  BY <1>4, <2>1, <2>2
  <1> QED  BY <1>5 DEF x, y

\* Among finitely many ratios there is one that is no more than any.
LEMMA LeastRatio ==
  ASSUME NEW N \in Nat \ {0}, NEW x \in [1 .. N -> Nat], NEW w \in [1 .. N -> Nat \ {0}]
  PROVE  \E i \in 1 .. N : \A j \in 1 .. N : x[i] * w[j] <= x[j] * w[i]
  <1> DEFINE Good(n) == \E i \in 1 .. n : \A j \in 1 .. n : x[i] * w[j] <= x[j] * w[i]
             Bad == {n \in 1 .. N : ~ Good(n)}
  <1> SUFFICES ASSUME Bad # {} PROVE FALSE
    <2>1. N \in 1 .. N  OBVIOUS
    <2>2. ASSUME Good(N) PROVE \E i \in 1 .. N : \A j \in 1 .. N : x[i] * w[j] <= x[j] * w[i]
      BY <2>2
    <2>3. ASSUME Bad = {} PROVE Good(N)
      <3> HIDE DEF Good
      <3> QED  BY <2>1, <2>3
    <2> HIDE DEF Good, Bad
    <2> QED  BY <2>2, <2>3
  <1>1. PICK n \in Bad : \A m \in Bad : n <= m
    <2>1. Bad \in SUBSET Nat  OBVIOUS
    <2> HIDE DEF Bad
    <2> QED  BY <2>1, HasLeast
  <1>2. n # 1
    <2>1. x[1] * w[1] <= x[1] * w[1]  OBVIOUS
    <2>2. Good(1)  BY <2>1
    <2> HIDE DEF Good
    <2> QED  BY <2>2
  <1>3. n \in 2 .. N /\ n - 1 \in 1 .. N  BY <1>2
  <1>4. n - 1 \notin Bad
    <2> HIDE DEF Bad
    <2> QED  BY <1>1, <1>3
  <1>5. PICK i \in 1 .. n - 1 : \A j \in 1 .. n - 1 : x[i] * w[j] <= x[j] * w[i]
    BY <1>3, <1>4
  <1>6. \A j \in 1 .. n : x[j] \in Nat /\ w[j] \in Nat \ {0}  BY <1>3
  <1>7. i \in 1 .. n /\ n \in 1 .. n  BY <1>3
  <1>8. CASE x[i] * w[n] <= x[n] * w[i]
    <2>1. \A j \in 1 .. n : x[i] * w[j] <= x[j] * w[i]
      <3> TAKE j \in 1 .. n
      <3>1. j = n \/ j \in 1 .. n - 1  BY <1>3
      <3> QED  BY <1>5, <1>8, <3>1
    <2>2. Good(n)  BY <1>7, <2>1
    <2> HIDE DEF Good
    <2> QED  BY <2>2
  <1>9. CASE ~ (x[i] * w[n] <= x[n] * w[i])
    <2>1. x[n] * w[i] <= x[i] * w[n]
      <3>1. x[n] * w[i] \in Nat /\ x[i] * w[n] \in Nat  BY <1>6, <1>7, NatTimes
      <3> QED  BY <1>9, <3>1
    <2>2. \A j \in 1 .. n : x[n] * w[j] <= x[j] * w[n]
      <3> TAKE j \in 1 .. n
      <3>1. j = n \/ j \in 1 .. n - 1  BY <1>3
      <3>2. CASE j = n
        <4>1. x[n] * w[n] \in Nat  BY <1>6, <1>7, NatTimes
        <4> QED  BY <3>2, <4>1
      <3>3. CASE j \in 1 .. n - 1
        <4>1. x[i] * w[j] <= x[j] * w[i]  BY <1>5, <3>3
        <4> QED  BY <1>6, <1>7, <2>1, <4>1, RatioTransitive
      <3> QED  BY <3>1, <3>2, <3>3
    <2>3. Good(n)  BY <1>7, <2>2
    <2> HIDE DEF Good
    <2> QED  BY <2>3
  <1> QED  BY <1>8, <1>9

\* The weight that loads are compared by is never zero.
LEMMA ConnWeightType ==
  ASSUME NEW e \in Endpoints PROVE ConnWeight(e) \in Nat \ {0}
  BY EndpointNumbers DEF ConnWeight, WeightFromOne

\* From the list of all endpoints, the strategies that look at the connections choose one
\* whose load is no more than its share of any other's.
LEMMA LeastLoaded ==
  ASSUME LbTypes, strategy \in {"least_conn", "weighted_least_conn"}, Endpoints # {},
         NEW list, list = [k \in Endpoints |-> k], NEW e \in MayReturn(list)
  PROVE  e \in Endpoints /\ \A f \in Endpoints : load[e] * ConnWeight(f) <= load[f] * ConnWeight(e)
  <1> DEFINE N == Len(Weights)
             w == [k \in Endpoints |-> ConnWeight(k)]
             least == {i \in DOMAIN list : \A j \in DOMAIN list : load[i] * w[j] <= load[j] * w[i]}
  <1>1. N \in Nat \ {0} /\ Endpoints = 1 .. N  BY EndpointNumbers
  <1>2. load \in [1 .. N -> Nat] /\ w \in [1 .. N -> Nat \ {0}]
    BY <1>1, ConnWeightType, BalancerAssumption DEF LbTypes, BalancerTypeOK
  <1>3. \E i \in 1 .. N : \A j \in 1 .. N : load[i] * w[j] <= load[j] * w[i]
    <2> HIDE DEF w, N
    <2> QED  BY <1>1, <1>2, LeastRatio
  <1>4. least \in SUBSET Nat /\ least # {}
    <2> HIDE DEF w, N
    <2> QED  BY <1>1, <1>3
  <1>5. MayReturn(list) = {list[Min(least)]}
    <2>1. CASE strategy = "least_conn"
      <3>1. least = {i \in DOMAIN list : \A j \in DOMAIN list : load[list[i]] <= load[list[j]]}
        <4>1. \A i \in Endpoints : w[i] = 1 /\ load[i] \in Nat  BY <2>1, <1>1, <1>2 DEF ConnWeight
        <4>2. \A i, j \in Endpoints : load[i] * w[j] <= load[j] * w[i] <=> load[list[i]] <= load[list[j]]
          BY <4>1
        <4> HIDE DEF w
        <4> QED  BY <4>2
      <3>2. MayReturn(list) = LeastConnections(list)  BY <2>1 DEF MayReturn, Counting
      <3> QED  BY <3>1, <3>2 DEF LeastConnections, FirstLeast
    <2>2. CASE strategy = "weighted_least_conn"
      <3>1. least = {i \in DOMAIN list : \A j \in DOMAIN list :
                        load[list[i]] * WeightFromOne(j) <= load[list[j]] * WeightFromOne(i)}
        BY <2>2 DEF ConnWeight
      <3>2. MayReturn(list) = WeightedLeastConn(list)  BY <2>2 DEF MayReturn, Counting
      <3> QED  BY <3>1, <3>2 DEF WeightedLeastConn, FirstLeast
    <2> QED  BY <2>1, <2>2
  <1> DEFINE m == Min(least)
  <1>6. m \in least
    <2> HIDE DEF least
    <2> QED  BY <1>4, MinIsLeast
  <1>7. e = list[m]  BY <1>5
  <1> HIDE DEF m
  <1>8. m \in Endpoints /\ \A j \in Endpoints : load[m] * w[j] <= load[j] * w[m]  BY <1>6
  <1>9. e = m  BY <1>7, <1>8
  <1> QED  BY <1>8, <1>9

\* The callers that are on their way to an endpoint can be counted.
LEMMA PendingCounts ==
  ASSUME NEW e
  PROVE  /\ IsFiniteSet(Pending(e)) /\ Cardinality(Pending(e)) \in Nat /\ Cardinality(Pickers) \in Nat
         /\ Cardinality(Pending(e)) <= Cardinality(Pickers)
  <1>1. IsFiniteSet(Pickers)  BY BalancerAssumption
  <1>2. Pending(e) \in SUBSET Pickers  BY DEF Pending
  <1> QED  BY <1>1, <1>2, FS_Subset, FS_CardinalityType

\* The pair that Levelled speaks of.
LevelPair(e, f) ==
    \/ load[f] = MaxLoad
    \/ (load[e] + Cardinality(Pending(e))) * ConnWeight(f)
           <= load[f] * ConnWeight(e) + Cardinality(Pickers) * ConnWeight(f)

\* A choice of the least loaded endpoint keeps the loads level.
LEMMA LevelledSelect ==
  ASSUME LbTypes, LbTypes', Levelled, level, strategy \in {"least_conn", "weighted_least_conn"},
         NEW p \in Pickers, Select(p), NEW a \in Endpoints, NEW f \in Endpoints
  PROVE  LevelPair(a, f)'
  <1>1. PICK e \in MayReturn(pick[p].list) :
           pick' = [pick EXCEPT ![p] = IF e = 0 THEN NotPicking
                                       ELSE [at |-> "connect", list |-> <<>>, got |-> e]]
    BY DEF Select
  <1>2. UNCHANGED <<strategy, up, load, level>> /\ pick[p].at = "select"  BY DEF Select
  <1>3. Endpoints # {} /\ pick[p].list = [k \in Endpoints |-> k]  BY <1>2 DEF Levelled, LbTypes
  <1>4. e \in Endpoints /\ load[e] * ConnWeight(f) <= load[f] * ConnWeight(e)
    BY <1>3, LeastLoaded
  <1>5. e # 0  BY <1>4, EndpointNumbers
  <1>6. CASE a # e
    <2>1. Pending(a)' = Pending(a)
      BY <1>1, <1>2, <1>5, <1>6 DEF Pending, LbTypes
    <2>2. LevelPair(a, f)  BY DEF Levelled, LevelPair
    <2> QED  BY <1>2, <2>1, <2>2 DEF LevelPair, ConnWeight
  <1>7. CASE a = e
    <2> DEFINE C == Cardinality(Pickers)
               P == Cardinality(Pending(a)')
               x == load[a]
               y == load[f]
               v == ConnWeight(f)
               u == ConnWeight(a)
    <2>1. P \in Nat /\ C \in Nat /\ P <= C
      <3>1. Pending(a)' \in SUBSET Pickers  BY DEF Pending
      <3> QED  BY <3>1, BalancerAssumption, FS_Subset, FS_CardinalityType
    <2>2. x \in Nat /\ y \in Nat  BY BalancerAssumption DEF LbTypes, BalancerTypeOK
    <2>3. u \in Nat \ {0} /\ v \in Nat \ {0}  BY ConnWeightType
    <2>4. x * v <= y * u  BY <1>4, <1>7
    <2> HIDE DEF C, P, x, y, u, v
    <2>5. P * v <= C * v  BY <2>1, <2>3, TimesMonotone
    <2>6. (x + P) * v = x * v + P * v /\ x * v \in Int /\ P * v \in Int /\ y * u \in Int /\ C * v \in Int
      BY <2>1, <2>2, <2>3
    <2>7. (x + P) * v <= y * u + C * v  BY <2>4, <2>5, <2>6
    <2> QED  BY <1>2, <2>7 DEF LevelPair, ConnWeight, C, P, x, y, u, v
  <1> QED  BY <1>6, <1>7

\* Connecting, or failing to, keeps the loads level.
LEMMA LevelledConnect ==
  ASSUME LbTypes, LbTypes', Levelled, level, strategy \in {"least_conn", "weighted_least_conn"},
         NEW p \in Pickers, Connect(p), NEW a \in Endpoints, NEW f \in Endpoints
  PROVE  LevelPair(a, f)'
  <1> DEFINE g == pick[p].got
             C == Cardinality(Pickers)
             P == Cardinality(Pending(a))
             Q == Cardinality(Pending(a)')
             x == load[a]
             y == load[f]
             v == ConnWeight(f)
             u == ConnWeight(a)
  <1>1. UNCHANGED <<strategy, up, level>> /\ pick[p].at = "connect" /\ pick' = [pick EXCEPT ![p] = NotPicking]
    BY DEF Connect
  <1>2. Pending(a)' = Pending(a) \ {p}
    BY <1>1 DEF Pending, LbTypes, NotPicking
  <1>3. P \in Nat /\ C \in Nat /\ Q = IF p \in Pending(a) THEN P - 1 ELSE P
    BY <1>2, PendingCounts, FS_RemoveElement
  <1>4. p \in Pending(a) <=> a = g  BY <1>1 DEF Pending
  <1>5. x \in Nat /\ y \in Nat  BY BalancerAssumption DEF LbTypes, BalancerTypeOK
  <1>6. u \in Nat \ {0} /\ v \in Nat \ {0}  BY ConnWeightType
  <1>7. y = MaxLoad \/ (x + P) * v <= y * u + C * v  BY DEF Levelled
  <1>8. u' = u /\ v' = v  BY <1>1 DEF ConnWeight
  <1>9. LevelPair(a, f)' <=> (load'[f] = MaxLoad \/ (load'[a] + Q) * v <= load'[f] * u + C * v)
    BY <1>8 DEF LevelPair
  <1>10. Q \in Nat /\ Q <= P
    <2>1. Q \in Nat
      <3>1. Pending(a)' \in SUBSET Pickers  BY DEF Pending
      <3> QED  BY <3>1, BalancerAssumption, FS_Subset, FS_CardinalityType
    <2> HIDE DEF P, Q
    <2> QED  BY <1>3, <2>1
  <1>11. CASE UNCHANGED load
    <2>1. load'[a] = x /\ load'[f] = y  BY <1>11
    <2> HIDE DEF C, P, Q, x, y, u, v
    <2>2. x + Q <= x + P /\ x + Q \in Int /\ x + P \in Int  BY <1>3, <1>5, <1>10
    <2>3. (x + Q) * v <= (x + P) * v  BY <2>2, <1>6, TimesMonotone
    <2>4. (x + Q) * v \in Int /\ (x + P) * v \in Int /\ y * u \in Int /\ C * v \in Int
      BY <1>3, <1>5, <1>6, <1>10
    <2>5. y = MaxLoad \/ (x + Q) * v <= y * u + C * v  BY <1>7, <2>3, <2>4
    <2> QED  BY <1>9, <2>1, <2>5
  <1>12. CASE g \in up /\ load[g] < MaxLoad /\ load' = [load EXCEPT ![g] = @ + 1]
    <2>1. load'[a] = (IF a = g THEN x + 1 ELSE x) /\ load'[f] = IF f = g THEN y + 1 ELSE y
      BY <1>12 DEF LbTypes, BalancerTypeOK
    <2>2. f = g => y # MaxLoad  BY <1>12, BalancerAssumption DEF LbTypes, BalancerTypeOK
    <2> DEFINE xx == load'[a]
               yy == load'[f]
    <2>3. Q = IF a = g THEN P - 1 ELSE P  BY <1>3, <1>4
    <2> HIDE DEF g, C, P, Q, x, y, u, v, xx, yy
    <2>4. xx + Q = x + P /\ yy \in Nat /\ y <= yy /\ xx + Q \in Int
      BY <1>3, <1>5, <1>10, <2>1, <2>3 DEF xx, yy
    <2>5. y * u <= yy * u  BY <1>5, <1>6, <2>4, TimesMonotone
    <2>6. (x + P) * v \in Int /\ y * u \in Int /\ yy * u \in Int /\ C * v \in Int
      BY <1>3, <1>5, <1>6, <2>4
    <2>7. (x + P) * v <= y * u + C * v => (xx + Q) * v <= yy * u + C * v
      BY <2>4, <2>5, <2>6
    <2>8. y = MaxLoad => yy = MaxLoad  BY <2>1, <2>2 DEF yy
    <2> QED  BY <1>7, <1>9, <2>7, <2>8 DEF xx, yy
  <1> QED  BY <1>11, <1>12 DEF Connect

\* Every step keeps the loads level while no endpoint has been lost.
LEMMA LevelledStep == LbTypes /\ LbTypes' /\ Levelled /\ [BalancerNext]_lb_vars => Levelled'
  <1> SUFFICES ASSUME LbTypes, LbTypes', Levelled, [BalancerNext]_lb_vars,
                      level', strategy' \in {"least_conn", "weighted_least_conn"}
               PROVE  /\ up' = Endpoints
                      /\ \A p \in Pickers : pick'[p].at = "select" => pick'[p].list = [k \in Endpoints |-> k]
                      /\ \A e, f \in Endpoints : LevelPair(e, f)'
    BY DEF Levelled, LevelPair
  <1> DEFINE Goal == /\ up' = Endpoints
                     /\ \A p \in Pickers : pick'[p].at = "select" => pick'[p].list = [k \in Endpoints |-> k]
                     /\ \A e, f \in Endpoints : LevelPair(e, f)'
  <1>0. ASSUME UNCHANGED <<strategy, level, up>>
        PROVE  /\ level /\ strategy \in {"least_conn", "weighted_least_conn"} /\ up' = Endpoints /\ up = Endpoints
               /\ \A p \in Pickers : pick[p].at = "select" => pick[p].list = [k \in Endpoints |-> k]
               /\ \A e, f \in Endpoints : LevelPair(e, f)
    BY <1>0 DEF Levelled, LevelPair
  <1>1. ASSUME NEW p \in Pickers, ListHealthy(p) PROVE Goal
    <2>1. UNCHANGED <<strategy, level, up, load>>  BY <1>1 DEF ListHealthy
    <2>2. Healthy = [k \in Endpoints |-> k]  BY <1>0, <2>1, HealthyLists DEF LbTypes, BalancerTypeOK
    <2>3. pick' = [pick EXCEPT ![p] = [at |-> "select", list |-> Healthy, got |-> 0]] /\ pick[p].at = "idle"
      BY <1>1 DEF ListHealthy
    <2>4. \A q \in Pickers : pick'[q].at = "select" => pick'[q].list = [k \in Endpoints |-> k]
      BY <1>0, <2>1, <2>2, <2>3 DEF LbTypes
    <2>5. \A e \in Endpoints : Pending(e)' = Pending(e)  BY <2>3 DEF Pending, LbTypes
    <2>6. \A e, f \in Endpoints : LevelPair(e, f)'
      BY <1>0, <2>1, <2>5 DEF LevelPair, ConnWeight
    <2> QED  BY <1>0, <2>1, <2>4, <2>6
  <1>2. ASSUME NEW p \in Pickers, Select(p) PROVE Goal
    <2>1. UNCHANGED <<strategy, level, up, load>>  BY <1>2 DEF Select
    <2>2. \A e, f \in Endpoints : LevelPair(e, f)'  BY <1>0, <1>2, <2>1, LevelledSelect
    <2>3. PICK e : pick' = [pick EXCEPT ![p] = IF e = 0 THEN NotPicking
                                               ELSE [at |-> "connect", list |-> <<>>, got |-> e]]
      BY <1>2 DEF Select
    <2> DEFINE r == IF e = 0 THEN NotPicking ELSE [at |-> "connect", list |-> <<>>, got |-> e]
    <2>5. pick' = [pick EXCEPT ![p] = r] /\ r.at # "select"  BY <2>3 DEF NotPicking
    <2> HIDE DEF r
    <2>4. \A q \in Pickers : pick'[q].at = "select" => pick'[q].list = [k \in Endpoints |-> k]
      <3> TAKE q \in Pickers
      <3>1. CASE q = p  BY <2>5, <3>1 DEF LbTypes
      <3>2. CASE q # p  BY <1>0, <2>1, <2>5, <3>2 DEF LbTypes
      <3> QED  BY <3>1, <3>2
    <2> QED  BY <1>0, <2>1, <2>2, <2>4
  <1>3. ASSUME NEW p \in Pickers, Connect(p) PROVE Goal
    <2>1. UNCHANGED <<strategy, level, up>>  BY <1>3 DEF Connect
    <2>2. \A e, f \in Endpoints : LevelPair(e, f)'  BY <1>0, <1>3, <2>1, LevelledConnect
    <2>3. \A q \in Pickers : pick'[q].at = "select" => pick'[q].list = [k \in Endpoints |-> k]
      BY <1>0, <1>3, <2>1 DEF LbTypes, NotPicking, Connect
    <2> QED  BY <1>0, <2>1, <2>2, <2>3
  <1>4. ASSUME NEW e \in Endpoints, HealthChanges(e) PROVE Goal
    BY <1>4 DEF HealthChanges
  <1>5. CASE UNCHANGED lb_vars
    <2>1. UNCHANGED <<strategy, level, up, load, pick>>  BY <1>5 DEF lb_vars
    <2>2. \A e, f \in Endpoints : LevelPair(e, f)'
      BY <1>0, <2>1 DEF LevelPair, ConnWeight, Pending
    <2> QED  BY <1>0, <2>1, <2>2
  <1> QED  BY <1>1, <1>2, <1>3, <1>4, <1>5 DEF BalancerNext

\* The balancer's inductive invariant holds at first and after every step.
LEMMA BalancerInductive ==
  /\ BalancerInit => BalancerInv
  /\ BalancerInv /\ [BalancerNext]_lb_vars => BalancerInv'
  <1>1. ASSUME BalancerInit PROVE BalancerInv
    <2>1. LbTypes  BY <1>1, BalancerStarts
    <2>2. tally = NoTally /\ chosen = 0  BY <1>1 DEF BalancerInit
    <2>3. Turns  BY <2>1, <2>2, TurnsReset
    <2>4. up = Endpoints /\ \A p \in Pickers : pick[p].at = "idle"  BY <1>1 DEF BalancerInit, NotPicking
    <2>5. ASSUME NEW e \in Endpoints, NEW f \in Endpoints PROVE LevelPair(e, f)
      <3>1. Pending(e) = {}  BY <2>4 DEF Pending
      <3>2. Cardinality(Pending(e)) = 0  BY <3>1, FS_EmptySet
      <3>3. load[e] = 0 /\ load[f] = 0  BY <1>1 DEF BalancerInit
      <3>4. Cardinality(Pickers) \in Nat  BY PendingCounts
      <3>5. ConnWeight(e) \in Nat /\ ConnWeight(f) \in Nat  BY ConnWeightType
      <3>6. Cardinality(Pickers) * ConnWeight(f) \in Nat  BY <3>4, <3>5, NatTimes
      <3> QED  BY <3>2, <3>3, <3>5, <3>6 DEF LevelPair
    <2>6. Levelled  BY <2>4, <2>5 DEF Levelled, LevelPair
    <2> QED  BY <2>1, <2>3, <2>6 DEF BalancerInv
  <1>2. ASSUME BalancerInv, [BalancerNext]_lb_vars PROVE BalancerInv'
    <2>1. LbTypes'  BY <1>2, LbTypesStep DEF BalancerInv
    <2>2. Turns'  BY <1>2, <2>1, TurnsStep DEF BalancerInv
    <2>3. Levelled'  BY <1>2, <2>1, LevelledStep DEF BalancerInv
    <2> QED  BY <2>1, <2>2, <2>3 DEF BalancerInv
  <1> QED  BY <1>1, <1>2

\* Shares of the last tickets are fair shares.
LEMMA TurnsAreFair == LbTypes /\ Turns => FairShares
  <1> SUFFICES ASSUME LbTypes, Turns PROVE FairShares
    OBVIOUS
  <1>1. ticket \in Nat /\ chosen \in Nat /\ ticket - chosen \in Nat /\ (ticket - chosen) + chosen = ticket
    BY BalancerAssumption DEF LbTypes, BalancerTypeOK
  <1>2. up \subseteq Endpoints  BY DEF LbTypes, BalancerTypeOK
  <1>3. ASSUME strategy = "round_robin", up # {}, NEW e \in up
        PROVE  tally[e] \in Rounds(Cardinality(up)) .. RoundsBegun(Cardinality(up))
    <2> DEFINE T == Cardinality(up)
    <2>1. T \in Nat /\ T # 0  BY <1>2, <1>3, HealthyLists, FS_EmptySet
    <2>2. PICK k \in 1 .. T : Healthy[k] = e  BY <1>2, HealthyLists
    <2>3. tally[e] = Hits(ticket, T, k - 1, k) - Hits(ticket - chosen, T, k - 1, k)
      BY <1>3, <2>2 DEF Turns, Counting
    <2> HIDE DEF T
    <2>4. T \in Nat \ {0} /\ k - 1 \in 0 .. T /\ k \in 0 .. T /\ k - 1 <= k /\ k - (k - 1) = 1  BY <2>1
    <2> DEFINE s == ticket - chosen
    <2>5. s \in Nat /\ s + chosen = ticket  BY <1>1
    <2> HIDE DEF s
    <2>6. Hits(s + chosen, T, k - 1, k) - Hits(s, T, k - 1, k)
              \in (chosen \div T) * (k - (k - 1)) .. ((chosen + T - 1) \div T) * (k - (k - 1))
      BY <1>1, <2>4, <2>5, HitsInARow
    <2>7. chosen \div T \in Int /\ (chosen + T - 1) \div T \in Int
      <3>1. chosen + T - 1 \in Nat  BY <1>1, <2>4
      <3> QED  BY <1>1, <2>4, <3>1, Remainder
    <2>8. (chosen \div T) * (k - (k - 1)) = chosen \div T
          /\ ((chosen + T - 1) \div T) * (k - (k - 1)) = (chosen + T - 1) \div T
      <3> HIDE DEF Hits
      <3>1. \A i \in Int : i * 1 = i  OBVIOUS
      <3> QED  BY <2>4, <2>7, <3>1
    <2>9. tally[e] \in chosen \div T .. (chosen + T - 1) \div T
      BY <2>3, <2>5, <2>6, <2>8 DEF s
    <2> QED  BY <2>9 DEF Rounds, RoundsBegun, T
  <1>4. ASSUME strategy = "weighted", up = Endpoints, total_weight > 0, NEW e \in up
        PROVE  tally[e] \in (Rounds(total_weight) * Weights[e]) .. (RoundsBegun(total_weight) * Weights[e])
    <2> DEFINE T == total_weight
               a == Accumulated(e - 1)
               b == Accumulated(e)
               s == ticket - chosen
    <2>1. tally[e] = Hits(ticket, T, a, b) - Hits(s, T, a, b)  BY <1>4 DEF Turns
    <2>2. T \in Nat \ {0}  BY <1>4, WeightsAddUp
    <2>3. a \in 0 .. T /\ b \in 0 .. T /\ a <= b /\ b - a = Weights[e]  BY <1>4, StretchOfWeight
    <2>4. s \in Nat /\ s + chosen = ticket  BY <1>1
    <2> HIDE DEF T, a, b, s
    <2>5. Hits(s + chosen, T, a, b) - Hits(s, T, a, b)
              \in (chosen \div T) * (b - a) .. ((chosen + T - 1) \div T) * (b - a)
      BY <1>1, <2>2, <2>3, <2>4, HitsInARow
    <2>6. tally[e] \in (chosen \div T) * Weights[e] .. ((chosen + T - 1) \div T) * Weights[e]
      BY <2>1, <2>3, <2>4, <2>5
    <2> QED  BY <2>6 DEF Rounds, RoundsBegun, T
  <1> QED  BY <1>3, <1>4 DEF FairShares

\* Connections under way only make the loads more level than they need to be.
LEMMA LevelledIsLevel == LbTypes /\ Levelled => LevelLoads
  <1> SUFFICES ASSUME LbTypes, Levelled, level, strategy \in {"least_conn", "weighted_least_conn"},
                      NEW e \in Endpoints, NEW f \in Endpoints
               PROVE  \/ load[f] = MaxLoad
                      \/ load[e] * ConnWeight(f) <= load[f] * ConnWeight(e) + Cardinality(Pickers) * ConnWeight(f)
    BY DEF LevelLoads, ConnWeight
  <1> DEFINE P == Cardinality(Pending(e))
             C == Cardinality(Pickers)
             x == load[e]
             y == load[f]
             v == ConnWeight(f)
             u == ConnWeight(e)
  <1>1. y = MaxLoad \/ (x + P) * v <= y * u + C * v  BY DEF Levelled
  <1>2. P \in Nat /\ C \in Nat  BY PendingCounts
  <1>3. x \in Nat /\ y \in Nat  BY BalancerAssumption DEF LbTypes, BalancerTypeOK
  <1>4. u \in Nat /\ v \in Nat  BY ConnWeightType
  <1> HIDE DEF P, C, x, y, u, v
  <1>5. x * v <= (x + P) * v
    <2>1. x <= x + P /\ x + P \in Int  BY <1>2, <1>3
    <2> QED  BY <2>1, <1>3, <1>4, TimesMonotone
  <1>6. x * v \in Int /\ (x + P) * v \in Int /\ y * u \in Int /\ C * v \in Int  BY <1>2, <1>3, <1>4
  <1>7. y = MaxLoad \/ x * v <= y * u + C * v  BY <1>1, <1>5, <1>6
  <1> QED  BY <1>7 DEF C, x, y, u, v

\* Every reachable state of a balancer satisfies its inductive invariant, types included.
THEOREM BalancerInvariant == BalancerSpec => []BalancerInv
  BY BalancerInductive, PTL DEF BalancerSpec

\* The variables of the load balancers have their types.
THEOREM BalancerTyped == BalancerSpec => []BalancerTypeOK
  <1>1. BalancerInv => BalancerTypeOK  BY DEF BalancerInv, LbTypes
  <1> QED  BY <1>1, BalancerInvariant, PTL


\* For any endpoints, weights and number of callers: choices by the counter are spread
\* exactly by weight, and loads kept level up to one for each caller on its way
\* (RoundRobin, Weighted, LeastConnections, WeightedLeastConn).
THEOREM SpreadAsPromised == BalancerSpec => []ChoicesSpread
  <1>1. BalancerInv => ChoicesSpread
    BY TurnsAreFair, LevelledIsLevel DEF BalancerInv, ChoicesSpread
  <1> QED  BY <1>1, BalancerInvariant, PTL

---------------------------------------------------------------------------
(* Weighted splits *)

\* A list of clusters, each with its weight.
IsSplit(split) ==
    /\ split \in Seq(Range(split))
    /\ \A k \in DOMAIN split : split[k].weight \in Nat

\* The weights of a split, and those of one cluster, as lists of numbers.
LEMMA SharesAreNumbers ==
  ASSUME NEW split, IsSplit(split), NEW c
  PROVE  LET N == Len(split) IN
         /\ N \in Nat /\ DOMAIN split = 1 .. N
         /\ Shares(split) \in [1 .. N -> Nat] /\ Len(Shares(split)) = N
         /\ SharesOf(split, c) \in [1 .. N -> Nat] /\ Len(SharesOf(split, c)) = N
  <1> DEFINE N == Len(split)
  <1>1. N \in Nat /\ DOMAIN split = 1 .. N  BY DEF IsSplit
  <1>2. Shares(split) \in [1 .. N -> Nat]  BY <1>1 DEF IsSplit, Shares
  <1>3. SharesOf(split, c) \in [1 .. N -> Nat]  BY <1>1 DEF IsSplit, SharesOf
  <1> HIDE DEF N
  <1>4. Len(Shares(split)) = N /\ Len(SharesOf(split, c)) = N  BY <1>1, <1>2, <1>3
  <1> QED  BY <1>1, <1>2, <1>3, <1>4 DEF N

\* The choice of a split: the cluster of the part in whose stretch of the total the count lies.
LEMMA SplitChoice ==
  ASSUME NEW split, IsSplit(split), SplitTotal(split) > 0, NEW n \in Nat,
         NEW k \in 1 .. Len(split),
         Cumulative(split, k - 1) <= n % SplitTotal(split), n % SplitTotal(split) < Cumulative(split, k)
  PROVE  SplitSelect(split, n) = split[k].cluster
  <1> DEFINE s == Shares(split)
             N == Len(split)
             r == n % SplitTotal(split)
  <1>1. N \in Nat /\ DOMAIN split = 1 .. N /\ s \in [1 .. N -> Nat] /\ Len(s) = N
    BY SharesAreNumbers
  <1>2. SplitTotal(split) \in Nat /\ SplitTotal(split) = Total(s)
    <2>1. RunningTotal(s) \in [0 .. N -> Nat]  BY <1>1, RunningTotals
    <2>2. N \in 0 .. N  BY <1>1
    <2> QED  BY <1>1, <2>1, <2>2 DEF SplitTotal, Total
  <1>3. r \in Nat /\ r < Total(s)
    <2>1. SplitTotal(split) \in Nat \ {0}  BY <1>2
    <2>2. r \in 0 .. SplitTotal(split) - 1  BY <2>1, Remainder
    <2> HIDE DEF r
    <2> QED  BY <1>2, <2>1, <2>2
  <1>4. RunningTotal(s)[k - 1] <= r /\ r < RunningTotal(s)[k]  BY DEF Cumulative
  <1>5. SplitSelect(split, n) = split[FirstReached(s, r)].cluster
    BY <1>1 DEF SplitSelect, FirstReached, Reached, Cumulative
  <1> HIDE DEF s, N, r
  <1>6. k \in 1 .. N  BY DEF N
  <1>7. k = FirstReached(s, r)  BY <1>1, <1>3, <1>4, <1>6, StretchFound
  <1> QED  BY <1>5, <1>7

\* The choices among the first n that fall to a cluster.
FallTo(split, c, n) == {i \in 1 .. n : SplitSelect(split, i - 1) = c}

\* They can be counted, and a longer row has no fewer.
LEMMA FallToCounts ==
  ASSUME NEW split, NEW c, NEW n \in Nat, NEW m \in Nat, n <= m
  PROVE  /\ IsFiniteSet(FallTo(split, c, n)) /\ Cardinality(FallTo(split, c, n)) \in Nat
         /\ Cardinality(FallTo(split, c, n)) <= Cardinality(FallTo(split, c, m))
  <1>1. ASSUME NEW j \in Nat PROVE IsFiniteSet(FallTo(split, c, j))
    <2>1. IsFiniteSet(1 .. j)  BY FS_Interval
    <2>2. FallTo(split, c, j) \in SUBSET (1 .. j)  BY DEF FallTo
    <2> QED  BY <2>1, <2>2, FS_Subset
  <1>2. FallTo(split, c, n) \in SUBSET FallTo(split, c, m)  BY DEF FallTo
  <1> QED  BY <1>1, <1>2, FS_Subset, FS_CardinalityType

\* Those among the m choices behind the first n.
FallLater(split, c, n, m) == {i \in n + 1 .. n + m : SplitSelect(split, i - 1) = c}

\* Rows of choices one behind the other add up.
LEMMA RowsAdd ==
  ASSUME NEW split, NEW c, NEW n \in Nat, NEW m \in Nat
  PROVE  /\ IsFiniteSet(FallLater(split, c, n, m)) /\ Cardinality(FallLater(split, c, n, m)) \in Nat
         /\ Cardinality(FallTo(split, c, n + m)) =
               Cardinality(FallTo(split, c, n)) + Cardinality(FallLater(split, c, n, m))
  <1> DEFINE later == FallLater(split, c, n, m)
             first == FallTo(split, c, n)
  <1>1. IsFiniteSet(later)
    <2>1. IsFiniteSet(n + 1 .. n + m)  BY FS_Interval
    <2>2. later \in SUBSET (n + 1 .. n + m)  BY DEF FallLater
    <2> HIDE DEF later
    <2> QED  BY <2>1, <2>2, FS_Subset
  <1>2. IsFiniteSet(first)  BY FallToCounts
  <1>3. FallTo(split, c, n + m) = first \cup later /\ first \cap later = {}
    BY DEF FallTo, FallLater
  <1> HIDE DEF first, later
  <1>4. Cardinality(first \cup later) = Cardinality(first) + Cardinality(later) - Cardinality(first \cap later)
    BY <1>1, <1>2, FS_Union
  <1>5. Cardinality(first) \in Nat /\ Cardinality(later) \in Nat /\ Cardinality(first \cap later) = 0
    BY <1>1, <1>2, <1>3, FS_CardinalityType, FS_EmptySet
  <1>6. Cardinality(first \cup later) = Cardinality(first) + Cardinality(later)
    <2> DEFINE x == Cardinality(first)
               y == Cardinality(later)
               z == Cardinality(first \cap later)
    <2>1. Cardinality(first \cup later) = x + y - z /\ x \in Nat /\ y \in Nat /\ z = 0
      BY <1>4, <1>5
    <2> HIDE DEF x, y, z
    <2>2. Cardinality(first \cup later) = x + y  BY <2>1
    <2> QED  BY <2>2 DEF x, y
  <1> QED  BY <1>1, <1>3, <1>5, <1>6 DEF first, later

\* After the parts up to the k-th have had their turn, a cluster has had the weight of its
\* parts among them.
LEMMA TurnsOfParts ==
  ASSUME NEW split, IsSplit(split), SplitTotal(split) > 0, NEW c, NEW k \in 0 .. Len(split)
  PROVE  Cardinality(FallTo(split, c, Cumulative(split, k))) = RunningTotal(SharesOf(split, c))[k]
  <1> DEFINE N == Len(split)
             s == Shares(split)
             w == SharesOf(split, c)
             T == SplitTotal(split)
             had(j) == Cardinality(FallTo(split, c, Cumulative(split, j)))
             Off == {j \in 0 .. N : had(j) # RunningTotal(w)[j]}
  <1>1. /\ N \in Nat /\ DOMAIN split = 1 .. N /\ s \in [1 .. N -> Nat] /\ Len(s) = N
        /\ w \in [1 .. N -> Nat] /\ Len(w) = N
    BY SharesAreNumbers
  <1>2. /\ RunningTotal(s) \in [0 .. N -> Nat] /\ RunningTotal(s)[0] = 0
        /\ \A i \in 1 .. N : RunningTotal(s)[i] = RunningTotal(s)[i - 1] + s[i]
    <2> HIDE DEF s, N
    <2> QED  BY <1>1, RunningTotals
  <1>3. /\ RunningTotal(w) \in [0 .. N -> Nat] /\ RunningTotal(w)[0] = 0
        /\ \A i \in 1 .. N : RunningTotal(w)[i] = RunningTotal(w)[i - 1] + w[i]
    <2> HIDE DEF w, N
    <2> QED  BY <1>1, RunningTotals
  <1> SUFFICES ASSUME Off # {} PROVE FALSE
    OBVIOUS
  <1>4. PICK j \in Off : \A m \in Off : j <= m
    <2>1. Off \in SUBSET Nat  BY <1>1
    <2> HIDE DEF Off
    <2> QED  BY <2>1, HasLeast
  <1>5. j # 0
    <2>1. Cumulative(split, 0) = 0  BY <1>2 DEF Cumulative
    <2>2. FallTo(split, c, 0) = {}  BY DEF FallTo
    <2>3. had(0) = 0  BY <2>1, <2>2, FS_EmptySet
    <2> QED  BY <1>3, <2>3
  <1>6. j \in 1 .. N /\ j - 1 \in 0 .. N  BY <1>1, <1>4, <1>5
  <1>7. j - 1 \notin Off
    <2> HIDE DEF Off, N
    <2> QED  BY <1>1, <1>4, <1>6
  <1>8. had(j - 1) = RunningTotal(w)[j - 1]  BY <1>6, <1>7
  <1> DEFINE a == Cumulative(split, j - 1)
             later == FallLater(split, c, a, s[j])
  <1>9. a \in Nat /\ s[j] \in Nat /\ Cumulative(split, j) = a + s[j]
    BY <1>1, <1>2, <1>6 DEF Cumulative
  <1>10. T \in Nat /\ a + s[j] <= T
    <2>1. RunningTotal(s)[j] <= RunningTotal(s)[N]
      <3>1. j \in 0 .. N /\ N \in 0 .. N /\ j <= N  BY <1>1, <1>6
      <3> HIDE DEF s, N
      <3> QED  BY <1>1, <3>1, TotalsRise
    <2>2. T = RunningTotal(s)[N] /\ N \in 0 .. N  BY <1>1 DEF SplitTotal, Total
    <2> QED  BY <1>2, <1>9, <2>1, <2>2 DEF Cumulative
  <1>11. ASSUME NEW i \in a + 1 .. a + s[j] PROVE SplitSelect(split, i - 1) = split[j].cluster
    <2> DEFINE n == i - 1
    <2>1. n \in Nat /\ a <= n /\ n < a + s[j]
      <3> HIDE DEF a, s
      <3> QED  BY <1>9
    <2>2. n % T = n
      <3> HIDE DEF n, a, s, T
      <3>1. n = 0 * T + n /\ n \in 0 .. T - 1 /\ T \in Nat \ {0}  BY <1>9, <1>10, <2>1
      <3> QED  BY <2>1, <3>1, RemainderUnique
    <2> HIDE DEF n
    <2>3. Cumulative(split, j - 1) <= n % SplitTotal(split) /\ n % SplitTotal(split) < Cumulative(split, j)
      BY <1>9, <2>1, <2>2
    <2>4. SplitSelect(split, n) = split[j].cluster  BY <1>6, <2>1, <2>3, SplitChoice
    <2> QED  BY <2>4 DEF n
  <1>12. Cardinality(later) = w[j]
    <2>1. CASE split[j].cluster = c
      <3>1. later = a + 1 .. a + s[j]  BY <1>11, <2>1 DEF FallLater
      <3>2. Cardinality(a + 1 .. a + s[j]) = s[j]
        <4> DEFINE x == a
                   y == s[j]
        <4>1. x \in Nat /\ y \in Nat  BY <1>9
        <4> HIDE DEF x, y
        <4>2. x + 1 \in Int /\ x + y \in Int  BY <4>1
        <4>3. Cardinality(x + 1 .. x + y) = IF x + 1 > x + y THEN 0 ELSE ((x + y) - (x + 1)) + 1
          BY <4>2, FS_Interval
        <4>4. Cardinality(x + 1 .. x + y) = y  BY <4>1, <4>3
        <4> QED  BY <4>4 DEF x, y
      <3>3. w[j] = s[j]  BY <1>1, <1>6, <2>1 DEF Shares, SharesOf
      <3> QED  BY <3>1, <3>2, <3>3
    <2>2. CASE split[j].cluster # c
      <3>1. later = {}  BY <1>11, <2>2 DEF FallLater
      <3>2. w[j] = 0  BY <1>1, <1>6, <2>2 DEF SharesOf
      <3> QED  BY <3>1, <3>2, FS_EmptySet
    <2> QED  BY <2>1, <2>2
  <1>13. had(j) = had(j - 1) + w[j]
    <2>1. Cardinality(FallTo(split, c, a + s[j])) = Cardinality(FallTo(split, c, a)) + Cardinality(later)
      <3> HIDE DEF a, s
      <3> QED  BY <1>9, RowsAdd
    <2> QED  BY <1>9, <1>12, <2>1
  <1>14. had(j) = RunningTotal(w)[j]  BY <1>3, <1>6, <1>8, <1>13
  <1> QED  BY <1>4, <1>14

\* Every round of the counter chooses as the one before.
LEMMA RoundRepeats ==
  ASSUME NEW split, SplitTotal(split) \in Nat \ {0}, NEW c, NEW n \in Nat
  PROVE  Cardinality(FallLater(split, c, SplitTotal(split), n)) = Cardinality(FallTo(split, c, n))
  <1> DEFINE T == SplitTotal(split)
             S == FallTo(split, c, n)
             D == FallLater(split, c, T, n)
             shift == [i \in S |-> i + T]
  <1>1. T \in Nat \ {0}  OBVIOUS
  <1>2. ASSUME NEW i \in 1 .. n PROVE SplitSelect(split, (i + T) - 1) = SplitSelect(split, i - 1)
    <2>1. ((i + T) - 1) % T = (i - 1) % T
      <3> DEFINE p == (i - 1) \div T
                 u == (i - 1) % T
      <3>0. i - 1 \in Nat  OBVIOUS
      <3>1. p \in Nat /\ u \in 0 .. T - 1 /\ i - 1 = p * T + u  BY <1>1, <3>0, Remainder
      <3> HIDE DEF p, u, T
      <3>2. (p + 1) * T = p * T + T /\ p * T \in Int  BY <1>1, <3>1
      <3>3. (i + T) - 1 = (p + 1) * T + u /\ (i + T) - 1 \in Nat /\ p + 1 \in Nat  BY <1>1, <3>1, <3>2
      <3>4. ((i + T) - 1) % T = u  BY <1>1, <3>1, <3>3, RemainderUnique
      <3> QED  BY <3>4 DEF u
    <2> QED  BY <2>1 DEF SplitSelect
  <1> HIDE DEF T
  <1>3. shift \in [S -> D] /\ \A x, y \in S : shift[x] = shift[y] => x = y
    <2>1. ASSUME NEW i \in S PROVE i + T \in D
      <3>1. i \in 1 .. n /\ SplitSelect(split, i - 1) = c  BY DEF FallTo
      <3>2. i + T \in T + 1 .. T + n  BY <1>1, <3>1
      <3> QED  BY <1>2, <3>1, <3>2 DEF FallLater
    <2>2. \A x \in S : x \in Int  BY DEF FallTo
    <2> QED  BY <1>1, <2>1, <2>2
  <1>4. ASSUME NEW d \in D PROVE \E i \in S : shift[i] = d
    <2>1. d \in T + 1 .. T + n /\ SplitSelect(split, d - 1) = c  BY DEF FallLater
    <2>2. d - T \in 1 .. n /\ (d - T) + T = d  BY <1>1, <2>1
    <2>3. SplitSelect(split, (d - T) - 1) = SplitSelect(split, ((d - T) + T) - 1)  BY <1>2, <2>2
    <2>4. d - T \in S  BY <2>1, <2>2, <2>3 DEF FallTo
    <2> QED  BY <2>2, <2>4
  <1>5. shift \in Bijection(S, D)
    <2> HIDE DEF shift, S, D
    <2> QED  BY <1>3, <1>4 DEF Bijection, Injection, Surjection, IsInjective
  <1>6. IsFiniteSet(S)  BY FallToCounts
  <1>7. ExistsBijection(S, D)  BY <1>5 DEF ExistsBijection
  <1>8. Cardinality(D) = Cardinality(S)
    <2> HIDE DEF S, D
    <2> QED  BY <1>6, <1>7, FS_Bijection
  <1> QED  BY <1>8 DEF T

\* After q rounds and r choices more, a cluster has had its weight q times and its part of
\* the r.
LEMMA RowOfRounds ==
  ASSUME NEW split, SplitTotal(split) \in Nat \ {0}, NEW c, NEW q \in Nat, NEW r \in Nat
  PROVE  Cardinality(FallTo(split, c, q * SplitTotal(split) + r)) =
             q * Cardinality(FallTo(split, c, SplitTotal(split))) + Cardinality(FallTo(split, c, r))
  <1> DEFINE T == SplitTotal(split)
             H(n) == Cardinality(FallTo(split, c, n))
             Off == {p \in Nat : H(p * T + r) # p * H(T) + H(r)}
  <1>0. T \in Nat \ {0}  OBVIOUS
  <1>1. \A n \in Nat : H(n) \in Nat  BY FallToCounts
  <1>2. \A n \in Nat : H(T + n) = H(T) + H(n)
    <2> TAKE n \in Nat
    <2>1. Cardinality(FallTo(split, c, T + n)) = Cardinality(FallTo(split, c, T)) + Cardinality(FallLater(split, c, T, n))
      BY <1>0, RowsAdd
    <2>2. Cardinality(FallLater(split, c, T, n)) = Cardinality(FallTo(split, c, n))  BY RoundRepeats
    <2> QED  BY <2>1, <2>2
  <1> HIDE DEF T, H
  <1> SUFFICES ASSUME Off # {} PROVE FALSE
    <2>1. ASSUME H(q * T + r) = q * H(T) + H(r)
          PROVE Cardinality(FallTo(split, c, q * SplitTotal(split) + r)) =
             q * Cardinality(FallTo(split, c, SplitTotal(split))) + Cardinality(FallTo(split, c, r))
      BY <2>1 DEF H, T
    <2> QED  BY <2>1
  <1>3. PICK p \in Off : \A m \in Off : p <= m
    <2>1. Off \in SUBSET Nat  OBVIOUS
    <2> HIDE DEF Off
    <2> QED  BY <2>1, HasLeast
  <1>4. p \in Nat /\ H(p * T + r) # p * H(T) + H(r)  OBVIOUS
  <1>5. p # 0
    <2> SUFFICES ASSUME p = 0 PROVE FALSE
      OBVIOUS
    <2>1. p * T + r = r /\ p * H(T) = 0
      <3>1. T \in Int /\ H(T) \in Int  BY <1>0, <1>1
      <3> QED  BY <3>1
    <2>2. H(r) \in Nat  BY <1>1
    <2> QED  BY <1>4, <2>1, <2>2
  <1>6. p - 1 \in Nat /\ p - 1 \notin Off
    <2> HIDE DEF Off
    <2>1. p - 1 \in Nat /\ ~ (p <= p - 1)  BY <1>4, <1>5
    <2> QED  BY <1>3, <2>1
  <1> DEFINE n == (p - 1) * T + r
  <1>7. n \in Nat /\ p * T + r = T + n
    <2>1. (p - 1) * T \in Nat  BY <1>0, <1>6, NatTimes
    <2>2. p * T = (p - 1) * T + T  BY <1>0, <1>4
    <2> QED  BY <1>0, <2>1, <2>2
  <1>8. H(n) = (p - 1) * H(T) + H(r)  BY <1>6
  <1>9. p * H(T) = (p - 1) * H(T) + H(T) /\ (p - 1) * H(T) \in Int /\ H(T) \in Int /\ H(r) \in Int
    <2> DEFINE h == H(T)
    <2>1. h \in Nat /\ H(r) \in Nat  BY <1>0, <1>1
    <2> HIDE DEF h
    <2>2. p * h = (p - 1) * h + h /\ (p - 1) * h \in Int  BY <1>4, <2>1
    <2> QED  BY <2>1, <2>2 DEF h
  <1> HIDE DEF n
  <1>10. H(T + n) = H(T) + H(n)  BY <1>2, <1>7
  <1>11. H(p * T + r) = p * H(T) + H(r)
    <2> DEFINE h == H(T)
               x == (p - 1) * H(T)
    <2>1. H(p * T + r) = h + (x + H(r)) /\ p * H(T) = x + h /\ h \in Int /\ x \in Int /\ H(r) \in Int
      BY <1>7, <1>8, <1>9, <1>10
    <2> HIDE DEF h, x
    <2> QED  BY <2>1
  <1> QED  BY <1>4, <1>11

\* Of any number of choices from the first on, a cluster has had its weight for each whole
\* round, and no more than its weight for each round begun.
LEMMA SplitIsFair ==
  ASSUME NEW split, IsSplit(split), SplitTotal(split) > 0, NEW c, NEW n \in Nat
  PROVE  Cardinality(FallTo(split, c, n)) \in (n \div SplitTotal(split)) * WeightOf(split, c)
             .. ((n + SplitTotal(split) - 1) \div SplitTotal(split)) * WeightOf(split, c)
  <1> DEFINE T == SplitTotal(split)
             W == WeightOf(split, c)
             N == Len(split)
             q == n \div T
             r == n % T
             x == Cardinality(FallTo(split, c, r))
  <1>1. N \in Nat /\ Len(Shares(split)) = N /\ Len(SharesOf(split, c)) = N /\ N \in 0 .. N
        /\ Shares(split) \in [1 .. N -> Nat]
    BY SharesAreNumbers
  <1>2. T \in Nat \ {0}
    <2>1. RunningTotal(Shares(split)) \in [0 .. N -> Nat]  BY <1>1, RunningTotals
    <2>2. T \in Nat  BY <1>1, <2>1 DEF SplitTotal, Total
    <2> QED  BY <2>2
  <1>3. Cardinality(FallTo(split, c, T)) = W
    <2>1. T = Cumulative(split, N)  BY <1>1 DEF SplitTotal, Total, Cumulative
    <2>2. W = RunningTotal(SharesOf(split, c))[N]  BY <1>1 DEF WeightOf, Total
    <2>3. N \in 0 .. Len(split)  BY <1>1
    <2> HIDE DEF T, W, N
    <2> QED  BY <2>1, <2>2, <2>3, TurnsOfParts
  <1>4. q \in Nat /\ r \in 0 .. T - 1 /\ n = q * T + r  BY <1>2, Remainder
  <1>5. Cardinality(FallTo(split, c, q * T + r)) = q * Cardinality(FallTo(split, c, T)) + x
    <2> HIDE DEF q, r
    <2>1. r \in Nat  BY <1>2, <1>4
    <2> QED  BY <1>2, <1>4, <2>1, RowOfRounds
  <1>6. x \in Nat /\ x <= W /\ (r = 0 => x = 0) /\ W \in Nat
    <2>1. r \in Nat /\ r <= T /\ T \in Nat
      <3> HIDE DEF r, T
      <3> QED  BY <1>2, <1>4
    <2>2. x \in Nat /\ x <= W /\ W \in Nat
      <3> HIDE DEF r, T
      <3> QED  BY <2>1, <1>3, FallToCounts
    <2>3. ASSUME r = 0 PROVE x = 0
      <3>1. FallTo(split, c, 0) = {}  BY DEF FallTo
      <3>2. x = Cardinality(FallTo(split, c, 0))  BY <2>3
      <3> QED  BY <3>1, <3>2, FS_EmptySet
    <2> QED  BY <2>2, <2>3
  <1>7. (n + T - 1) \div T = IF r = 0 THEN q ELSE q + 1
    <2> HIDE DEF q, r, T
    <2>0. q * T \in Int  BY <1>2, <1>4
    <2>1. CASE r = 0
      <3>1. n + T - 1 = q * T + (T - 1) /\ T - 1 \in 0 .. T - 1 /\ n + T - 1 \in Nat
        BY <1>2, <1>4, <2>0, <2>1
      <3> QED  BY <1>2, <1>4, <2>1, <3>1, RemainderUnique
    <2>2. CASE r # 0
      <3>0. (q + 1) * T = q * T + T  BY <1>2, <1>4
      <3>1. n + T - 1 = (q + 1) * T + (r - 1) /\ r - 1 \in 0 .. T - 1 /\ n + T - 1 \in Nat /\ q + 1 \in Nat
        BY <1>2, <1>4, <2>0, <2>2, <3>0
      <3> QED  BY <1>2, <2>2, <3>1, RemainderUnique
    <2> QED  BY <2>1, <2>2
  <1> HIDE DEF q, r, x, W, T
  <1>8. Cardinality(FallTo(split, c, n)) = q * W + x  BY <1>3, <1>4, <1>5
  <1>9. q * W \in Int /\ (q + 1) * W = q * W + W  BY <1>4, <1>6
  <1>10. q * W + x \in q * W .. (IF r = 0 THEN q ELSE q + 1) * W  BY <1>6, <1>9
  <1>11. Cardinality(FallTo(split, c, n)) \in q * W .. ((n + T - 1) \div T) * W  BY <1>7, <1>8, <1>10
  <1> QED  BY <1>11 DEF q, T, W

---------------------------------------------------------------------------
(* The router *)

\* A compiled table: by priority and then by place, every split a split.
TableInOrder(table) ==
    /\ \E n \in Nat : DOMAIN table = 1 .. n
    /\ \A k \in DOMAIN table : table[k].priority \in Int /\ table[k].place \in Nat
    /\ \A i, j \in DOMAIN table : i < j =>
          \/ table[i].priority < table[j].priority
          \/ table[i].priority = table[j].priority /\ table[i].place < table[j].place
    /\ \A k \in DOMAIN table : Has(table[k].target, "split") => IsSplit(table[k].target.split)

\* A split has made the choices of a counter that started at zero.
SentInOrder(r) ==
    \/ turn[r] = 0 /\ routed[r] = <<>>
    \/ /\ Has(routes[r].target, "split") /\ SplitTotal(routes[r].target.split) > 0
       /\ \E n \in 1 .. SplitSpan :
             /\ turn[r] = n % SplitSpan
             /\ routed[r] = [i \in 1 .. n |-> SplitSelect(routes[r].target.split, i - 1)]

RoutingInv ==
    /\ moment \in Times
    /\ TableInOrder(routes)
    /\ DOMAIN turn = DOMAIN routes /\ DOMAIN routed = DOMAIN routes
    /\ \A r \in DOMAIN routes : SentInOrder(r)
    /\ BestRouteDecides

\* Router::new leaves every table in order.
LEMMA CompiledInOrder ==
  ASSUME NEW table \in RouteTables
  PROVE  TableInOrder(Compiled(table))
  <1> DEFINE n == Len(table)
             keys == [i \in DOMAIN table |-> table[i].priority]
             order == SortByKey(keys)
             done == Compiled(table)
  <1>1. /\ table \in Seq(Range(table))
        /\ \A i \in DOMAIN table :
              /\ table[i].priority \in Int
              /\ "split" \in DOMAIN table[i] => IsSplit(table[i].split)
    BY RoutingAssumption DEF IsSplit
  <1>2. n \in Nat /\ DOMAIN table = 1 .. n  BY <1>1
  <1>3. keys \in [1 .. n -> Int]  BY <1>1, <1>2
  <1>4. /\ order \in [1 .. n -> 1 .. n]
        /\ \A i, j \in 1 .. n : i < j =>
              \/ keys[order[i]] < keys[order[j]]
              \/ keys[order[i]] = keys[order[j]] /\ order[i] < order[j]
    <2> HIDE DEF keys, n
    <2> QED  BY <1>2, <1>3, SortByKeySorts
  <1>5. done = [k \in DOMAIN order |-> compile_route(table[order[k]], order[k])]  BY DEF Compiled
  <1> HIDE DEF order, done
  <1>6. DOMAIN done = 1 .. n  BY <1>4, <1>5
  <1>7. ASSUME NEW k \in 1 .. n
        PROVE  /\ order[k] \in 1 .. n /\ done[k].place = order[k] /\ done[k].priority = keys[order[k]]
               /\ done[k].target = IF Has(table[order[k]], "split") THEN [split |-> table[order[k]].split]
                                   ELSE [cluster |-> table[order[k]].cluster]
    <2>1. order[k] \in 1 .. n /\ done[k] = compile_route(table[order[k]], order[k])  BY <1>4, <1>5
    <2>2. keys[order[k]] = table[order[k]].priority  BY <1>2, <2>1
    <2> HIDE DEF keys
    <2> QED  BY <2>1, <2>2 DEF compile_route
  <1> HIDE DEF keys, n
  <1>8. \A k \in DOMAIN done : done[k].priority \in Int /\ done[k].place \in Nat
    <2> TAKE k \in DOMAIN done
    <2>1. k \in 1 .. n  BY <1>6
    <2>2. order[k] \in 1 .. n /\ done[k].place = order[k] /\ done[k].priority = keys[order[k]]  BY <1>7, <2>1
    <2>3. keys[order[k]] \in Int  BY <1>3, <2>2
    <2> QED  BY <1>2, <2>2, <2>3
  <1>9. \A i, j \in DOMAIN done : i < j =>
          \/ done[i].priority < done[j].priority
          \/ done[i].priority = done[j].priority /\ done[i].place < done[j].place
    <2> TAKE i, j \in DOMAIN done
    <2>1. i \in 1 .. n /\ j \in 1 .. n  BY <1>6
    <2>2. /\ done[i].place = order[i] /\ done[i].priority = keys[order[i]]
          /\ done[j].place = order[j] /\ done[j].priority = keys[order[j]]
      BY <1>7, <2>1
    <2> QED  BY <1>4, <2>1, <2>2
  <1>10. ASSUME NEW k \in DOMAIN done, Has(done[k].target, "split") PROVE IsSplit(done[k].target.split)
    <2>1. order[k] \in DOMAIN table  BY <1>2, <1>6, <1>7
    <2>2. Has(table[order[k]], "split")
      <3> SUFFICES ASSUME ~ Has(table[order[k]], "split") PROVE FALSE
        OBVIOUS
      <3>1. done[k].target = [cluster |-> table[order[k]].cluster]  BY <1>6, <1>7
      <3> QED  BY <1>10, <3>1 DEF Has
    <2>3. done[k].target = [split |-> table[order[k]].split]  BY <1>6, <1>7, <2>2
    <2>4. done[k].target.split = table[order[k]].split  BY <2>3
    <2> QED  BY <1>1, <2>1, <2>2, <2>4 DEF Has
  <1>11. \E m \in Nat : DOMAIN done = 1 .. m  BY <1>2, <1>6
  <1> QED  BY <1>8, <1>9, <1>10, <1>11 DEF TableInOrder, done

\* A router that starts has sent nothing and decided nothing.
LEMMA RouterStarts ==
  ASSUME NEW table \in RouteTables, routes = Compiled(table), turn = Fresh, routed = NothingSent,
         verdict = NoVerdict, moment \in Times
  PROVE  RoutingInv
  <1>1. TableInOrder(routes)  BY CompiledInOrder
  <1>2. DOMAIN turn = DOMAIN routes /\ DOMAIN routed = DOMAIN routes  BY DEF Fresh, NothingSent
  <1>3. \A r \in DOMAIN routes : SentInOrder(r)  BY DEF SentInOrder, Fresh, NothingSent
  <1>4. BestRouteDecides  BY DEF BestRouteDecides, NoVerdict
  <1> QED  BY <1>1, <1>2, <1>3, <1>4 DEF RoutingInv

\* Routing a message: the first matching route is the best, and a split makes its next choice.
LEMMA RouteMessageStep ==
  ASSUME RoutingInv, NEW ctx \in Contexts, RouteMessage(ctx)
  PROVE  RoutingInv'
  <1> DEFINE matching == {k \in DOMAIN routes : matches_context(routes[k], ctx, moment)}
             r == IF matching = {} THEN 0 ELSE Min(matching)
  <1>1. UNCHANGED <<routes, moment>>  BY DEF RouteMessage
  <1>2. verdict' = [route |-> r, ctx |-> ctx, at |-> moment]  BY DEF RouteMessage, route_context
  <1>3. \/ UNCHANGED <<turn, routed>>
        \/ /\ r # 0 /\ Has(routes[r].target, "split") /\ SplitTotal(routes[r].target.split) > 0
           /\ turn' = [turn EXCEPT ![r] = (@ + 1) % SplitSpan]
           /\ routed' = [routed EXCEPT ![r] = Append(IF turn[r] = 0 THEN <<>> ELSE @,
                                                     SplitSelect(routes[r].target.split, turn[r]))]
    BY DEF RouteMessage, route_context
  <1>4. PICK n \in Nat : DOMAIN routes = 1 .. n  BY DEF RoutingInv, TableInOrder
  <1>5. matching # {} => r \in matching /\ \A k \in matching : r <= k
    <2>1. matching \in SUBSET Nat  BY <1>4
    <2> HIDE DEF matching
    <2> QED  BY <2>1, MinIsLeast
  <1>6. matching = {} => r = 0  OBVIOUS
  <1>7. r = 0 <=> matching = {}  BY <1>4, <1>5, <1>6
  <1> HIDE DEF r
  <1>8. BestRouteDecides'
    <2>1. verdict'.route = r /\ verdict'.ctx = ctx /\ verdict'.at = moment  BY <1>2
    <2>2. matching = {k \in DOMAIN routes' : matches_context(routes'[k], verdict'.ctx, verdict'.at)}
      BY <1>1, <2>1 DEF matches_context, time_window_matches
    <2> HIDE DEF matching
    <2>3. ASSUME r # 0, NEW k \in matching
          PROVE  \/ routes[r].priority < routes[k].priority
                 \/ routes[r].priority = routes[k].priority /\ routes[r].place <= routes[k].place
      <3>1. r \in DOMAIN routes /\ k \in DOMAIN routes /\ r <= k  BY <1>5, <1>7, <2>3 DEF matching
      <3>2. CASE r = k
        BY <3>1, <3>2 DEF RoutingInv, TableInOrder
      <3>3. CASE r < k
        <4>1. routes[r].place \in Nat /\ routes[k].place \in Nat
          BY <3>1 DEF RoutingInv, TableInOrder
        <4> QED  BY <3>1, <3>3, <4>1 DEF RoutingInv, TableInOrder
      <3> QED  BY <1>4, <3>1, <3>2, <3>3
    <2> QED  BY <1>1, <1>5, <1>7, <2>1, <2>2, <2>3 DEF BestRouteDecides
  <1>9. DOMAIN turn' = DOMAIN routes' /\ DOMAIN routed' = DOMAIN routes'
    BY <1>1, <1>3 DEF RoutingInv
  <1>10. ASSUME NEW q \in DOMAIN routes PROVE SentInOrder(q)'
    <2>1. SentInOrder(q)  BY DEF RoutingInv
    <2>2. CASE UNCHANGED <<turn, routed>>  BY <1>1, <2>1, <2>2 DEF SentInOrder
    <2>3. CASE ~ UNCHANGED <<turn, routed>>
      <3> DEFINE split == routes[r].target.split
                 c == SplitSelect(split, turn[r])
      <3>1. /\ r # 0 /\ Has(routes[r].target, "split") /\ SplitTotal(split) > 0
            /\ turn' = [turn EXCEPT ![r] = (@ + 1) % SplitSpan]
            /\ routed' = [routed EXCEPT ![r] = Append(IF turn[r] = 0 THEN <<>> ELSE @, c)]
        BY <1>3, <2>3
      <3>2. DOMAIN turn = DOMAIN routes /\ DOMAIN routed = DOMAIN routes  BY DEF RoutingInv
      <3>3. CASE q # r
        <4>1. turn'[q] = turn[q] /\ routed'[q] = routed[q]  BY <3>1, <3>2, <3>3
        <4> QED  BY <1>1, <2>1, <4>1 DEF SentInOrder
      <3>4. CASE q = r
        <4>1. turn'[q] = (turn[q] + 1) % SplitSpan
          BY <3>1, <3>2, <3>4
        <4>2. routed'[q] = Append(IF turn[q] = 0 THEN <<>> ELSE routed[q], c)
          BY <3>1, <3>2, <3>4
        <4> DEFINE row == IF turn[q] = 0 THEN <<>> ELSE routed[q]
        <4>3. PICK m \in 0 .. SplitSpan - 1 : turn[q] = m /\ row = [i \in 1 .. m |-> SplitSelect(split, i - 1)]
          <5>0. SplitSpan \in Nat \ {0}  BY RoutingAssumption
          <5>1. CASE turn[q] = 0
            <6>1. row = [i \in 1 .. 0 |-> SplitSelect(split, i - 1)]  BY <5>1
            <6>2. 0 \in 0 .. SplitSpan - 1  BY <5>0
            <6> HIDE DEF row
            <6> QED  BY <5>1, <6>1, <6>2
          <5>2. CASE turn[q] # 0
            <6>1. PICK m \in 1 .. SplitSpan :
                     turn[q] = m % SplitSpan /\ routed[q] = [i \in 1 .. m |-> SplitSelect(split, i - 1)]
              BY <2>1, <3>4, <5>2 DEF SentInOrder
            <6>2. m # SplitSpan
              <7> SUFFICES ASSUME m = SplitSpan PROVE FALSE
                OBVIOUS
              <7>1. m = 1 * SplitSpan + 0 /\ 0 \in 0 .. SplitSpan - 1 /\ m \in Nat  BY <5>0
              <7>2. m % SplitSpan = 0  BY <5>0, <7>1, RemainderUnique
              <7> QED  BY <5>2, <6>1, <7>2
            <6>3. m \in 0 .. SplitSpan - 1 /\ m \in Nat /\ m = 0 * SplitSpan + m  BY <5>0, <6>2
            <6>4. m % SplitSpan = m  BY <5>0, <6>3, RemainderUnique
            <6>5. row = routed[q]  BY <5>2
            <6> HIDE DEF row
            <6> QED  BY <6>1, <6>3, <6>4, <6>5
          <5> QED  BY <5>1, <5>2
        <4> HIDE DEF row
        <4>4. m + 1 \in 1 .. SplitSpan /\ m \in Nat  BY <4>3, RoutingAssumption
        <4>5. routed'[q] = [i \in 1 .. m + 1 |-> SplitSelect(split, i - 1)]
          <5> DEFINE f == [i \in 1 .. m |-> SplitSelect(split, i - 1)]
          <5>1. routed'[q] = Append(f, SplitSelect(split, m))  BY <3>4, <4>2, <4>3 DEF row
          <5>2. f \in Seq(Range(f)) /\ Len(f) = m
            <6>1. f \in [1 .. m -> Range(f)]  BY DEF Range
            <6> HIDE DEF f
            <6> QED  BY <4>4, <6>1
          <5>3. Append(f, SplitSelect(split, m)) = [i \in 1 .. m + 1 |-> IF i = m + 1 THEN SplitSelect(split, m) ELSE f[i]]
            <6> HIDE DEF f
            <6> QED  BY <5>2
          <5>4. \A i \in 1 .. m + 1 : (IF i = m + 1 THEN SplitSelect(split, m) ELSE f[i]) = SplitSelect(split, i - 1)
            <6> TAKE i \in 1 .. m + 1
            <6>1. CASE i = m + 1
              <7>1. i - 1 = m  BY <4>4, <6>1
              <7> QED  BY <6>1, <7>1
            <6>2. CASE i # m + 1
              <7>1. i \in 1 .. m  BY <4>4, <6>2
              <7> QED  BY <6>2, <7>1
            <6> QED  BY <6>1, <6>2
          <5> HIDE DEF f
          <5> QED  BY <5>1, <5>3, <5>4
        <4>6. turn'[q] = (m + 1) % SplitSpan  BY <4>1, <4>3
        <4> QED  BY <1>1, <3>1, <3>4, <4>4, <4>5, <4>6 DEF SentInOrder
      <3> QED  BY <3>3, <3>4
    <2> QED  BY <2>2, <2>3
  <1> QED  BY <1>1, <1>8, <1>9, <1>10 DEF RoutingInv

\* A new router is a router that starts.
LEMMA NewRouterStep ==
  ASSUME RoutingInv, NEW table \in RouteTables, NewRouter(table)
  PROVE  RoutingInv'
  <1>1. /\ (routes = Compiled(table))' /\ (turn = Fresh)' /\ (routed = NothingSent)'
        /\ (verdict = NoVerdict)' /\ (moment \in Times)'
    <2>1. /\ routes' = Compiled(table) /\ turn' = Fresh' /\ routed' = NothingSent'
          /\ verdict' = NoVerdict /\ moment' = moment
      BY DEF NewRouter
    <2>2. moment \in Times  BY DEF RoutingInv
    <2> QED  BY <2>1, <2>2
  <1> QED  BY <1>1, RouterStarts, PTL

\* What a step leaves alone but the time stays in order: BestRouteDecides looks at the time
\* of the verdict, not at the present one.
LEMMA RoutingKept ==
  ASSUME RoutingInv, moment' \in Times, UNCHANGED <<routes, turn, routed, verdict>>
  PROVE  RoutingInv'
  <1>1. \A r \in DOMAIN routes : SentInOrder(r)'  BY DEF RoutingInv, SentInOrder
  <1>2. BestRouteDecides'  BY DEF RoutingInv, BestRouteDecides
  <1> QED  BY <1>1, <1>2 DEF RoutingInv

\* The router's inductive invariant: the table in order, every split's choices those of a
\* counter that started at zero, the last verdict that of the best route.
THEOREM RoutingInvariant == RoutingSpec => []RoutingInv
  <1>1. RoutingInit => RoutingInv
    <2> SUFFICES ASSUME RoutingInit PROVE RoutingInv
      OBVIOUS
    <2>1. PICK table \in RouteTables : routes = Compiled(table)  BY DEF RoutingInit
    <2> QED  BY <2>1, RouterStarts DEF RoutingInit
  <1>2. RoutingInv /\ [RoutingNext]_rt_vars => RoutingInv'
    <2> SUFFICES ASSUME RoutingInv, [RoutingNext]_rt_vars PROVE RoutingInv'
      OBVIOUS
    <2>1. CASE \E table \in RouteTables : NewRouter(table)  BY <2>1, NewRouterStep
    <2>2. CASE \E ctx \in Contexts : RouteMessage(ctx)  BY <2>2, RouteMessageStep
    <2>3. CASE TimePasses
      <3>1. moment' \in Times /\ UNCHANGED <<routes, turn, routed, verdict>>  BY <2>3 DEF TimePasses
      <3> QED  BY <3>1, RoutingKept
    <2>4. CASE UNCHANGED rt_vars
      <3>1. moment' \in Times /\ UNCHANGED <<routes, turn, routed, verdict>>
        BY <2>4 DEF rt_vars, RoutingInv
      <3> QED  BY <3>1, RoutingKept
    <2> QED  BY <2>1, <2>2, <2>3, <2>4 DEF RoutingNext
  <1> QED  BY <1>1, <1>2, PTL DEF RoutingSpec

\* The counters of the splits stay below their span.
THEOREM RoutingTyped == RoutingSpec => []RoutingTypeOK
  <1>1. RoutingInv => RoutingTypeOK
    <2> SUFFICES ASSUME RoutingInv, NEW r \in DOMAIN routes
                 PROVE  turn[r] \in 0 .. SplitSpan - 1 /\ Len(routed[r]) <= SplitSpan
      BY DEF RoutingInv, RoutingTypeOK
    <2>0. SplitSpan \in Nat \ {0}  BY RoutingAssumption
    <2>1. CASE turn[r] = 0 /\ routed[r] = <<>>
      <3>1. Len(routed[r]) = 0  BY <2>1
      <3> QED  BY <2>0, <2>1, <3>1
    <2>2. CASE ~ (turn[r] = 0 /\ routed[r] = <<>>)
      <3>1. PICK n \in 1 .. SplitSpan :
               /\ turn[r] = n % SplitSpan
               /\ routed[r] = [i \in 1 .. n |-> SplitSelect(routes[r].target.split, i - 1)]
        BY <2>2 DEF RoutingInv, SentInOrder
      <3>2. n \in Nat /\ n <= SplitSpan /\ n % SplitSpan \in 0 .. SplitSpan - 1  BY <2>0, <3>1
      <3>3. Len(routed[r]) = n
        <4>1. PICK q : q = routed[r]  OBVIOUS
        <4>2. q \in [1 .. n -> Range(q)]  BY <3>1, <4>1 DEF Range
        <4>3. q \in Seq(Range(q))  BY <3>2, <4>2
        <4> QED  BY <3>2, <4>1, <4>2, <4>3
      <3> QED  BY <3>1, <3>2, <3>3
    <2> QED  BY <2>1, <2>2
  <1> QED  BY <1>1, RoutingInvariant, PTL

\* The choices made in order are the ones the rounds of the counter count.
LEMMA SentInShares ==
  ASSUME RoutingInv
  PROVE  SplitShares
  <1> SUFFICES ASSUME NEW r \in DOMAIN routes, routed[r] # <<>>,
                      NEW k \in DOMAIN routes[r].target.split
               PROVE  LET split == routes[r].target.split
                          n == Len(routed[r])
                          had(c) == Cardinality({i \in DOMAIN routed[r] : routed[r][i] = c})
                          w == WeightOf(split, split[k].cluster)
                          t == SplitTotal(split)
                      IN had(split[k].cluster) \in (n \div t) * w .. ((n + t - 1) \div t) * w
    BY DEF SplitShares
  <1> DEFINE split == routes[r].target.split
             c == split[k].cluster
  <1>1. SentInOrder(r)  BY DEF RoutingInv
  <1>2. Has(routes[r].target, "split") /\ SplitTotal(split) > 0  BY <1>1 DEF SentInOrder
  <1>3. IsSplit(split)  BY <1>2 DEF RoutingInv, TableInOrder
  <1>4. PICK n \in 1 .. SplitSpan : routed[r] = [i \in 1 .. n |-> SplitSelect(split, i - 1)]
    BY <1>1 DEF SentInOrder
  <1> HIDE DEF split, c
  <1>5. n \in Nat  BY <1>4, RoutingAssumption
  <1>6. Len(routed[r]) = n
    <2>1. routed[r] \in [1 .. n -> Range(routed[r])]  BY <1>4 DEF Range
    <2>2. routed[r] \in Seq(Range(routed[r]))  BY <1>5, <2>1
    <2> QED  BY <1>5, <2>1, <2>2
  <1>7. {i \in DOMAIN routed[r] : routed[r][i] = c} = FallTo(split, c, n)  BY <1>4 DEF FallTo
  <1>8. Cardinality(FallTo(split, c, n)) \in (n \div SplitTotal(split)) * WeightOf(split, c)
            .. ((n + SplitTotal(split) - 1) \div SplitTotal(split)) * WeightOf(split, c)
    BY <1>2, <1>3, <1>5, SplitIsFair
  <1> QED  BY <1>6, <1>7, <1>8 DEF split, c

\* The router sends every message by the best matching route, and every split keeps to its
\* weights after each of its choices, for every table, message and hour (route_context,
\* WeightedSplit::select).
THEOREM MessagesRoutedAsConfigured == RoutingSpec => []RoutedAsConfigured
  <1>1. RoutingInv => RoutedAsConfigured  BY SentInShares DEF RoutingInv, RoutedAsConfigured
  <1> QED  BY <1>1, RoutingInvariant, PTL

---------------------------------------------------------------------------
(* The message filter *)

\* The entries kept stand in the order of their places.
LEMMA KeptInOrder ==
  ASSUME NEW n \in Nat, NEW list, DOMAIN list = 1 .. n, NEW S \in SUBSET (1 .. n)
  PROVE  \E m \in Nat : \E f \in [1 .. m -> S] :
            /\ Kept(list, S) = [k \in 1 .. m |-> list[f[k]]]
            /\ \A i, j \in 1 .. m : i < j => f[i] < f[j]
  <1>1. IsFiniteSet(1 .. n)  BY FS_Interval
  <1>2. IsFiniteSet(S)  BY <1>1, FS_Subset
  <1>3. Cardinality(S) \in Nat  BY <1>2, FS_CardinalityType
  <1>4. S \in SUBSET Int  OBVIOUS
  <1>5. /\ Ascending(S) \in [1 .. Cardinality(S) -> S]
        /\ \A i, j \in 1 .. Cardinality(S) : i < j => Ascending(S)[i] < Ascending(S)[j]
    BY <1>2, <1>4, AscendingIsSorted
  <1>6. Kept(list, S) = [k \in 1 .. Cardinality(S) |-> list[Ascending(S)[k]]]  BY <1>5 DEF Kept
  <1> QED  BY <1>3, <1>5, <1>6

\* A list of rules by falling priority.
Falling(list) ==
    /\ \E n \in Nat : DOMAIN list = 1 .. n
    /\ \A i \in DOMAIN list : list[i].priority \in Int
    /\ \A i, j \in DOMAIN list : i < j => list[i].priority >= list[j].priority

\* add_rule leaves the rules by falling priority.
LEMMA WithRulesFall ==
  ASSUME NEW given \in RuleLists
  PROVE  Falling(with_rules(given))
  <1> DEFINE n == Len(given)
             keys == [i \in DOMAIN given |-> 0 - given[i].priority]
             order == SortByKey(keys)
             done == with_rules(given)
  <1>1. given \in Seq(Range(given)) /\ \A i \in DOMAIN given : given[i].priority \in Int
    BY MessageFilterAssumption
  <1>2. n \in Nat /\ DOMAIN given = 1 .. n  BY <1>1
  <1>3. keys \in [1 .. n -> Int]  BY <1>1, <1>2
  <1>4. /\ order \in [1 .. n -> 1 .. n]
        /\ \A i, j \in 1 .. n : i < j =>
              \/ keys[order[i]] < keys[order[j]]
              \/ keys[order[i]] = keys[order[j]] /\ order[i] < order[j]
    <2> HIDE DEF keys, n
    <2> QED  BY <1>2, <1>3, SortByKeySorts
  <1>5. done = [k \in DOMAIN order |-> given[order[k]]]  BY DEF with_rules
  <1> HIDE DEF order, done
  <1>6. DOMAIN done = 1 .. n  BY <1>4, <1>5
  <1>7. ASSUME NEW k \in 1 .. n
        PROVE  /\ order[k] \in 1 .. n /\ done[k].priority \in Int
               /\ keys[order[k]] = 0 - done[k].priority
    <2>1. order[k] \in DOMAIN given /\ done[k] = given[order[k]]  BY <1>2, <1>4, <1>5
    <2> QED  BY <1>1, <1>2, <2>1
  <1> HIDE DEF n, keys
  <1>8. \A i \in DOMAIN done : done[i].priority \in Int  BY <1>6, <1>7
  <1>9. ASSUME NEW i \in DOMAIN done, NEW j \in DOMAIN done, i < j
        PROVE  done[i].priority >= done[j].priority
    <2>1. i \in 1 .. n /\ j \in 1 .. n  BY <1>6
    <2>2. keys[order[i]] <= keys[order[j]]
      <3>1. keys[order[i]] \in Int /\ keys[order[j]] \in Int  BY <1>3, <1>7, <2>1
      <3> QED  BY <1>4, <1>9, <2>1, <3>1
    <2>3. 0 - done[i].priority <= 0 - done[j].priority  BY <1>7, <2>1, <2>2
    <2> QED  BY <1>8, <2>3
  <1> QED  BY <1>2, <1>6, <1>8, <1>9 DEF Falling, done

\* Leaving rules out keeps their order.
LEMMA ApplicableFall ==
  ASSUME Falling(rules), NEW ctx
  PROVE  Falling(Applicable(ctx)) /\ Applicable(ctx) \in Seq(Range(Applicable(ctx)))
  <1> DEFINE S == {k \in DOMAIN rules :
                     rules[k].enabled /\ (Given(rules[k], "esme_id") => rules[k].esme_id = ctx.system_id)}
             A == Applicable(ctx)
  <1>1. PICK n \in Nat : DOMAIN rules = 1 .. n  BY DEF Falling
  <1>2. S \in SUBSET (1 .. n) /\ A = Kept(rules, S)  BY <1>1 DEF Applicable
  <1> HIDE DEF S, A
  <1>3. PICK m \in Nat : \E f \in [1 .. m -> S] :
            /\ A = [k \in 1 .. m |-> rules[f[k]]]
            /\ \A i, j \in 1 .. m : i < j => f[i] < f[j]
    BY <1>1, <1>2, KeptInOrder
  <1>4. PICK f \in [1 .. m -> S] :
            /\ A = [k \in 1 .. m |-> rules[f[k]]]
            /\ \A i, j \in 1 .. m : i < j => f[i] < f[j]
    BY <1>3
  <1>5. DOMAIN A = 1 .. m  BY <1>4
  <1>6. \A k \in 1 .. m : A[k] = rules[f[k]] /\ f[k] \in DOMAIN rules  BY <1>1, <1>2, <1>4
  <1>7. \A k \in DOMAIN A : A[k].priority \in Int  BY <1>5, <1>6 DEF Falling
  <1>8. ASSUME NEW i \in DOMAIN A, NEW j \in DOMAIN A, i < j
        PROVE  A[i].priority >= A[j].priority
    <2>1. f[i] < f[j]  BY <1>4, <1>5, <1>8
    <2> QED  BY <1>5, <1>6, <2>1 DEF Falling
  <1>9. A \in Seq(Range(A))
    <2>1. A \in [1 .. m -> Range(A)]  BY <1>4, <1>5 DEF Range
    <2> QED  BY <2>1
  <1> QED  BY <1>5, <1>7, <1>8, <1>9 DEF Falling, A

\* The rules of an ESME are a list.
LEMMA OwnRulesList ==
  ASSUME NEW s \in EsmeSettings \cup {NoSettings}
  PROVE  OwnRules(s) \in Seq(Range(OwnRules(s)))
  <1> DEFINE A == OwnRules(s)
  <1>1. CASE s = NoSettings
    <2>1. A = <<>>  BY <1>1 DEF OwnRules
    <2> QED  BY <2>1
  <1>2. CASE s # NoSettings
    <2> DEFINE S == {k \in DOMAIN s.rules : s.rules[k].enabled}
               n == Len(s.rules)
    <2>0. PICK list : list = s.rules  OBVIOUS
    <2>1. list \in Seq(Range(list))  BY <1>2, <2>0, MessageFilterAssumption
    <2>2. n \in Nat /\ DOMAIN list = 1 .. n  BY <2>0, <2>1
    <2>3. S \in SUBSET (1 .. n) /\ A = Kept(list, S)  BY <1>2, <2>0, <2>2 DEF OwnRules
    <2> HIDE DEF S, A, n
    <2>4. PICK m \in Nat : \E f \in [1 .. m -> S] :
              /\ A = [k \in 1 .. m |-> list[f[k]]]
              /\ \A i, j \in 1 .. m : i < j => f[i] < f[j]
      BY <2>2, <2>3, KeptInOrder
    <2>5. A \in [1 .. m -> Range(A)]  BY <2>4 DEF Range
    <2>6. A \in Seq(Range(A))  BY <2>4, <2>5
    <2> QED  BY <2>6 DEF A
  <1> QED  BY <1>1, <1>2

\* A rule that has been tried and has not decided: at the hour it was tried it did not match,
\* or it only writes to the log.
PassedOver(r, ctx) == \E h \in Hours : RuleAccepts(r.rule, ctx, h) => r.action \notin Deciding

\* The rules still to try are the last ones, and the others have been passed over.
Tried(k) ==
    LET all == RulesOf(k.settings, k.ctx) IN
    \E t \in 0 .. Len(all) :
        /\ k.todo = [j \in 1 .. Len(all) - t |-> all[t + j]]
        /\ \A j \in 1 .. t : PassedOver(all[j], k.ctx)

\* What the check of the rules promises when it allows.
Behind(k) ==
    \A b \in Range(Applicable(k.ctx)) : Stops(b, k.ctx) =>
        \/ \E a \in Range(OwnRules(k.settings)) : Lets(a, k.ctx)
        \/ \E a \in Range(Applicable(k.ctx)) : Lets(a, k.ctx) /\ a.priority >= b.priority

\* The same of the rules of the ESME, in the order in which they are listed.
OwnBehind(k) ==
    \A j \in DOMAIN OwnRules(k.settings) : Stops(OwnRules(k.settings)[j], k.ctx) =>
        \E i \in DOMAIN OwnRules(k.settings) : i < j /\ Lets(OwnRules(k.settings)[i], k.ctx)

Unlisted(k) == k.settings # NoSettings => ~ ListBlock(k.settings, k.ctx)

\* A check under way: what it has found out so far.
CheckInOrder(k) ==
    \/ k = NotChecking
    \/ /\ k = [at |-> k.at, ctx |-> k.ctx, settings |-> k.settings, todo |-> k.todo, result |-> k.result]
       /\ k.ctx \in FilterMessages /\ k.settings \in EsmeSettings \cup {NoSettings}
       /\ k.at = "settings" => ~ BuiltInBlock(k.ctx)
       /\ k.at = "rules" => ~ BuiltInBlock(k.ctx) /\ Unlisted(k) /\ Tried(k)
       /\ k.at \in {"log", "done"} /\ k.result = "Allowed" /\ filter.enabled =>
             ~ BuiltInBlock(k.ctx) /\ Unlisted(k) /\ Behind(k) /\ OwnBehind(k)

MessageFilterInv ==
    /\ Falling(rules)
    /\ esme_settings \in [Esmes -> EsmeSettings \cup {NoSettings}]
    /\ hour \in Hours
    /\ DOMAIN checking = Checkers
    /\ \A c \in Checkers : CheckInOrder(checking[c])

\* The rules to try: those of the ESME, then the applicable ones.
LEMMA RulesInTurn ==
  ASSUME Falling(rules), NEW s \in EsmeSettings \cup {NoSettings}, NEW ctx
  PROVE  /\ Len(OwnRules(s)) \in Nat /\ DOMAIN OwnRules(s) = 1 .. Len(OwnRules(s))
         /\ Len(Applicable(ctx)) \in Nat /\ DOMAIN Applicable(ctx) = 1 .. Len(Applicable(ctx))
         /\ RulesOf(s, ctx) \in Seq(Range(OwnRules(s)) \cup Range(Applicable(ctx)))
         /\ Len(RulesOf(s, ctx)) = Len(OwnRules(s)) + Len(Applicable(ctx))
         /\ \A j \in 1 .. Len(OwnRules(s)) : RulesOf(s, ctx)[j] = OwnRules(s)[j]
         /\ \A j \in 1 .. Len(Applicable(ctx)) : RulesOf(s, ctx)[Len(OwnRules(s)) + j] = Applicable(ctx)[j]
  <1> DEFINE A == OwnRules(s)
             B == Applicable(ctx)
             T == Range(A) \cup Range(B)
  <1>1. A \in Seq(Range(A)) /\ B \in Seq(Range(B))  BY OwnRulesList, ApplicableFall
  <1>2. RulesOf(s, ctx) = A \o B  BY DEF RulesOf
  <1> HIDE DEF A, B
  <1>3. Len(A) \in Nat /\ DOMAIN A = 1 .. Len(A) /\ Len(B) \in Nat /\ DOMAIN B = 1 .. Len(B)  BY <1>1
  <1>4. A \in Seq(T) /\ B \in Seq(T)
    <2>1. \A i \in 1 .. Len(A) : A[i] \in T  BY <1>3 DEF Range
    <2>2. \A i \in 1 .. Len(B) : B[i] \in T  BY <1>3 DEF Range
    <2>3. A \in [1 .. Len(A) -> T] /\ B \in [1 .. Len(B) -> T]
      <3>1. A = [i \in 1 .. Len(A) |-> A[i]] /\ B = [i \in 1 .. Len(B) |-> B[i]]  BY <1>1
      <3> HIDE DEF T
      <3> QED  BY <2>1, <2>2, <3>1
    <2> HIDE DEF T
    <2> QED  BY <1>3, <2>3
  <1> HIDE DEF T
  <1>5. Len(A \o B) = Len(A) + Len(B) /\ A \o B \in Seq(T)  BY <1>4
  <1>6. \A j \in 1 .. Len(A) : (A \o B)[j] = A[j]  BY <1>3, <1>4
  <1>7. \A j \in 1 .. Len(B) : (A \o B)[Len(A) + j] = B[j]  BY <1>3, <1>4
  <1> QED  BY <1>2, <1>3, <1>5, <1>6, <1>7 DEF A, B, T

\* A rule that lets a message through, or the end of the rules, with every rule before it
\* passed over: no blocking rule that always matches can have been among those.
LEMMA DecisionStands ==
  ASSUME Falling(rules), NEW s \in EsmeSettings \cup {NoSettings}, NEW ctx,
         NEW t \in 0 .. Len(RulesOf(s, ctx)), \A j \in 1 .. t : PassedOver(RulesOf(s, ctx)[j], ctx),
         t = Len(RulesOf(s, ctx)) \/ Lets(RulesOf(s, ctx)[t + 1], ctx),
         NEW b \in Range(Applicable(ctx)), Stops(b, ctx)
  PROVE  \/ \E a \in Range(OwnRules(s)) : Lets(a, ctx)
         \/ \E a \in Range(Applicable(ctx)) : Lets(a, ctx) /\ a.priority >= b.priority
  <1> DEFINE A == OwnRules(s)
             B == Applicable(ctx)
             all == RulesOf(s, ctx)
             a == all[t + 1]
  <1>1. /\ Len(A) \in Nat /\ DOMAIN A = 1 .. Len(A) /\ Len(B) \in Nat /\ DOMAIN B = 1 .. Len(B)
        /\ Len(all) = Len(A) + Len(B)
        /\ \A j \in 1 .. Len(A) : all[j] = A[j]
        /\ \A j \in 1 .. Len(B) : all[Len(A) + j] = B[j]
    BY RulesInTurn
  <1>2. Falling(B)  BY ApplicableFall
  <1>3. PICK n \in 1 .. Len(B) : B[n] = b  BY <1>1 DEF Range
  <1> HIDE DEF A, B, all
  <1>4. all[Len(A) + n] = b  BY <1>1, <1>3
  <1>5. ~ PassedOver(b, ctx)  BY DEF PassedOver, Stops, Deciding
  <1>6. ~ (Len(A) + n \in 1 .. t)
    <2> SUFFICES ASSUME Len(A) + n \in 1 .. t PROVE FALSE
      OBVIOUS
    <2> QED  BY <1>4, <1>5 DEF all
  <1>7. t < Len(A) + n /\ t \in Nat /\ t < Len(all)  BY <1>1, <1>3, <1>6 DEF all
  <1>8. Lets(a, ctx)  BY <1>1, <1>7 DEF all
  <1>9. CASE t + 1 <= Len(A)
    <2>1. a = A[t + 1] /\ t + 1 \in DOMAIN A  BY <1>1, <1>7, <1>9
    <2>2. a \in Range(A)  BY <2>1 DEF Range
    <2> HIDE DEF a
    <2> QED  BY <1>8, <2>2 DEF A
  <1>10. CASE ~ (t + 1 <= Len(A))
    <2> DEFINE m == t + 1 - Len(A)
    <2>1. m \in 1 .. Len(B) /\ Len(A) + m = t + 1 /\ m <= n  BY <1>1, <1>3, <1>7, <1>10
    <2>2. a = B[m]  BY <1>1, <2>1
    <2> HIDE DEF m, a
    <2>3. a \in Range(B)  BY <1>1, <2>1, <2>2 DEF Range
    <2>4. a.priority >= b.priority
      <3>1. m \in DOMAIN B /\ n \in DOMAIN B  BY <1>1, <1>3, <2>1
      <3>2. CASE m < n  BY <1>2, <1>3, <2>2, <3>1, <3>2 DEF Falling
      <3>3. CASE m = n
        <4>1. a = b /\ b.priority \in Int  BY <1>2, <1>3, <2>2, <3>1, <3>3 DEF Falling
        <4> QED  BY <4>1
      <3> QED  BY <1>3, <2>1, <3>2, <3>3
    <2> QED  BY <1>8, <2>3, <2>4 DEF B
  <1> QED  BY <1>9, <1>10

\* The same of the rules of the ESME, which come first.
LEMMA OwnDecisionStands ==
  ASSUME Falling(rules), NEW s \in EsmeSettings \cup {NoSettings}, NEW ctx,
         NEW t \in 0 .. Len(RulesOf(s, ctx)), \A j \in 1 .. t : PassedOver(RulesOf(s, ctx)[j], ctx),
         t = Len(RulesOf(s, ctx)) \/ Lets(RulesOf(s, ctx)[t + 1], ctx),
         NEW n \in DOMAIN OwnRules(s), Stops(OwnRules(s)[n], ctx)
  PROVE  \E i \in DOMAIN OwnRules(s) : i < n /\ Lets(OwnRules(s)[i], ctx)
  <1> DEFINE A == OwnRules(s)
             B == Applicable(ctx)
             all == RulesOf(s, ctx)
  <1>1. /\ Len(A) \in Nat /\ DOMAIN A = 1 .. Len(A) /\ Len(B) \in Nat
        /\ Len(all) = Len(A) + Len(B)
        /\ \A j \in 1 .. Len(A) : all[j] = A[j]
    BY RulesInTurn
  <1> HIDE DEF A, B, all
  <1>2. n \in 1 .. Len(A) /\ all[n] = A[n]  BY <1>1 DEF A
  <1>3. ~ PassedOver(all[n], ctx)  BY <1>2 DEF PassedOver, Stops, Deciding, A
  <1>4. ~ (n \in 1 .. t)  BY <1>3 DEF all
  <1>5. t < n /\ t \in Nat /\ t < Len(all)  BY <1>1, <1>2, <1>4 DEF all
  <1>6. Lets(all[t + 1], ctx)  BY <1>1, <1>5 DEF all
  <1>7. t + 1 \in DOMAIN A /\ all[t + 1] = A[t + 1]  BY <1>1, <1>2, <1>5
  <1>8. t + 1 # n
    <2> SUFFICES ASSUME t + 1 = n PROVE FALSE
      OBVIOUS
    <2>1. Lets(A[n], ctx) /\ Stops(A[n], ctx)  BY <1>6, <1>7 DEF A
    <2> QED  BY <2>1 DEF Lets, Stops
  <1>9. t + 1 < n  BY <1>2, <1>5, <1>8
  <1>10. Lets(A[t + 1], ctx)  BY <1>6, <1>7
  <1> QED  BY <1>7, <1>9, <1>10 DEF A

\* What a step that leaves the configuration and the rules alone does not take back.
LEMMA CheckKept ==
  ASSUME NEW k, CheckInOrder(k), UNCHANGED <<filter, rules>>
  PROVE  CheckInOrder(k)'
  <1>1. CASE k = NotChecking  BY <1>1 DEF CheckInOrder
  <1>2. CASE k # NotChecking
    <2>1. BuiltInBlock(k.ctx)' = BuiltInBlock(k.ctx)  BY DEF BuiltInBlock
    <2>2. Applicable(k.ctx)' = Applicable(k.ctx)  BY DEF Applicable
    <2>3. Unlisted(k)' = Unlisted(k)  BY DEF Unlisted
    <2>4. Tried(k) => Tried(k)'  BY <2>2 DEF Tried, RulesOf
    <2>5. Behind(k) => Behind(k)'  BY <2>2 DEF Behind
    <2>6. OwnBehind(k) => OwnBehind(k)'  BY DEF OwnBehind
    <2> QED  BY <1>2, <2>1, <2>3, <2>4, <2>5, <2>6 DEF CheckInOrder
  <1> QED  BY <1>1, <1>2

\* A step of one check.
LEMMA OneCheck ==
  ASSUME MessageFilterInv, UNCHANGED <<filter, rules, esme_settings, hour>>, NEW c \in Checkers, NEW k,
         checking' = [checking EXCEPT ![c] = k], CheckInOrder(k)
  PROVE  MessageFilterInv'
  <1>1. DOMAIN checking' = Checkers  BY DEF MessageFilterInv
  <1>2. ASSUME NEW d \in Checkers PROVE CheckInOrder(checking[d])'
    <2>1. PICK new : new = checking'[d]  OBVIOUS
    <2>2. CheckInOrder(new)
      <3>1. CASE d = c  BY <2>1, <3>1 DEF MessageFilterInv
      <3>2. CASE d # c  BY <2>1, <3>2 DEF MessageFilterInv
      <3> QED  BY <3>1, <3>2
    <2>3. CheckInOrder(new)'  BY <2>2, CheckKept
    <2> QED  BY <2>1, <2>3
  <1> QED  BY <1>1, <1>2 DEF MessageFilterInv

\* A check begins.
LEMMA CheckStep ==
  ASSUME MessageFilterInv, NEW c \in Checkers, NEW ctx \in FilterMessages, Check(c, ctx)
  PROVE  MessageFilterInv'
  <1> DEFINE begun == [at |-> "settings", ctx |-> ctx, settings |-> NoSettings, todo |-> <<>>,
                       result |-> "Allowed"]
  <1>1. PICK k : k = IF ~filter.enabled THEN [begun EXCEPT !.at = "done"]
                     ELSE IF BuiltInBlock(ctx) THEN [begun EXCEPT !.at = "log", !.result = "Blocked"]
                     ELSE begun
    OBVIOUS
  <1>2. checking' = [checking EXCEPT ![c] = k] /\ UNCHANGED <<filter, rules, esme_settings, hour>>
    BY <1>1 DEF Check
  <1>3. CASE ~ filter.enabled
    <2>1. k = [at |-> "done", ctx |-> ctx, settings |-> NoSettings, todo |-> <<>>, result |-> "Allowed"]
      BY <1>1, <1>3
    <2>2. CheckInOrder(k)  BY <1>3, <2>1 DEF CheckInOrder
    <2> QED  BY <1>2, <2>2, OneCheck
  <1>4. CASE filter.enabled /\ BuiltInBlock(ctx)
    <2>1. k = [at |-> "log", ctx |-> ctx, settings |-> NoSettings, todo |-> <<>>, result |-> "Blocked"]
      BY <1>1, <1>4
    <2>2. CheckInOrder(k)  BY <2>1 DEF CheckInOrder
    <2> QED  BY <1>2, <2>2, OneCheck
  <1>5. CASE filter.enabled /\ ~ BuiltInBlock(ctx)
    <2>1. k = begun  BY <1>1, <1>5
    <2>2. k.at = "settings" /\ k.ctx = ctx /\ k.settings = NoSettings  BY <2>1
    <2>3. CheckInOrder(k)  BY <1>5, <2>1, <2>2 DEF CheckInOrder
    <2> QED  BY <1>2, <2>3, OneCheck
  <1> QED  BY <1>3, <1>4, <1>5

\* The settings are read once.
LEMMA ReadSettingsStep ==
  ASSUME MessageFilterInv, NEW c \in Checkers, ReadSettings(c)
  PROVE  MessageFilterInv'
  <1>1. PICK old : old = checking[c]  OBVIOUS
  <1>2. PICK s : s = esme_settings[old.ctx.system_id]  OBVIOUS
  <1>3. CheckInOrder(old) /\ old.at = "settings"  BY <1>1 DEF ReadSettings, MessageFilterInv
  <1>4. /\ old = [at |-> old.at, ctx |-> old.ctx, settings |-> old.settings, todo |-> old.todo, result |-> old.result]
        /\ old.ctx \in FilterMessages /\ ~ BuiltInBlock(old.ctx)
    BY <1>3 DEF CheckInOrder, NotChecking
  <1>5. s \in EsmeSettings \cup {NoSettings}
    BY <1>2, <1>4, MessageFilterAssumption DEF MessageFilterInv
  <1>6. PICK k : k = IF s # NoSettings /\ ListBlock(s, old.ctx)
                     THEN [old EXCEPT !.at = "log", !.result = "Blocked", !.settings = s]
                     ELSE [old EXCEPT !.at = "rules", !.settings = s, !.todo = RulesOf(s, old.ctx)]
    OBVIOUS
  <1>7. checking' = [checking EXCEPT ![c] = k] /\ UNCHANGED <<filter, rules, esme_settings, hour>>
    BY <1>1, <1>2, <1>6 DEF ReadSettings, MessageFilterInv
  <1>8. CASE s # NoSettings /\ ListBlock(s, old.ctx)
    <2>1. k = [at |-> "log", ctx |-> old.ctx, settings |-> s, todo |-> old.todo, result |-> "Blocked"]
      BY <1>4, <1>6, <1>8
    <2>2. CheckInOrder(k)  BY <1>4, <1>5, <2>1 DEF CheckInOrder
    <2> QED  BY <1>7, <2>2, OneCheck
  <1>9. CASE ~ (s # NoSettings /\ ListBlock(s, old.ctx))
    <2>1. k = [at |-> "rules", ctx |-> old.ctx, settings |-> s, todo |-> RulesOf(s, old.ctx), result |-> old.result]
      BY <1>4, <1>6, <1>9
    <2>2. Unlisted(k)  BY <1>9, <2>1 DEF Unlisted
    <2>3. Tried(k)
      <3> DEFINE all == RulesOf(s, old.ctx)
      <3>1. all \in Seq(Range(OwnRules(s)) \cup Range(Applicable(old.ctx))) /\ Len(all) \in Nat
        <4>1. all \in Seq(Range(OwnRules(s)) \cup Range(Applicable(old.ctx)))
          BY <1>5, RulesInTurn DEF MessageFilterInv
        <4> HIDE DEF all
        <4> QED  BY <4>1
      <3>2. all = [j \in 1 .. Len(all) - 0 |-> all[0 + j]]
        <4> HIDE DEF all
        <4> QED  BY <3>1
      <3>3. k.settings = s /\ k.ctx = old.ctx /\ k.todo = all  BY <2>1
      <3>4. 0 \in 0 .. Len(all)  BY <3>1
      <3>5. \A j \in 1 .. 0 : PassedOver(all[j], k.ctx)  OBVIOUS
      <3> QED  BY <3>2, <3>3, <3>4, <3>5 DEF Tried
    <2>4. k.at = "rules" /\ k.ctx = old.ctx /\ k.settings = s  BY <2>1
    <2>5. CheckInOrder(k)  BY <1>4, <1>5, <2>1, <2>2, <2>3, <2>4 DEF CheckInOrder
    <2> QED  BY <1>7, <2>5, OneCheck
  <1> QED  BY <1>8, <1>9

\* A check that is trying rules: its record, and how far it has come.
LEMMA CheckTrying ==
  ASSUME MessageFilterInv, NEW c \in Checkers, NEW old, old = checking[c], old.at = "rules"
  PROVE  /\ old = [at |-> old.at, ctx |-> old.ctx, settings |-> old.settings, todo |-> old.todo, result |-> old.result]
         /\ old.ctx \in FilterMessages /\ old.settings \in EsmeSettings \cup {NoSettings}
         /\ ~ BuiltInBlock(old.ctx) /\ Unlisted(old)
         /\ Len(RulesOf(old.settings, old.ctx)) \in Nat
         /\ \E t \in 0 .. Len(RulesOf(old.settings, old.ctx)) :
               /\ old.todo = [j \in 1 .. Len(RulesOf(old.settings, old.ctx)) - t |->
                                 RulesOf(old.settings, old.ctx)[t + j]]
               /\ \A j \in 1 .. t : PassedOver(RulesOf(old.settings, old.ctx)[j], old.ctx)
  <1>1. CheckInOrder(old)  BY DEF MessageFilterInv
  <1>2. old # NotChecking  BY DEF NotChecking
  <1>3. /\ old = [at |-> old.at, ctx |-> old.ctx, settings |-> old.settings, todo |-> old.todo, result |-> old.result]
        /\ old.ctx \in FilterMessages /\ old.settings \in EsmeSettings \cup {NoSettings}
        /\ ~ BuiltInBlock(old.ctx) /\ Unlisted(old) /\ Tried(old)
    BY <1>1, <1>2 DEF CheckInOrder
  <1>4. RulesOf(old.settings, old.ctx) \in Seq(Range(OwnRules(old.settings)) \cup Range(Applicable(old.ctx)))
    BY <1>3, RulesInTurn DEF MessageFilterInv
  <1>5. Len(RulesOf(old.settings, old.ctx)) \in Nat  BY <1>4
  <1> QED  BY <1>3, <1>5 DEF Tried

\* A check that has decided.
LEMMA DecideStep ==
  ASSUME MessageFilterInv, UNCHANGED <<filter, rules, esme_settings, hour>>, NEW c \in Checkers,
         checking[c].at = "rules", NEW result, Decide(c, result),
         result = "Allowed" => Behind(checking[c]) /\ OwnBehind(checking[c])
  PROVE  MessageFilterInv'
  <1>1. PICK old : old = checking[c]  OBVIOUS
  <1>2. /\ old = [at |-> old.at, ctx |-> old.ctx, settings |-> old.settings, todo |-> old.todo, result |-> old.result]
        /\ old.ctx \in FilterMessages /\ old.settings \in EsmeSettings \cup {NoSettings}
        /\ ~ BuiltInBlock(old.ctx) /\ Unlisted(old)
    BY <1>1, CheckTrying
  <1>3. PICK k : k = [at |-> "log", ctx |-> old.ctx, settings |-> old.settings, todo |-> old.todo, result |-> result]
    OBVIOUS
  <1>4. checking' = [checking EXCEPT ![c] = k]
    <2>1. checking' = [checking EXCEPT ![c] = [old EXCEPT !.at = "log", !.result = result]]
      BY <1>1 DEF Decide, MessageFilterInv
    <2>2. old = [at |-> old.at, ctx |-> old.ctx, settings |-> old.settings, todo |-> old.todo, result |-> old.result]
      BY <1>2
    <2>3. PICK at, ctx, settings, todo, res :
             old = [at |-> at, ctx |-> ctx, settings |-> settings, todo |-> todo, result |-> res]
      BY <2>2
    <2>4. [old EXCEPT !.at = "log", !.result = result] =
             [at |-> "log", ctx |-> ctx, settings |-> settings, todo |-> todo, result |-> result]
      <3> DEFINE e == [old EXCEPT !.at = "log", !.result = result]
      <3>1. e.at = "log" /\ e.ctx = ctx /\ e.settings = settings /\ e.todo = todo /\ e.result = result
        BY <2>3
      <3>2. e = [f \in {"at", "ctx", "settings", "todo", "result"} |-> e[f]]  BY <2>3
      <3> HIDE DEF e
      <3>3. e = [at |-> "log", ctx |-> ctx, settings |-> settings, todo |-> todo, result |-> result]
        BY <3>1, <3>2
      <3> QED  BY <3>3 DEF e
    <2>5. [old EXCEPT !.at = "log", !.result = result] = k  BY <1>3, <2>3, <2>4
    <2> QED  BY <2>1, <2>5
  <1>5. k.at = "log" /\ k.ctx = old.ctx /\ k.settings = old.settings /\ k.result = result  BY <1>3
  <1>6. Unlisted(k)  BY <1>2, <1>5 DEF Unlisted
  <1>7. result = "Allowed" => Behind(k) /\ OwnBehind(k)  BY <1>1, <1>5 DEF Behind, OwnBehind
  <1>8. CheckInOrder(k)  BY <1>2, <1>3, <1>5, <1>6, <1>7 DEF CheckInOrder
  <1> QED  BY <1>4, <1>8, OneCheck

\* The next rule is tried.
LEMMA ApplyRuleStep ==
  ASSUME MessageFilterInv, NEW c \in Checkers, ApplyRule(c)
  PROVE  MessageFilterInv'
  <1>1. PICK old : old = checking[c]  OBVIOUS
  <1>2. old.at = "rules" /\ old.todo # <<>> /\ UNCHANGED <<filter, rules, esme_settings, hour>>
    BY <1>1 DEF ApplyRule
  <1>3. PICK all : all = RulesOf(old.settings, old.ctx)  OBVIOUS
  <1>4. /\ old = [at |-> old.at, ctx |-> old.ctx, settings |-> old.settings, todo |-> old.todo, result |-> old.result]
        /\ old.ctx \in FilterMessages /\ old.settings \in EsmeSettings \cup {NoSettings}
        /\ ~ BuiltInBlock(old.ctx) /\ Unlisted(old) /\ Len(all) \in Nat
    BY <1>1, <1>2, <1>3, CheckTrying
  <1>5. PICK t \in 0 .. Len(all) :
              /\ old.todo = [j \in 1 .. Len(all) - t |-> all[t + j]]
              /\ \A j \in 1 .. t : PassedOver(all[j], old.ctx)
    BY <1>1, <1>2, <1>3, CheckTrying
  <1>6. t < Len(all)
    <2> SUFFICES ASSUME t = Len(all) PROVE FALSE
      BY <1>4, <1>5
    <2>1. 1 .. Len(all) - t = {}  BY <1>4, <1>5
    <2>2. old.todo = <<>>  BY <1>5, <2>1
    <2> QED  BY <1>2, <2>2
  <1> DEFINE m == Len(all) - t
             rest == [j \in 1 .. m - 1 |-> all[t + 1 + j]]
  <1>7. m \in Nat /\ m > 0 /\ t \in Nat  BY <1>4, <1>5, <1>6
  <1>8. Head(old.todo) = all[t + 1] /\ Tail(old.todo) = rest
    <2>1. PICK q : q = [j \in 1 .. m |-> all[t + j]]  OBVIOUS
    <2>2. old.todo = q  BY <1>5, <2>1
    <2>3. q \in [1 .. m -> Range(q)]  BY <2>1 DEF Range
    <2> HIDE DEF m
    <2>4. q \in Seq(Range(q)) /\ Len(q) = m  BY <1>7, <2>3
    <2>5. Head(q) = q[1] /\ q[1] = all[t + 1]  BY <1>7, <2>1, <2>4
    <2>6. Tail(q) = [j \in 1 .. m - 1 |-> q[j + 1]]
      <3>1. q # <<>>  BY <1>7, <2>4
      <3>2. Tail(q) \in Seq(Range(q)) /\ Len(Tail(q)) = m - 1  BY <1>7, <2>4, <3>1
      <3>3. \A j \in 1 .. m - 1 : Tail(q)[j] = q[j + 1]  BY <1>7, <2>4, <3>1, <3>2
      <3>4. Tail(q) \in [1 .. m - 1 -> Range(q)]
        <4>1. PICK u : u = Tail(q)  OBVIOUS
        <4>2. u \in Seq(Range(q)) /\ Len(u) = m - 1  BY <3>2, <4>1
        <4>3. u \in [1 .. Len(u) -> Range(q)]  BY <4>2
        <4> QED  BY <4>1, <4>2, <4>3
      <3> QED  BY <3>3, <3>4
    <2>7. \A j \in 1 .. m - 1 : q[j + 1] = all[t + 1 + j]
      <3> TAKE j \in 1 .. m - 1
      <3>1. j + 1 \in 1 .. m /\ t + (j + 1) = t + 1 + j  BY <1>7
      <3> QED  BY <2>1, <3>1
    <2> QED  BY <2>2, <2>5, <2>6, <2>7
  <1>9. PICK r : r = all[t + 1]  OBVIOUS
  <1>10. hour \in Hours  BY DEF MessageFilterInv
  <1>11. CASE RuleAccepts(r.rule, old.ctx, hour) /\ r.action \in Deciding
    <2>1. Decide(c, Ruling(r.action))
      BY <1>1, <1>8, <1>9, <1>11 DEF ApplyRule, Deciding
    <2>2. Ruling(r.action) = "Allowed" => Behind(old)
      <3> SUFFICES ASSUME Ruling(r.action) = "Allowed",
                          NEW b \in Range(Applicable(old.ctx)), Stops(b, old.ctx)
                   PROVE  \/ \E a \in Range(OwnRules(old.settings)) : Lets(a, old.ctx)
                          \/ \E a \in Range(Applicable(old.ctx)) : Lets(a, old.ctx) /\ a.priority >= b.priority
        BY DEF Behind
      <3>1. r.action \in {"Allow", "Modify"}  BY <1>11 DEF Ruling, Deciding
      <3>2. Lets(r, old.ctx)  BY <1>10, <1>11, <3>1 DEF Lets
      <3> QED  BY <1>3, <1>4, <1>5, <1>9, <3>2, DecisionStands DEF MessageFilterInv
    <2>3. Ruling(r.action) = "Allowed" => OwnBehind(old)
      <3> SUFFICES ASSUME Ruling(r.action) = "Allowed",
                          NEW j \in DOMAIN OwnRules(old.settings), Stops(OwnRules(old.settings)[j], old.ctx)
                   PROVE  \E i \in DOMAIN OwnRules(old.settings) : i < j /\ Lets(OwnRules(old.settings)[i], old.ctx)
        BY DEF OwnBehind
      <3>1. r.action \in {"Allow", "Modify"}  BY <1>11 DEF Ruling, Deciding
      <3>2. Lets(r, old.ctx)  BY <1>10, <1>11, <3>1 DEF Lets
      <3> QED  BY <1>3, <1>4, <1>5, <1>9, <3>2, OwnDecisionStands DEF MessageFilterInv
    <2> QED  BY <1>1, <1>2, <2>1, <2>2, <2>3, DecideStep
  <1>12. CASE ~ (RuleAccepts(r.rule, old.ctx, hour) /\ r.action \in Deciding)
    <2>1. checking' = [checking EXCEPT ![c].todo = Tail(@)]
      BY <1>1, <1>8, <1>9, <1>12 DEF ApplyRule
    <2>2. PICK k : k = [at |-> "rules", ctx |-> old.ctx, settings |-> old.settings, todo |-> rest,
                        result |-> old.result]
      OBVIOUS
    <2>3. checking' = [checking EXCEPT ![c] = k]
      <3>1. checking' = [checking EXCEPT ![c] = [old EXCEPT !.todo = rest]]
        BY <1>1, <1>8, <2>1 DEF MessageFilterInv
      <3>2. [old EXCEPT !.todo = rest] = k
        <4> HIDE DEF rest
        <4> QED  BY <1>2, <1>4, <2>2
      <3> QED  BY <3>1, <3>2
    <2>4. /\ k.at = "rules" /\ k.ctx = old.ctx /\ k.settings = old.settings /\ k.todo = rest
          /\ k = [at |-> k.at, ctx |-> k.ctx, settings |-> k.settings, todo |-> k.todo, result |-> k.result]
      <3> HIDE DEF rest
      <3> QED  BY <2>2
    <2>5. PassedOver(r, old.ctx)  BY <1>10, <1>12 DEF PassedOver
    <2>6. Tried(k)
      <3>1. t + 1 \in 0 .. Len(all) /\ Len(all) - (t + 1) = m - 1  BY <1>4, <1>5, <1>6
      <3>2. \A j \in 1 .. t + 1 : PassedOver(all[j], old.ctx)
        <4> TAKE j \in 1 .. t + 1
        <4>1. CASE j = t + 1  BY <1>9, <2>5, <4>1
        <4>2. CASE j # t + 1
          <5>1. j \in 1 .. t  BY <1>7, <4>2
          <5> QED  BY <1>5, <5>1
        <4> QED  BY <4>1, <4>2
      <3>3. k.todo = [j \in 1 .. Len(all) - (t + 1) |-> all[t + 1 + j]]  BY <2>4, <3>1
      <3> QED  BY <1>3, <2>4, <3>1, <3>2, <3>3 DEF Tried
    <2>7. Unlisted(k)  BY <1>4, <2>4 DEF Unlisted
    <2>8. CheckInOrder(k)
      <3> HIDE DEF rest
      <3> QED  BY <1>4, <2>4, <2>6, <2>7 DEF CheckInOrder
    <2> QED  BY <1>2, <2>3, <2>8, OneCheck
  <1> QED  BY <1>11, <1>12

\* No rule has decided.
LEMMA DefaultActionStep ==
  ASSUME MessageFilterInv, NEW c \in Checkers, DefaultAction(c)
  PROVE  MessageFilterInv'
  <1>1. PICK old : old = checking[c]  OBVIOUS
  <1>2. old.at = "rules"  BY <1>1 DEF DefaultAction
  <1>3. PICK all : all = RulesOf(old.settings, old.ctx)  OBVIOUS
  <1>4. old.settings \in EsmeSettings \cup {NoSettings} /\ Len(all) \in Nat
    BY <1>1, <1>2, <1>3, CheckTrying
  <1>5. PICK t \in 0 .. Len(all) :
              /\ old.todo = [j \in 1 .. Len(all) - t |-> all[t + j]]
              /\ \A j \in 1 .. t : PassedOver(all[j], old.ctx)
    <2>1. CheckInOrder(old) /\ old # NotChecking  BY <1>1, <1>2 DEF MessageFilterInv, NotChecking
    <2>2. Tried(old)  BY <1>2, <2>1 DEF CheckInOrder
    <2> QED  BY <1>3, <2>2 DEF Tried
  <1>6. t = Len(all)
    <2> SUFFICES ASSUME t < Len(all) PROVE FALSE
      BY <1>4, <1>5
    <2>1. 1 \in 1 .. Len(all) - t  BY <1>4, <1>5
    <2>2. 1 \in DOMAIN old.todo  BY <1>5, <2>1
    <2>3. old.todo = <<>>  BY <1>1 DEF DefaultAction
    <2> QED  BY <2>2, <2>3
  <1>7. Behind(old)
    <2> SUFFICES ASSUME NEW b \in Range(Applicable(old.ctx)), Stops(b, old.ctx)
                 PROVE  \/ \E a \in Range(OwnRules(old.settings)) : Lets(a, old.ctx)
                        \/ \E a \in Range(Applicable(old.ctx)) : Lets(a, old.ctx) /\ a.priority >= b.priority
      BY DEF Behind
    <2> QED  BY <1>3, <1>4, <1>5, <1>6, DecisionStands DEF MessageFilterInv
  <1>9. OwnBehind(old)
    <2> SUFFICES ASSUME NEW j \in DOMAIN OwnRules(old.settings), Stops(OwnRules(old.settings)[j], old.ctx)
                 PROVE  \E i \in DOMAIN OwnRules(old.settings) : i < j /\ Lets(OwnRules(old.settings)[i], old.ctx)
      BY DEF OwnBehind
    <2> QED  BY <1>3, <1>4, <1>5, <1>6, OwnDecisionStands DEF MessageFilterInv
  <1>8. PICK result : Decide(c, result) /\ UNCHANGED <<filter, rules, esme_settings, hour>>
    BY DEF DefaultAction
  <1> QED  BY <1>1, <1>2, <1>7, <1>8, <1>9, DecideStep

\* The decision is logged and given.
LEMMA LogResultStep ==
  ASSUME MessageFilterInv, NEW c \in Checkers, LogResult(c)
  PROVE  MessageFilterInv'
  <1>1. PICK old : old = checking[c]  OBVIOUS
  <1>2. CheckInOrder(old) /\ old.at = "log" /\ UNCHANGED <<filter, rules, esme_settings, hour>>
    BY <1>1 DEF LogResult, MessageFilterInv
  <1>3. old # NotChecking  BY <1>2 DEF NotChecking
  <1>4. PICK k : k = [at |-> "done", ctx |-> old.ctx, settings |-> old.settings, todo |-> old.todo,
                      result |-> old.result]
    OBVIOUS
  <1>5. checking' = [checking EXCEPT ![c] = k]
    <2>1. checking' = [checking EXCEPT ![c] = [old EXCEPT !.at = "done"]]
      BY <1>1 DEF LogResult, MessageFilterInv
    <2>2. [old EXCEPT !.at = "done"] = k  BY <1>2, <1>3, <1>4 DEF CheckInOrder
    <2> QED  BY <2>1, <2>2
  <1>6. k.at = "done" /\ k.ctx = old.ctx /\ k.settings = old.settings /\ k.result = old.result  BY <1>4
  <1>7. Unlisted(old) => Unlisted(k)  BY <1>6 DEF Unlisted
  <1>8. (Behind(old) => Behind(k)) /\ (OwnBehind(old) => OwnBehind(k))  BY <1>6 DEF Behind, OwnBehind
  <1>9. CheckInOrder(k)  BY <1>2, <1>3, <1>4, <1>6, <1>7, <1>8 DEF CheckInOrder
  <1> QED  BY <1>2, <1>5, <1>9, OneCheck

\* What the checks do not touch.
LEMMA FilterKept ==
  ASSUME MessageFilterInv, UNCHANGED <<filter, rules, checking>>, hour' \in Hours,
         esme_settings' \in [Esmes -> EsmeSettings \cup {NoSettings}]
  PROVE  MessageFilterInv'
  <1>1. ASSUME NEW d \in Checkers PROVE CheckInOrder(checking[d])'
    <2>1. PICK k : k = checking[d]  OBVIOUS
    <2>2. CheckInOrder(k)'  BY <2>1, CheckKept DEF MessageFilterInv
    <2> QED  BY <2>1, <2>2
  <1> QED  BY <1>1 DEF MessageFilterInv

\* The filter's inductive invariant: the rules by falling priority, and of every check that
\* the rules it has come past have each been passed over.
THEOREM MessageFilterInvariant == MessageFilterSpec => []MessageFilterInv
  <1>1. MessageFilterInit => MessageFilterInv
    <2> SUFFICES ASSUME MessageFilterInit PROVE MessageFilterInv
      OBVIOUS
    <2>1. Falling(rules)  BY WithRulesFall DEF MessageFilterInit
    <2>2. \A c \in Checkers : CheckInOrder(checking[c])  BY DEF MessageFilterInit, CheckInOrder
    <2> QED  BY <2>1, <2>2 DEF MessageFilterInit, MessageFilterInv
  <1>2. MessageFilterInv /\ [MessageFilterNext]_mf_vars => MessageFilterInv'
    <2> SUFFICES ASSUME MessageFilterInv, [MessageFilterNext]_mf_vars PROVE MessageFilterInv'
      OBVIOUS
    <2>1. ASSUME NEW c \in Checkers, NEW ctx \in FilterMessages, Check(c, ctx) PROVE MessageFilterInv'
      BY <2>1, CheckStep
    <2>2. ASSUME NEW c \in Checkers, ReadSettings(c) PROVE MessageFilterInv'  BY <2>2, ReadSettingsStep
    <2>3. ASSUME NEW c \in Checkers, ApplyRule(c) PROVE MessageFilterInv'  BY <2>3, ApplyRuleStep
    <2>4. ASSUME NEW c \in Checkers, DefaultAction(c) PROVE MessageFilterInv'  BY <2>4, DefaultActionStep
    <2>5. ASSUME NEW c \in Checkers, LogResult(c) PROVE MessageFilterInv'  BY <2>5, LogResultStep
    <2>6. ASSUME NEW e \in Esmes, NEW s \in EsmeSettings, SetEsmeSettings(e, s) PROVE MessageFilterInv'
      <3>1. esme_settings' \in [Esmes -> EsmeSettings \cup {NoSettings}]
        BY <2>6 DEF SetEsmeSettings, MessageFilterInv
      <3>2. UNCHANGED <<filter, rules, checking>> /\ hour' \in Hours
        BY <2>6 DEF SetEsmeSettings, MessageFilterInv
      <3> QED  BY <3>1, <3>2, FilterKept
    <2>7. CASE HourPasses
      <3>1. esme_settings' \in [Esmes -> EsmeSettings \cup {NoSettings}]
        BY <2>7 DEF HourPasses, MessageFilterInv
      <3>2. UNCHANGED <<filter, rules, checking>> /\ hour' \in Hours  BY <2>7 DEF HourPasses
      <3> QED  BY <3>1, <3>2, FilterKept
    <2>8. CASE UNCHANGED mf_vars
      <3>1. /\ esme_settings' \in [Esmes -> EsmeSettings \cup {NoSettings}]
            /\ UNCHANGED <<filter, rules, checking>> /\ hour' \in Hours
        BY <2>8 DEF mf_vars, MessageFilterInv
      <3> QED  BY <3>1, FilterKept
    <2> QED  BY <2>1, <2>2, <2>3, <2>4, <2>5, <2>6, <2>7, <2>8 DEF MessageFilterNext
  <1> QED  BY <1>1, <1>2, PTL DEF MessageFilterSpec

\* A message the filter lets through has broken no restriction, is on no list against it, and
\* no blocking rule that matches it came before the rule that let it through, for any number
\* of checks at once and however settings and the hour change meanwhile (Firewall::check).
THEOREM AllowedIsClean == MessageFilterSpec => []AllowedMeansClean
  <1>1. MessageFilterInv => AllowedMeansClean
    <2> SUFFICES ASSUME MessageFilterInv, NEW c \in Checkers, checking[c].at \in {"log", "done"},
                        checking[c].result = "Allowed", filter.enabled
                 PROVE  /\ ~ BuiltInBlock(checking[c].ctx) /\ Unlisted(checking[c])
                        /\ Behind(checking[c]) /\ OwnBehind(checking[c])
      BY DEF AllowedMeansClean, Unlisted, Behind, OwnBehind
    <2>1. PICK k : k = checking[c]  OBVIOUS
    <2>2. CheckInOrder(k) /\ k # NotChecking  BY <2>1 DEF MessageFilterInv, NotChecking
    <2> QED  BY <2>1, <2>2 DEF CheckInOrder
  <1> QED  BY <1>1, MessageFilterInvariant, PTL

\* The log and the checks have their types: what a check answers is one of three, and the log
\* outgrows its limit only for one event.
Answers == {"Allowed", "Blocked", "Quarantined"}
Events == Answers \cup {"Alarm"}
LogTyped ==
    /\ filter.max_log_events \in Nat
    /\ event_log \in Seq(Events)
    /\ Len(event_log) <= filter.max_log_events \/ Len(event_log) = 1
CheckTyped(k) ==
    k = NotChecking \/ (k.at \in {"idle", "settings", "rules", "log", "done"} /\ k.result \in Answers)
FilterTyped == LogTyped /\ \A c \in Checkers : CheckTyped(checking[c])

\* A full log drops its oldest event for the new one.
LEMMA LogKeepsItsLength ==
  ASSUME LogTyped, NEW event \in Events, Log(event), UNCHANGED filter
  PROVE  LogTyped'
  <1>1. PICK old : old = IF Len(event_log) >= filter.max_log_events /\ event_log # <<>>
                         THEN Tail(event_log) ELSE event_log
    OBVIOUS
  <1>2. event_log' = Append(old, event)  BY <1>1 DEF Log
  <1>3. Len(event_log) \in Nat /\ (event_log # <<>> <=> Len(event_log) > 0)  BY DEF LogTyped
  <1>4. old \in Seq(Events) /\ (old = event_log \/ (Len(event_log) > 0 /\ Len(old) = Len(event_log) - 1))
    BY <1>1, <1>3 DEF LogTyped
  <1>5. event_log' \in Seq(Events) /\ Len(event_log') = Len(old) + 1  BY <1>2, <1>4
  <1>6. Len(event_log) >= filter.max_log_events /\ Len(event_log) > 0 => Len(old) = Len(event_log) - 1
    BY <1>1, <1>3 DEF LogTyped
  <1> QED  BY <1>3, <1>4, <1>5, <1>6 DEF LogTyped

\* One check moves, its entry stays typed and so does the log.
LEMMA OneTypedCheck ==
  ASSUME MessageFilterInv, FilterTyped, NEW c \in Checkers, NEW k, CheckTyped(k),
         checking' = [checking EXCEPT ![c] = k], LogTyped'
  PROVE  FilterTyped'
  <1>1. \A d \in Checkers : checking'[d] = IF d = c THEN k ELSE checking[d]  BY DEF MessageFilterInv
  <1>2. \A d \in Checkers : CheckTyped(checking'[d])  BY <1>1 DEF FilterTyped
  <1> QED  BY <1>2 DEF FilterTyped, CheckTyped

\* Each step of a check leaves the log and the check typed.
LEMMA CheckTypedStep ==
  ASSUME MessageFilterInv, FilterTyped, NEW c \in Checkers,
         \/ \E ctx \in FilterMessages : Check(c, ctx)
         \/ ReadSettings(c) \/ ApplyRule(c) \/ DefaultAction(c) \/ LogResult(c)
  PROVE  FilterTyped'
  <1>1. PICK old : old = checking[c]  OBVIOUS
  <1>2. CheckTyped(old) /\ CheckInOrder(old) /\ LogTyped /\ DOMAIN checking = Checkers
    BY <1>1 DEF MessageFilterInv, FilterTyped
  <1>3. UNCHANGED <<filter, event_log>> => LogTyped'  BY <1>2 DEF LogTyped
  <1>4. ASSUME NEW ctx \in FilterMessages, Check(c, ctx) PROVE FilterTyped'
    <2>1. UNCHANGED <<filter, event_log>>  BY <1>4 DEF Check
    <2>2. PICK begun : begun = [at |-> "settings", ctx |-> ctx, settings |-> NoSettings, todo |-> <<>>,
                                result |-> "Allowed"]
      OBVIOUS
    <2>3. PICK k : k = IF ~filter.enabled THEN [begun EXCEPT !.at = "done"]
                       ELSE IF BuiltInBlock(ctx) THEN [begun EXCEPT !.at = "log", !.result = "Blocked"]
                       ELSE begun
      OBVIOUS
    <2>4. checking' = [checking EXCEPT ![c] = k]  BY <1>4, <2>2, <2>3 DEF Check
    <2>5. k.at \in {"settings", "log", "done"} /\ k.result \in {"Allowed", "Blocked"}  BY <2>2, <2>3
    <2>6. CheckTyped(k)  BY <2>5 DEF CheckTyped, Answers
    <2> QED  BY <1>3, <2>1, <2>4, <2>6, OneTypedCheck
  <1>5. ASSUME NEW k, checking' = [checking EXCEPT ![c] = k],
               old # NotChecking, k.at \in {"rules", "log", "done"}, k.result \in Answers, LogTyped'
        PROVE  FilterTyped'
    <2>1. CheckTyped(k)  BY <1>5 DEF CheckTyped
    <2> QED  BY <1>5, <2>1, OneTypedCheck
  <1>6. ASSUME old # NotChecking
        PROVE  /\ old.result \in Answers
               /\ old = [at |-> old.at, ctx |-> old.ctx, settings |-> old.settings, todo |-> old.todo,
                         result |-> old.result]
    BY <1>2, <1>6 DEF CheckTyped, CheckInOrder
  <1>7. ASSUME NEW result \in Answers, Decide(c, result), old # NotChecking, UNCHANGED <<filter, event_log>>
        PROVE  FilterTyped'
    <2>1. PICK k : k = [old EXCEPT !.at = "log", !.result = result]  OBVIOUS
    <2>2. checking' = [checking EXCEPT ![c] = k]  BY <1>1, <1>2, <1>7, <2>1 DEF Decide
    <2>3. k.at = "log" /\ k.result = result  BY <1>6, <1>7, <2>1
    <2> QED  BY <1>3, <1>5, <1>7, <2>2, <2>3
  <1>8. CASE ReadSettings(c)
    <2>1. old.at = "settings" /\ UNCHANGED <<filter, event_log>>  BY <1>1, <1>8 DEF ReadSettings
    <2>2. old # NotChecking  BY <2>1 DEF NotChecking
    <2>3. PICK s : s = esme_settings[old.ctx.system_id]  OBVIOUS
    <2>4. PICK todo : todo = RulesOf(s, old.ctx)  OBVIOUS
    <2>5. PICK k : k = IF s # NoSettings /\ ListBlock(s, old.ctx)
                       THEN [old EXCEPT !.at = "log", !.result = "Blocked", !.settings = s]
                       ELSE [old EXCEPT !.at = "rules", !.settings = s, !.todo = todo]
      OBVIOUS
    <2>6. checking' = [checking EXCEPT ![c] = k]  BY <1>1, <1>2, <1>8, <2>3, <2>4, <2>5 DEF ReadSettings
    <2>7. k.at \in {"rules", "log"} /\ k.result \in {"Blocked", old.result}  BY <1>6, <2>2, <2>5
    <2>8. k.result \in Answers  BY <1>6, <2>2, <2>7 DEF Answers
    <2> QED  BY <1>3, <1>5, <2>1, <2>2, <2>6, <2>7, <2>8
  <1>9. CASE ApplyRule(c)
    <2>1. old.at = "rules" /\ UNCHANGED filter  BY <1>1, <1>9 DEF ApplyRule
    <2>2. old # NotChecking  BY <2>1 DEF NotChecking
    <2>3. CASE \E action \in Deciding : Decide(c, Ruling(action)) /\ UNCHANGED event_log
      <3>1. PICK action \in Deciding : Decide(c, Ruling(action)) /\ UNCHANGED event_log  BY <2>3
      <3>2. Ruling(action) \in Answers  BY DEF Deciding, Ruling, Answers
      <3> QED  BY <1>7, <2>1, <2>2, <3>1, <3>2
    <2>4. CASE checking' = [checking EXCEPT ![c].todo = Tail(@)] /\ (Log("Alarm") \/ UNCHANGED event_log)
      <3>1. PICK k : k = [old EXCEPT !.todo = Tail(@)]  OBVIOUS
      <3>2. checking' = [checking EXCEPT ![c] = k]  BY <1>1, <1>2, <2>4, <3>1
      <3>3. k.at = old.at /\ k.result = old.result  BY <1>6, <2>2, <3>1
      <3>4. LogTyped'
        <4>1. CASE Log("Alarm")  BY <1>2, <2>1, <4>1, LogKeepsItsLength DEF Events
        <4>2. CASE UNCHANGED event_log  BY <1>3, <2>1, <4>2
        <4> QED  BY <2>4, <4>1, <4>2
      <3> QED  BY <1>5, <1>6, <2>1, <2>2, <3>2, <3>3, <3>4
    <2> QED  BY <1>9, <2>3, <2>4 DEF ApplyRule
  <1>10. CASE DefaultAction(c)
    <2>1. old.at = "rules" /\ UNCHANGED <<filter, event_log>>  BY <1>1, <1>10 DEF DefaultAction
    <2>2. old # NotChecking  BY <2>1 DEF NotChecking
    <2>3. PICK result : /\ result = IF filter.default_action = "Block" THEN "Blocked" ELSE "Allowed"
                        /\ Decide(c, result)
      BY <1>10 DEF DefaultAction
    <2>4. result \in Answers  BY <2>3 DEF Answers
    <2> QED  BY <1>7, <2>1, <2>2, <2>3, <2>4
  <1>11. CASE LogResult(c)
    <2>1. /\ old.at = "log" /\ UNCHANGED filter /\ Log(old.result)
          /\ checking' = [checking EXCEPT ![c].at = "done"]
      BY <1>1, <1>11 DEF LogResult
    <2>2. old # NotChecking  BY <2>1 DEF NotChecking
    <2>3. PICK k : k = [old EXCEPT !.at = "done"]  OBVIOUS
    <2>4. checking' = [checking EXCEPT ![c] = k]  BY <1>1, <1>2, <2>1, <2>3
    <2>5. k.at = "done" /\ k.result = old.result  BY <1>6, <2>2, <2>3
    <2>6. old.result \in Events  BY <1>6, <2>2 DEF Events
    <2>7. LogTyped'  BY <1>2, <2>1, <2>6, LogKeepsItsLength
    <2> QED  BY <1>5, <1>6, <2>2, <2>4, <2>5, <2>7
  <1> QED  BY <1>4, <1>8, <1>9, <1>10, <1>11

\* Every variable of the filter has its type, and the log of events keeps to its limit, but for
\* the one event a log of limit zero holds (FirewallEventLog::log).
THEOREM MessageFilterTyped == MessageFilterSpec => []MessageFilterTypeOK
  <1>1. MessageFilterInit => FilterTyped
    <2> SUFFICES ASSUME MessageFilterInit PROVE FilterTyped
      OBVIOUS
    <2>1. filter.max_log_events \in Nat  BY MessageFilterAssumption DEF MessageFilterInit
    <2>2. event_log \in Seq(Events) /\ Len(event_log) = 0  BY DEF MessageFilterInit
    <2>3. \A c \in Checkers : CheckTyped(checking[c])  BY DEF MessageFilterInit, CheckTyped
    <2> QED  BY <2>1, <2>2, <2>3 DEF FilterTyped, LogTyped
  <1>2. MessageFilterInv /\ FilterTyped /\ [MessageFilterNext]_mf_vars => FilterTyped'
    <2> SUFFICES ASSUME MessageFilterInv, FilterTyped, [MessageFilterNext]_mf_vars PROVE FilterTyped'
      OBVIOUS
    <2>1. ASSUME NEW c \in Checkers,
                 \/ \E ctx \in FilterMessages : Check(c, ctx)
                 \/ ReadSettings(c) \/ ApplyRule(c) \/ DefaultAction(c) \/ LogResult(c)
          PROVE  FilterTyped'
      BY <2>1, CheckTypedStep
    <2>2. CASE UNCHANGED <<filter, event_log, checking>>
      BY <2>2 DEF FilterTyped, LogTyped, CheckTyped
    <2> QED  BY <2>1, <2>2 DEF MessageFilterNext, SetEsmeSettings, HourPasses, mf_vars
  <1>3. FilterTyped => MessageFilterTypeOK
    <2> SUFFICES ASSUME FilterTyped PROVE MessageFilterTypeOK
      OBVIOUS
    <2>1. \A n \in DOMAIN event_log : event_log[n] \in Events  BY DEF FilterTyped, LogTyped
    <2>2. \A c \in Checkers : checking[c].at \in {"idle", "settings", "rules", "log", "done"}
      BY DEF FilterTyped, CheckTyped, NotChecking
    <2> QED  BY <2>1, <2>2 DEF FilterTyped, LogTyped, MessageFilterTypeOK, Events, Answers
  <1> QED  BY <1>1, <1>2, <1>3, MessageFilterInvariant, PTL DEF MessageFilterSpec

---------------------------------------------------------------------------
(* The firewall *)

\* The entries of a log of what was let by that belong to a key: those read in a span of time,
\* those of the window that started at a moment, and those read before a moment and counted
\* in a window that started no earlier.
OfKey(log, key) == {m \in DOMAIN log : log[m].key = key}
Between(log, key, from, to) == {m \in OfKey(log, key) : log[m].at \in from .. to}
Window(log, key, s) == {m \in OfKey(log, key) : log[m].start = s}
Stale(log, key, y) == {m \in OfKey(log, key) : log[m].at < y /\ y <= log[m].start}

\* A log: a list of entries with their times.
IsLog(log) == (\E n \in Nat : DOMAIN log = 1 .. n) /\ \A m \in DOMAIN log : log[m].at \in Nat /\ log[m].start \in Nat

\* The law of one counter: its windows start a window apart, each with the message that
\* started it, each lets by no more than the threshold, and the last no more than was counted.
Opened(log, key, s) == \E k \in OfKey(log, key) : log[k].at = s /\ log[k].start = s
Law(log, key, w, h, known, counter) ==
    /\ ~ known => OfKey(log, key) = {}
    /\ known =>
          /\ counter.start \in Nat /\ counter.count \in Nat
          /\ \A m \in OfKey(log, key) :
                log[m].start = counter.start \/ log[m].start + w <= counter.start
          /\ Cardinality(Window(log, key, counter.start)) <= counter.count
          /\ h > 0 => Opened(log, key, counter.start)
    /\ \A m \in OfKey(log, key) : log[m].at < log[m].start + w /\ Opened(log, key, log[m].start)
    /\ \A m, k \in OfKey(log, key) :
          \/ log[m].start = log[k].start
          \/ log[m].start + w <= log[k].start
          \/ log[k].start + w <= log[m].start
    /\ \A s \in Nat : Cardinality(Window(log, key, s)) <= h

\* The evaluations that wait with a reading of the clock before a moment; what they may still
\* add to the stale entries, with those there are, is one for each evaluation but one.
Waiting(walks, y) == {i \in Inspectors : walks[i] # NoWalk /\ walks[i].now \in 0 .. y - 1}
Patient(log, key, start, walks) ==
    \A y \in Nat : y <= start =>
        Cardinality(Stale(log, key, y)) + Cardinality(Waiting(walks, y)) <= Cardinality(Inspectors) - 1

\* The counter after one message more, which goes on or starts again a window later, and
\* what is let by.
AfterOne(known, counter, w, now) ==
    LET old == IF known THEN counter ELSE [count |-> 0, start |-> now]
        duration_since == IF now > old.start THEN now - old.start ELSE 0
    IN IF duration_since >= w THEN [count |-> 1, start |-> now]
       ELSE [count |-> old.count + 1, start |-> old.start]
Moves(log, key, w, known, counter, now, new) ==
    /\ new.start \in Nat /\ new.count \in Nat /\ new.count > 0 /\ now < new.start + w
    /\ \/ /\ known /\ new.start = counter.start /\ new.count = counter.count + 1
       \/ /\ new.start = now /\ new.count = 1 /\ (known => counter.start + w <= now)
          /\ \A m \in OfKey(log, key) : log[m].start + w <= now
Logged(log, key, h, new, now) ==
    IF new.count > h THEN log ELSE Append(log, [key |-> key, at |-> now, start |-> new.start])

\* Entries of a log are finitely many.
LEMMA EntriesFinite ==
  ASSUME NEW log, IsLog(log), NEW S, S \subseteq DOMAIN log
  PROVE  IsFiniteSet(S) /\ Cardinality(S) \in Nat
  <1>1. PICK n \in Nat : DOMAIN log = 1 .. n  BY DEF IsLog
  <1>2. IsFiniteSet(1 .. n)  BY FS_Interval
  <1>3. IsFiniteSet(S)  BY <1>1, <1>2, FS_Subset
  <1> QED  BY <1>3, FS_CardinalityType

\* What two sets hold together.
LEMMA AtMostBoth ==
  ASSUME NEW A, NEW B, NEW S, IsFiniteSet(A), IsFiniteSet(B), S \subseteq A \cup B
  PROVE  /\ IsFiniteSet(S) /\ Cardinality(S) \in Nat /\ Cardinality(A) \in Nat /\ Cardinality(B) \in Nat
         /\ Cardinality(S) <= Cardinality(A) + Cardinality(B)
  <1>1. Cardinality(A) \in Nat /\ Cardinality(B) \in Nat  BY FS_CardinalityType
  <1>2. IsFiniteSet(A \cup B) /\ Cardinality(A \cup B) = Cardinality(A) + Cardinality(B) - Cardinality(A \cap B)
    BY FS_Union
  <1>3. Cardinality(A \cap B) \in Nat  BY FS_Intersection, FS_CardinalityType
  <1>4. IsFiniteSet(S) /\ Cardinality(S) <= Cardinality(A \cup B)  BY <1>2, FS_Subset
  <1>5. Cardinality(S) \in Nat /\ Cardinality(A \cup B) \in Nat  BY <1>2, <1>4, FS_CardinalityType
  <1> QED  BY <1>1, <1>2, <1>3, <1>4, <1>5

\* One entry more.
LongerBy(log, more, n) ==
    n \notin DOMAIN log /\ DOMAIN more = DOMAIN log \cup {n} /\ \A m \in DOMAIN log : more[m] = log[m]
LogTail(log, more, key, now, s) ==
    \E n : LongerBy(log, more, n) /\ more[n].key = key /\ more[n].at = now /\ more[n].start = s

\* A log stays one when an entry is appended.
LEMMA LogGrows ==
  ASSUME NEW log, IsLog(log), log \in Seq(Range(log)), NEW key, NEW now \in Nat, NEW s \in Nat, NEW more,
         more = Append(log, [key |-> key, at |-> now, start |-> s])
  PROVE  IsLog(more) /\ more \in Seq(Range(more)) /\ LogTail(log, more, key, now, s)
  <1> DEFINE e == [key |-> key, at |-> now, start |-> s]
             n == Len(log) + 1
  <1>0. e.key = key /\ e.at = now /\ e.start = s /\ more = Append(log, e)  OBVIOUS
  <1> HIDE DEF e
  <1>1. Len(log) \in Nat /\ DOMAIN log = 1 .. Len(log)  OBVIOUS
  <1>2. more = [i \in 1 .. n |-> IF i = n THEN e ELSE log[i]]
    <2>1. PICK l \in Nat : l = Len(log)  BY <1>1
    <2>2. PICK T : T = Range(log) \cup {e}  OBVIOUS
    <2>3. log \in Seq(T) /\ e \in T
      <3>1. log \in [1 .. l -> Range(log)] /\ Range(log) \subseteq T  BY <1>1, <2>1, <2>2
      <3>2. log \in [1 .. l -> T]  BY <3>1
      <3> QED  BY <2>1, <2>2, <3>2
    <2>4. PICK q : q = Append(log, e)  OBVIOUS
    <2>5. q \in Seq(T) /\ Len(q) = l + 1  BY <2>1, <2>3, <2>4
    <2>6. \A i \in 1 .. l + 1 : q[i] = IF i = l + 1 THEN e ELSE log[i]  BY <2>1, <2>3, <2>4
    <2>7. q \in [1 .. l + 1 -> T]  BY <2>5
    <2>8. q = [i \in 1 .. l + 1 |-> IF i = l + 1 THEN e ELSE log[i]]  BY <2>6, <2>7
    <2> QED  BY <1>0, <2>1, <2>4, <2>8
  <1>3. n \notin DOMAIN log /\ DOMAIN more = DOMAIN log \cup {n} /\ DOMAIN more = 1 .. n /\ n \in Nat
    BY <1>1, <1>2
  <1>4. more[n] = e  BY <1>1, <1>2
  <1>5. \A m \in DOMAIN log : more[m] = log[m]  BY <1>1, <1>2
  <1>6. IsLog(more)
    <2>1. \A m \in DOMAIN more : more[m].at \in Nat /\ more[m].start \in Nat  BY <1>0, <1>3, <1>4, <1>5 DEF IsLog
    <2> QED  BY <1>3, <2>1 DEF IsLog
  <1>7. more \in Seq(Range(more))
    <2>0. PICK l \in Nat : l = n  BY <1>3
    <2>1. PICK q : q = more /\ l = n  BY <2>0
    <2>2. q = [i \in 1 .. l |-> q[i]] /\ DOMAIN q = 1 .. l
      <3>1. q = [i \in 1 .. l |-> IF i = l THEN e ELSE log[i]]  BY <1>2, <2>1
      <3> QED  BY <3>1
    <2>3. \A i \in 1 .. l : q[i] \in Range(q)  BY <2>2 DEF Range
    <2>4. q \in [1 .. l -> Range(q)]  BY <2>2, <2>3
    <2>5. q \in Seq(Range(q))  BY <2>4
    <2> QED  BY <2>1, <2>5
  <1>8. more[n].key = key /\ more[n].at = now /\ more[n].start = s  BY <1>0, <1>4
  <1>9. LogTail(log, more, key, now, s)  BY <1>3, <1>5, <1>8 DEF LogTail, LongerBy
  <1> QED  BY <1>6, <1>7, <1>9

\* Two logs with the same entries of a key.
SameEntries(log, more, key) ==
    /\ OfKey(more, key) = OfKey(log, key) /\ \A m \in OfKey(log, key) : more[m] = log[m]
    /\ \A s : Window(more, key, s) = Window(log, key, s)
    /\ \A y : Stale(more, key, y) = Stale(log, key, y)

\* One more entry of a key.
OneMore(log, more, key, n) ==
    /\ OfKey(more, key) = OfKey(log, key) \cup {n}
    /\ \A s : Window(more, key, s) = IF more[n].start = s THEN Window(log, key, s) \cup {n}
                                     ELSE Window(log, key, s)
    /\ \A y : Stale(more, key, y) = IF more[n].at < y /\ y <= more[n].start THEN Stale(log, key, y) \cup {n}
                                    ELSE Stale(log, key, y)

\* How the entries of a key change with one of its own.
LEMMA EntriesGrow ==
  ASSUME NEW log, IsLog(log), NEW more, NEW n, LongerBy(log, more, n), NEW key, more[n].key = key
  PROVE  OneMore(log, more, key, n)
  <1>1. OfKey(log, key) \subseteq DOMAIN log /\ \A m \in OfKey(log, key) : more[m] = log[m]  BY DEF OfKey, LongerBy
  <1>2. OfKey(more, key) = OfKey(log, key) \cup {n}  BY DEF OfKey, LongerBy
  <1>0. n \notin OfKey(log, key)  BY DEF OfKey, LongerBy
  <1>3. ASSUME NEW s
        PROVE  Window(more, key, s) = IF more[n].start = s THEN Window(log, key, s) \cup {n} ELSE Window(log, key, s)
    BY <1>0, <1>1, <1>2 DEF Window
  <1>4. ASSUME NEW y
        PROVE  Stale(more, key, y) = IF more[n].at < y /\ y <= more[n].start THEN Stale(log, key, y) \cup {n}
                                     ELSE Stale(log, key, y)
    BY <1>0, <1>1, <1>2 DEF Stale
  <1> QED  BY <1>2, <1>3, <1>4 DEF OneMore

\* An entry of another key.
LEMMA EntriesOfOthers ==
  ASSUME NEW log, IsLog(log), NEW more, NEW n, LongerBy(log, more, n), NEW key, more[n].key # key
  PROVE  SameEntries(log, more, key)
  <1>1. OfKey(log, key) \subseteq DOMAIN log /\ \A m \in OfKey(log, key) : more[m] = log[m]  BY DEF OfKey, LongerBy
  <1>2. OfKey(more, key) = OfKey(log, key)  BY DEF OfKey, LongerBy
  <1>3. ASSUME NEW s
        PROVE  Window(more, key, s) = Window(log, key, s) /\ Stale(more, key, s) = Stale(log, key, s)
    BY <1>1, <1>2 DEF Window, Stale
  <1> QED  BY <1>1, <1>2, <1>3 DEF SameEntries

\* A counter either goes on or starts again, at least a window later.
LEMMA CounterMoves ==
  ASSUME NEW log, IsLog(log), NEW now \in Nat, NEW key, NEW w \in Nat, w > 0, NEW h \in Nat,
         NEW known \in BOOLEAN, NEW counter, Law(log, key, w, h, known, counter), NEW new,
         new = AfterOne(known, counter, w, now)
  PROVE  Moves(log, key, w, known, counter, now, new)
  <1>1. \A m \in OfKey(log, key) : log[m].start \in Nat  BY DEF IsLog, OfKey
  <1>2. CASE ~ known
    <2>1. new = [count |-> 1, start |-> now]  BY <1>2 DEF AfterOne
    <2>2. OfKey(log, key) = {}  BY <1>2 DEF Law
    <2> QED  BY <1>2, <2>1, <2>2 DEF Moves
  <1>3. CASE known
    <2>1. counter.start \in Nat /\ counter.count \in Nat  BY <1>3 DEF Law
    <2>2. CASE now - counter.start >= w
      <3>1. new = [count |-> 1, start |-> now]  BY <1>3, <2>1, <2>2 DEF AfterOne
      <3>2. \A m \in OfKey(log, key) : log[m].start = counter.start \/ log[m].start + w <= counter.start
        BY <1>3 DEF Law
      <3> QED  BY <1>1, <2>1, <2>2, <3>1, <3>2 DEF Moves
    <2>3. CASE now - counter.start < w
      <3>1. new = [count |-> counter.count + 1, start |-> counter.start]  BY <1>3, <2>1, <2>3 DEF AfterOne
      <3>2. new.count = counter.count + 1 /\ new.start = counter.start  BY <3>1
      <3>3. new.start \in Nat /\ new.count \in Nat /\ new.count > 0 /\ now < new.start + w  BY <2>1, <2>3, <3>2
      <3> QED  BY <1>3, <3>2, <3>3 DEF Moves
    <2> QED  BY <2>1, <2>2, <2>3
  <1> QED  BY <1>2, <1>3

\* check_rate_limit keeps the law of its counter.
LEMMA LawKept ==
  ASSUME NEW log, IsLog(log), log \in Seq(Range(log)), NEW now \in Nat, NEW key,
         NEW w \in Nat, w > 0, NEW h \in Nat, NEW known \in BOOLEAN, NEW counter,
         Law(log, key, w, h, known, counter), NEW new, new = AfterOne(known, counter, w, now)
  PROVE  Law(Logged(log, key, h, new, now), key, w, h, TRUE, new)
  <1>1. \A m \in OfKey(log, key) : log[m].start \in Nat /\ log[m].at \in Nat  BY DEF IsLog, OfKey
  <1>2. \A s \in Nat : IsFiniteSet(Window(log, key, s)) /\ Cardinality(Window(log, key, s)) \in Nat
    <2> TAKE s \in Nat
    <2>1. Window(log, key, s) \subseteq DOMAIN log  BY DEF Window, OfKey
    <2> QED  BY <2>1, EntriesFinite
  <1>0. Moves(log, key, w, known, counter, now, new)  BY CounterMoves
  <1>3. /\ new.start \in Nat /\ new.count \in Nat /\ new.count > 0 /\ now < new.start + w
        /\ \/ /\ known /\ new.start = counter.start /\ new.count = counter.count + 1
           \/ /\ new.start = now /\ new.count = 1 /\ (known => counter.start + w <= now)
              /\ \A m \in OfKey(log, key) : log[m].start + w <= now
    BY <1>0 DEF Moves
  \* What holds of the old log and the new counter.
  <1>4. /\ \A m \in OfKey(log, key) : log[m].start = new.start \/ log[m].start + w <= new.start
        /\ Cardinality(Window(log, key, new.start)) <= new.count - 1
        /\ h > 0 => Opened(log, key, new.start) \/ (new.count = 1 /\ new.start = now)
    <2>1. CASE known /\ new.start = counter.start /\ new.count = counter.count + 1
      <3>1. /\ counter.count \in Nat /\ Cardinality(Window(log, key, counter.start)) <= counter.count
            /\ \A m \in OfKey(log, key) : log[m].start = counter.start \/ log[m].start + w <= counter.start
            /\ h > 0 => Opened(log, key, counter.start)
        BY <2>1 DEF Law
      <3>3. new.start = counter.start /\ new.count = counter.count + 1  BY <2>1
      <3>2. Cardinality(Window(log, key, new.start)) <= counter.count /\ new.count - 1 = counter.count
        BY <3>1, <3>3
      <3> QED  BY <2>1, <3>1, <3>2
    <2>2. CASE new.start = now /\ new.count = 1 /\ \A m \in OfKey(log, key) : log[m].start + w <= now
      <3>1. Window(log, key, new.start) = {}  BY <1>1, <2>2 DEF Window
      <3>2. Cardinality(Window(log, key, new.start)) = 0  BY <3>1, FS_EmptySet
      <3> QED  BY <1>1, <2>2, <3>2
    <2> QED  BY <1>3, <2>1, <2>2
  <1>5. /\ \A m \in OfKey(log, key) : log[m].at < log[m].start + w /\ Opened(log, key, log[m].start)
        /\ \A m, k \in OfKey(log, key) :
              \/ log[m].start = log[k].start
              \/ log[m].start + w <= log[k].start
              \/ log[k].start + w <= log[m].start
        /\ \A s \in Nat : Cardinality(Window(log, key, s)) <= h
    BY DEF Law
  <1>6. CASE new.count > h
    <2>1. Logged(log, key, h, new, now) = log  BY <1>6 DEF Logged
    <2>2. h > 0 => Opened(log, key, new.start)  BY <1>4, <1>6
    <2>3. Cardinality(Window(log, key, new.start)) <= new.count
      <3>1. Cardinality(Window(log, key, new.start)) \in Nat /\ new.count \in Nat  BY <1>2, <1>3
      <3> QED  BY <1>4, <3>1
    <2>4. Law(log, key, w, h, TRUE, new)  BY <1>3, <1>4, <1>5, <2>2, <2>3 DEF Law
    <2> QED  BY <2>1, <2>4
  <1>7. CASE ~ (new.count > h)
    <2>1. PICK more : more = Append(log, [key |-> key, at |-> now, start |-> new.start])  OBVIOUS
    <2>2. Logged(log, key, h, new, now) = more  BY <1>7, <2>1 DEF Logged
    <2>0. IsLog(more) /\ LogTail(log, more, key, now, new.start)  BY <1>3, <2>1, LogGrows
    <2>14. PICK n : LongerBy(log, more, n) /\ more[n].key = key /\ more[n].at = now /\ more[n].start = new.start
      BY <2>0 DEF LogTail
    <2>3. /\ n \notin DOMAIN log /\ DOMAIN more = DOMAIN log \cup {n}
          /\ more[n].key = key /\ more[n].at = now /\ more[n].start = new.start
          /\ \A m \in DOMAIN log : more[m] = log[m]
      BY <2>14 DEF LongerBy
    <2>4. /\ OfKey(more, key) = OfKey(log, key) \cup {n}
          /\ \A s : Window(more, key, s) = IF new.start = s THEN Window(log, key, s) \cup {n} ELSE Window(log, key, s)
      <3>1. /\ OfKey(more, key) = OfKey(log, key) \cup {n}
            /\ \A s : Window(more, key, s) = IF more[n].start = s THEN Window(log, key, s) \cup {n}
                                             ELSE Window(log, key, s)
        <4>1. OneMore(log, more, key, n)  BY <2>14, EntriesGrow
        <4> QED  BY <4>1 DEF OneMore
      <3> QED  BY <2>3, <3>1
    <2>5. \A m \in OfKey(log, key) : more[m] = log[m] /\ m # n  BY <2>3 DEF OfKey
    <2>6. Cardinality(Window(more, key, new.start)) <= new.count
      <3>1. n \notin Window(log, key, new.start)  BY <2>3 DEF Window, OfKey
      <3>2. Cardinality(Window(log, key, new.start) \cup {n}) = Cardinality(Window(log, key, new.start)) + 1
        BY <1>2, <1>3, <3>1, FS_AddElement
      <3>3. Cardinality(Window(log, key, new.start)) \in Nat /\ new.count \in Nat  BY <1>2, <1>3
      <3>4. Window(more, key, new.start) = Window(log, key, new.start) \cup {n}  BY <2>4
      <3> QED  BY <1>4, <3>2, <3>3, <3>4
    <2>7. \A s \in Nat : Cardinality(Window(more, key, s)) <= h
      <3> TAKE s \in Nat
      <3>1. CASE s = new.start
        <4>1. Cardinality(Window(more, key, s)) \in Nat
          <5>1. Window(more, key, s) \subseteq DOMAIN more  BY DEF Window, OfKey
          <5> QED  BY <2>0, <5>1, EntriesFinite
        <4> QED  BY <1>3, <1>7, <2>6, <3>1, <4>1
      <3>2. CASE s # new.start  BY <1>5, <2>4, <3>2
      <3> QED  BY <3>1, <3>2
    <2>8. \A s : Opened(log, key, s) => Opened(more, key, s)  BY <2>4, <2>5 DEF Opened
    <2>9. Opened(more, key, new.start)
      <3>1. CASE Opened(log, key, new.start)  BY <2>8, <3>1
      <3>2. CASE new.start = now  BY <2>3, <2>4, <3>2 DEF Opened
      <3>3. h > 0  BY <1>3, <1>7
      <3> QED  BY <1>4, <3>1, <3>2, <3>3
    <2>10. \A m \in OfKey(more, key) : more[m].start = new.start \/ more[m].start + w <= new.start
      BY <1>4, <2>3, <2>4, <2>5
    <2>11. \A m \in OfKey(more, key) : more[m].at < more[m].start + w /\ Opened(more, key, more[m].start)
      BY <1>3, <1>5, <2>3, <2>4, <2>5, <2>8, <2>9
    <2>12. ASSUME NEW m \in OfKey(more, key), NEW k \in OfKey(more, key)
           PROVE  \/ more[m].start = more[k].start
                  \/ more[m].start + w <= more[k].start
                  \/ more[k].start + w <= more[m].start
      <3>1. CASE m = n  BY <2>3, <2>10, <3>1
      <3>2. CASE k = n  BY <2>3, <2>10, <3>2
      <3>3. CASE m # n /\ k # n
        <4>1. m \in OfKey(log, key) /\ k \in OfKey(log, key)  BY <2>4, <3>3
        <4> QED  BY <1>5, <2>5, <4>1
      <3> QED  BY <3>1, <3>2, <3>3
    <2>13. Law(more, key, w, h, TRUE, new)
      BY <1>3, <2>6, <2>7, <2>9, <2>10, <2>11, <2>12 DEF Law
    <2> QED  BY <2>2, <2>13
  <1> QED  BY <1>6, <1>7

\* An entry of another key leaves those of a key alone.
LEMMA LawOfOthers ==
  ASSUME NEW log, IsLog(log), log \in Seq(Range(log)), NEW now \in Nat, NEW s \in Nat, NEW other, NEW key,
         other # key, NEW more, more = Append(log, [key |-> other, at |-> now, start |-> s])
  PROVE  SameEntries(log, more, key)
  <1>1. LogTail(log, more, other, now, s)  BY LogGrows
  <1>2. PICK n : LongerBy(log, more, n) /\ more[n].key = other  BY <1>1 DEF LogTail
  <1>3. more[n].key # key  BY <1>2
  <1> QED  BY <1>2, <1>3, EntriesOfOthers

\* The law is about the entries of its key.
LEMMA LawOfSame ==
  ASSUME NEW log, NEW more, NEW key, SameEntries(log, more, key),
         NEW w \in Nat, NEW h \in Nat, NEW known, NEW counter, Law(log, key, w, h, known, counter)
  PROVE  Law(more, key, w, h, known, counter)
  <1>1. \A x : Opened(more, key, x) = Opened(log, key, x)  BY DEF Opened, SameEntries
  <1> QED  BY <1>1 DEF Law, SameEntries

\* One waits no longer, the others as before.
NoLonger(walks, next, i) == \A y \in Nat : Waiting(next, y) \subseteq Waiting(walks, y) \ {i}

\* Inspectors, and those of them that wait, are finitely many.
LEMMA WaitingFinite ==
  ASSUME NEW S, S \subseteq Inspectors
  PROVE  IsFiniteSet(S) /\ Cardinality(S) \in Nat /\ Cardinality(Inspectors) \in Nat
         /\ Cardinality(S) <= Cardinality(Inspectors)
  BY FirewallAssumption, FS_Subset, FS_CardinalityType

\* Fewer wait, and the key has no new entry.
LEMMA PatienceLasts ==
  ASSUME NEW log, IsLog(log), NEW key, NEW s \in Nat, NEW walks, Patient(log, key, s, walks), NEW more,
         \A y : Stale(more, key, y) = Stale(log, key, y),
         NEW next, \A y \in Nat : y <= s => Waiting(next, y) \subseteq Waiting(walks, y)
  PROVE  Patient(more, key, s, next)
  <1> SUFFICES ASSUME NEW y \in Nat, y <= s
               PROVE  Cardinality(Stale(more, key, y)) + Cardinality(Waiting(next, y)) <= Cardinality(Inspectors) - 1
    BY DEF Patient
  <1>1. Cardinality(Stale(log, key, y)) + Cardinality(Waiting(walks, y)) <= Cardinality(Inspectors) - 1
    BY DEF Patient
  <1>2. Waiting(walks, y) \subseteq Inspectors /\ Waiting(next, y) \subseteq Waiting(walks, y)  BY DEF Waiting
  <1>3. IsFiniteSet(Waiting(walks, y)) /\ Cardinality(Waiting(walks, y)) \in Nat /\ Cardinality(Inspectors) \in Nat
    BY <1>2, WaitingFinite
  <1>4. Cardinality(Waiting(next, y)) <= Cardinality(Waiting(walks, y)) /\ Cardinality(Waiting(next, y)) \in Nat
    BY <1>2, <1>3, FS_Subset, FS_CardinalityType
  <1>5. Stale(log, key, y) \subseteq DOMAIN log  BY DEF Stale, OfKey
  <1>6. Cardinality(Stale(log, key, y)) \in Nat  BY <1>5, EntriesFinite
  <1>7. Stale(more, key, y) = Stale(log, key, y)  OBVIOUS
  <1> QED  BY <1>1, <1>3, <1>4, <1>6, <1>7

\* The one that counts no longer waits: it makes a stale entry at most for the moments it
\* waited for, and when it starts the counter again it is the one that makes none.
LEMMA PatienceKept ==
  ASSUME NEW log, IsLog(log), log \in Seq(Range(log)), NEW now \in Nat, NEW key,
         NEW w \in Nat, w > 0, NEW h \in Nat, NEW known \in BOOLEAN, NEW counter,
         Law(log, key, w, h, known, counter), NEW new, new = AfterOne(known, counter, w, now),
         NEW walks, known => Patient(log, key, counter.start, walks),
         NEW i \in Inspectors, walks[i] # NoWalk, walks[i].now = now,
         NEW next, NoLonger(walks, next, i)
  PROVE  Patient(Logged(log, key, h, new, now), key, new.start, next)
  <1>1. PICK more : more = Logged(log, key, h, new, now)  OBVIOUS
  <1>0. Moves(log, key, w, known, counter, now, new)  BY CounterMoves
  <1>2. /\ new.start \in Nat /\ new.count \in Nat /\ new.count > 0 /\ now < new.start + w
        /\ \/ /\ known /\ new.start = counter.start /\ new.count = counter.count + 1
           \/ /\ new.start = now /\ new.count = 1 /\ (known => counter.start + w <= now)
              /\ \A m \in OfKey(log, key) : log[m].start + w <= now
    BY <1>0 DEF Moves
  <1>3. \A m \in OfKey(log, key) : log[m].start \in Nat /\ log[m].at \in Nat  BY DEF IsLog, OfKey
  <1>4. PICK n : /\ n \notin DOMAIN log
                 /\ \A y : \/ Stale(more, key, y) = Stale(log, key, y)
                           \/ now < y /\ y <= new.start /\ Stale(more, key, y) = Stale(log, key, y) \cup {n}
    <2>1. CASE new.count > h
      <3>1. more = log  BY <1>1, <2>1 DEF Logged
      <3>2. Len(log) + 1 \notin DOMAIN log  OBVIOUS
      <3> QED  BY <3>1, <3>2
    <2>2. CASE ~ (new.count > h)
      <3>1. more = Append(log, [key |-> key, at |-> now, start |-> new.start])  BY <1>1, <2>2 DEF Logged
      <3>2. PICK n : LongerBy(log, more, n) /\ more[n].key = key /\ more[n].at = now /\ more[n].start = new.start
        <4>1. LogTail(log, more, key, now, new.start)  BY <1>2, <3>1, LogGrows
        <4> QED  BY <4>1 DEF LogTail
      <3>3. \A y : Stale(more, key, y) = IF now < y /\ y <= new.start THEN Stale(log, key, y) \cup {n}
                                         ELSE Stale(log, key, y)
        <4>1. \A y : Stale(more, key, y) = IF more[n].at < y /\ y <= more[n].start THEN Stale(log, key, y) \cup {n}
                                           ELSE Stale(log, key, y)
          <5>1. OneMore(log, more, key, n)  BY <3>2, EntriesGrow
          <5> QED  BY <5>1 DEF OneMore
        <4> QED  BY <3>2, <4>1
      <3>4. n \notin DOMAIN log  BY <3>2 DEF LongerBy
      <3> QED  BY <3>3, <3>4
    <2> QED  BY <2>1, <2>2
  <1>5. ASSUME NEW y \in Nat, y <= new.start
        PROVE  Cardinality(Stale(more, key, y)) + Cardinality(Waiting(next, y)) <= Cardinality(Inspectors) - 1
    <2> DEFINE A == Stale(log, key, y)
               W == Waiting(walks, y)
    <2>1. A \subseteq DOMAIN log /\ W \subseteq Inspectors /\ Waiting(next, y) \subseteq W \ {i}
      BY <1>5 DEF Stale, OfKey, Waiting, NoLonger
    <2>2. IsFiniteSet(A) /\ Cardinality(A) \in Nat  BY <2>1, EntriesFinite
    <2>3. /\ IsFiniteSet(W) /\ Cardinality(W) \in Nat /\ Cardinality(Inspectors) \in Nat
          /\ IsFiniteSet(Waiting(next, y)) /\ Cardinality(Waiting(next, y)) \in Nat
      BY <2>1, WaitingFinite
    <2>4. IsFiniteSet(W \ {i}) /\ Cardinality(Waiting(next, y)) <= Cardinality(W \ {i})
          /\ Cardinality(W \ {i}) = (IF i \in W THEN Cardinality(W) - 1 ELSE Cardinality(W))
      BY <2>1, <2>3, FS_RemoveElement, FS_Subset
    <2>5. CASE known /\ y <= counter.start
      <3>1. Cardinality(A) + Cardinality(W) <= Cardinality(Inspectors) - 1  BY <1>5, <2>5 DEF Patient
      <3>2. CASE Stale(more, key, y) = A  BY <2>2, <2>3, <2>4, <3>1, <3>2
      <3>3. CASE now < y /\ Stale(more, key, y) = A \cup {n}
        <4>1. i \in W  BY <3>3 DEF Waiting
        <4>2. n \notin A  BY <1>4, <2>1
        <4>3. Cardinality(A \cup {n}) = Cardinality(A) + 1  BY <2>2, <4>2, FS_AddElement
        <4> QED  BY <2>2, <2>3, <2>4, <3>1, <3>3, <4>1, <4>3
      <3> QED  BY <1>4, <3>2, <3>3
    <2>6. CASE ~ (known /\ y <= counter.start)
      <3>1. new.start = now /\ \A m \in OfKey(log, key) : log[m].start + w <= now
        <4>1. ~ (known /\ new.start = counter.start)  BY <1>5, <2>6
        <4> QED  BY <1>2, <4>1
      <3>2. A = {}
        <4> SUFFICES ASSUME NEW m \in OfKey(log, key), y <= log[m].start PROVE FALSE
          BY DEF Stale
        <4>1. CASE ~ known  BY <4>1 DEF Law
        <4>2. CASE known
          <5>1. counter.start \in Nat /\ (log[m].start = counter.start \/ log[m].start + w <= counter.start)
            BY <4>2 DEF Law
          <5> QED  BY <1>3, <2>6, <4>2, <5>1
        <4> QED  BY <4>1, <4>2
      <3>3. Stale(more, key, y) = {}  BY <1>2, <1>4, <1>5, <3>1, <3>2
      <3>4. Cardinality(Stale(more, key, y)) = 0  BY <3>3, FS_EmptySet
      <3>5. Waiting(next, y) \subseteq Inspectors \ {i}  BY <2>1
      <3>6. IsFiniteSet(Inspectors \ {i}) /\ Cardinality(Inspectors \ {i}) = Cardinality(Inspectors) - 1
        BY FirewallAssumption, FS_RemoveElement
      <3>7. Cardinality(Waiting(next, y)) <= Cardinality(Inspectors \ {i})  BY <3>5, <3>6, FS_Subset
      <3> QED  BY <2>3, <3>4, <3>6, <3>7
    <2> QED  BY <2>5, <2>6
  <1> QED  BY <1>1, <1>5 DEF Patient

\* A span of the window holds entries of two windows of the counter at most, and of the
\* earlier not the first; the rest of it is stale.
LEMMA SpanBound ==
  ASSUME NEW log, IsLog(log), NEW key, NEW w \in Nat, w > 0, NEW h \in Nat, NEW counter,
         Law(log, key, w, h, TRUE, counter), NEW walks, Patient(log, key, counter.start, walks),
         NEW u \in OfKey(log, key), NEW x \in Nat
  PROVE  Cardinality(Between(log, key, x, x + w - 1)) <= 2 * h - 1 + (Cardinality(Inspectors) - 1)
  <1> DEFINE S == Between(log, key, x, x + w - 1)
             C == Stale(log, key, x + w)
             D == {m \in S : log[m].start <= x + w - 1}
  <1>1. \A m \in OfKey(log, key) : m \in DOMAIN log /\ log[m].start \in Nat /\ log[m].at \in Nat  BY DEF IsLog, OfKey
  <1>2. S \subseteq D \cup C  BY <1>1 DEF Between, Stale
  <1>3. D \subseteq DOMAIN log /\ C \subseteq DOMAIN log  BY <1>1 DEF Between, Stale
  <1>4. \A m \in D : /\ m \in OfKey(log, key) /\ log[m].start <= x + w - 1 /\ log[m].at >= x
                     /\ log[m].start > x - w
    <2> TAKE m \in D
    <2>1. m \in OfKey(log, key) /\ log[m].start <= x + w - 1 /\ log[m].at >= x  BY <1>1 DEF Between
    <2>2. log[m].at < log[m].start + w  BY <2>1 DEF Law
    <2> QED  BY <1>1, <2>1, <2>2
  <1> HIDE DEF S, C, D
  <1>5. IsFiniteSet(D) /\ IsFiniteSet(C) /\ Cardinality(D) \in Nat /\ Cardinality(C) \in Nat
    BY <1>3, EntriesFinite
  <1>6. Cardinality(Inspectors) \in Nat /\ Cardinality(C) <= Cardinality(Inspectors) - 1
    <2>1. counter.start \in Nat  BY DEF Law
    <2>2. ASSUME NEW y \in Nat, y <= counter.start
          PROVE  /\ Cardinality(Stale(log, key, y)) <= Cardinality(Inspectors) - 1
                 /\ 0 <= Cardinality(Inspectors) - 1 /\ Cardinality(Inspectors) \in Nat
      <3>1. Cardinality(Stale(log, key, y)) + Cardinality(Waiting(walks, y)) <= Cardinality(Inspectors) - 1
        BY <2>2 DEF Patient
      <3>2. Cardinality(Waiting(walks, y)) \in Nat /\ Cardinality(Inspectors) \in Nat
        <4>1. Waiting(walks, y) \subseteq Inspectors  BY DEF Waiting
        <4> QED  BY <4>1, WaitingFinite
      <3>3. Cardinality(Stale(log, key, y)) \in Nat
        <4>1. Stale(log, key, y) \subseteq DOMAIN log  BY DEF Stale, OfKey
        <4> QED  BY <4>1, EntriesFinite
      <3> QED  BY <3>1, <3>2, <3>3
    <2>3. CASE x + w <= counter.start  BY <2>2, <2>3 DEF C
    <2>4. CASE x + w > counter.start
      <3>1. \A m \in OfKey(log, key) : log[m].start <= counter.start
        BY <1>1, <2>1 DEF Law
      <3>2. C = {}  BY <1>1, <2>1, <2>4, <3>1 DEF C, Stale
      <3>3. Cardinality(C) = 0  BY <3>2, FS_EmptySet
      <3>4. 0 \in Nat /\ 0 <= counter.start  BY <2>1
      <3> QED  BY <2>2, <3>3, <3>4
    <2> QED  BY <2>1, <2>3, <2>4
  <1>7. \A s \in Nat : /\ IsFiniteSet(Window(log, key, s)) /\ Cardinality(Window(log, key, s)) \in Nat
                       /\ Cardinality(Window(log, key, s)) <= h
    <2> TAKE s \in Nat
    <2>1. Window(log, key, s) \subseteq DOMAIN log  BY <1>1 DEF Window
    <2> QED  BY <2>1, EntriesFinite DEF Law
  <1>8. h >= 1
    <2>1. u \in Window(log, key, log[u].start) /\ log[u].start \in Nat  BY <1>1 DEF Window
    <2>2. Cardinality(Window(log, key, log[u].start)) # 0  BY <1>7, <2>1, FS_EmptySet
    <2> QED  BY <1>7, <2>1, <2>2
  <1>9. Cardinality(D) <= 2 * h - 1
    <2>1. CASE \E s \in Nat : \A m \in D : log[m].start = s
      <3>1. PICK s \in Nat : \A m \in D : log[m].start = s  BY <2>1
      <3>2. D \subseteq Window(log, key, s)  BY <1>4, <3>1 DEF Window
      <3>3. Cardinality(D) <= Cardinality(Window(log, key, s))  BY <1>7, <3>2, FS_Subset
      <3> QED  BY <1>5, <1>7, <1>8, <3>3
    <2>2. CASE ~ \E s \in Nat : \A m \in D : log[m].start = s
      <3>1. PICK a, b \in D : log[a].start < log[b].start
        <4>1. D # {}  BY <2>2
        <4>2. PICK p \in D : TRUE  BY <4>1
        <4>3. log[p].start \in Nat  BY <1>1, <1>4
        <4>4. PICK q \in D : log[q].start # log[p].start  BY <2>2, <4>3
        <4>5. log[q].start \in Nat  BY <1>1, <1>4
        <4> QED  BY <4>2, <4>3, <4>4, <4>5
      <3>2. PICK s, t \in Nat : s = log[a].start /\ t = log[b].start  BY <1>1, <1>4
      <3>3. s + w <= t /\ t <= x + w - 1 /\ s > x - w
        <4>1. a \in OfKey(log, key) /\ b \in OfKey(log, key)  BY <1>4
        <4>2. s = t \/ s + w <= t \/ t + w <= s  BY <3>2, <4>1 DEF Law
        <4> QED  BY <1>4, <3>1, <3>2, <4>2
      <3>4. \A m \in D : log[m].start = s \/ log[m].start = t
        <4> TAKE m \in D
        <4>1. /\ m \in OfKey(log, key) /\ a \in OfKey(log, key) /\ b \in OfKey(log, key)
              /\ log[m].start \in Nat /\ log[m].start <= x + w - 1 /\ log[m].start > x - w
          BY <1>1, <1>4
        <4>2. log[m].start = s \/ log[m].start + w <= s \/ s + w <= log[m].start  BY <3>2, <4>1 DEF Law
        <4>3. log[m].start = t \/ log[m].start + w <= t \/ t + w <= log[m].start  BY <3>2, <4>1 DEF Law
        <4> QED  BY <3>3, <4>1, <4>2, <4>3
      <3>5. PICK first \in OfKey(log, key) : log[first].at = s /\ log[first].start = s
        <4>1. Opened(log, key, s)  BY <1>4, <3>2 DEF Law
        <4> QED  BY <4>1 DEF Opened
      <3>6. first \notin D
        <4>1. s < x  BY <3>3
        <4> QED  BY <1>4, <3>5, <4>1
      <3> DEFINE A == Window(log, key, s)
                 B == Window(log, key, t)
      <3>7. D \subseteq (A \ {first}) \cup B  BY <1>4, <3>4, <3>6 DEF Window
      <3>8. first \in A  BY <3>5 DEF Window
      <3>9. /\ IsFiniteSet(A) /\ IsFiniteSet(B) /\ Cardinality(A) \in Nat /\ Cardinality(B) \in Nat
            /\ Cardinality(A) <= h /\ Cardinality(B) <= h
        BY <1>7
      <3> HIDE DEF A, B
      <3>10. IsFiniteSet(A \ {first}) /\ Cardinality(A \ {first}) = Cardinality(A) - 1
        BY <3>8, <3>9, FS_RemoveElement
      <3>11. Cardinality(D) <= Cardinality(A \ {first}) + Cardinality(B)  BY <3>7, <3>9, <3>10, AtMostBoth
      <3> QED  BY <1>5, <3>9, <3>10, <3>11
    <2> QED  BY <2>1, <2>2
  <1>10. Cardinality(S) <= Cardinality(D) + Cardinality(C) /\ Cardinality(S) \in Nat
    BY <1>2, <1>5, AtMostBoth
  <1>11. Cardinality(S) <= 2 * h - 1 + (Cardinality(Inspectors) - 1)  BY <1>5, <1>6, <1>9, <1>10
  <1> QED  BY <1>11 DEF S

\* The firewall as compiled: chains by priority, limits that are numbers.
FirewallInOrder ==
    /\ fw.default_policy \in Policy
    /\ Len(fw.chains) \in Nat /\ DOMAIN fw.chains = 1 .. Len(fw.chains)
    /\ \A k \in DOMAIN fw.chains :
          /\ fw.chains[k].priority \in Int /\ fw.chains[k].policy \in Policy
          /\ fw.chains[k].rules \in Seq(Range(fw.chains[k].rules))
          /\ \A r \in Range(fw.chains[k].rules) : \A n \in DOMAIN r.conditions :
                r.conditions[n].type = "rate" => r.conditions[n].window \in Nat /\ r.conditions[n].threshold \in Nat
    /\ \A j, k \in DOMAIN fw.chains : fw.chains[j].priority < fw.chains[k].priority => j < k

WalkFields == {"at", "ctx", "chain", "rule", "answers", "now", "result"}

\* An evaluation, if there has been one, is somewhere in the chains, and what it read of
\* the clock lies in the past.
WalkInOrder(w) ==
    \/ w = NoWalk
    \/ /\ DOMAIN w = WalkFields /\ w.at \in {"walking", "done"} /\ w.result \in FinalResults
       /\ w.chain \in Nat \ {0} /\ w.rule \in Nat \ {0} /\ w.now \in Nat \cup {NotRead} /\ w.now <= time

\* The counters of the keys on whose limits the rate conditions agree.
CountersInOrder ==
    \A key : \A w, h \in Nat : w > 0 /\ Limits(key[1]) = {<<w, h>>} =>
        /\ Law(unflagged, key, w, h, key \in DOMAIN rate_limits, rate_limits[key])
        /\ key \in DOMAIN rate_limits =>
              rate_limits[key].start <= time /\ Patient(unflagged, key, rate_limits[key].start, walk)

FirewallInv ==
    /\ time \in Nat /\ time <= MaxTime
    /\ lists \in [ListNames -> ListContents \cup {{}}]
    /\ FirewallInOrder
    /\ IsLog(unflagged) /\ unflagged \in Seq(Range(unflagged))
    /\ \A q \in DOMAIN rate_limits : rate_limits[q].start \in Nat
    /\ CountersInOrder
    /\ DOMAIN walk = Inspectors
    /\ \A i \in Inspectors : WalkInOrder(walk[i])

\* from_config leaves the chains by priority.
LEMMA FromConfigInOrder ==
  ASSUME NEW config \in FirewallConfigs, fw = from_config(config)
  PROVE  FirewallInOrder
  <1>1. PICK given : given = config.chains  OBVIOUS
  <1> DEFINE n == Len(given)
             keys == [k \in DOMAIN given |-> given[k].priority]
             order == SortByKey(keys)
  <1>2. /\ given \in Seq(Range(given))
        /\ \A k \in DOMAIN given :
              /\ given[k].priority \in Int /\ given[k].policy \in Policy
              /\ given[k].rules \in Seq(Range(given[k].rules))
              /\ \A r \in Range(given[k].rules) : \A m \in DOMAIN r.conditions :
                    r.conditions[m].type = "rate" => r.conditions[m].window \in Nat /\ r.conditions[m].threshold \in Nat
    BY <1>1, FirewallAssumption
  <1>3. n \in Nat /\ DOMAIN given = 1 .. n  BY <1>2
  <1>4. keys \in [1 .. n -> Int]  BY <1>2, <1>3
  <1>5. /\ order \in [1 .. n -> 1 .. n]
        /\ \A i, j \in 1 .. n : i < j =>
              \/ keys[order[i]] < keys[order[j]]
              \/ keys[order[i]] = keys[order[j]] /\ order[i] < order[j]
    <2> HIDE DEF keys, n
    <2> QED  BY <1>3, <1>4, SortByKeySorts
  <1>6. PICK chains : chains = fw.chains  OBVIOUS
  <1>7. chains = [k \in DOMAIN order |-> given[order[k]]]  BY <1>1, <1>6 DEF from_config
  <1> HIDE DEF order
  <1>8. chains \in [1 .. n -> Range(given)]
    <2>1. \A k \in 1 .. n : given[order[k]] \in Range(given)  BY <1>3, <1>5 DEF Range
    <2> HIDE DEF n
    <2> QED  BY <1>5, <1>7, <2>1
  <1>9. \A k \in 1 .. n : order[k] \in DOMAIN given /\ chains[k] = given[order[k]] /\ keys[order[k]] = chains[k].priority
    BY <1>3, <1>5, <1>7
  <1>10. Len(chains) = n /\ DOMAIN chains = 1 .. n
    <2> HIDE DEF n
    <2> QED  BY <1>3, <1>8
  <1> HIDE DEF keys, n
  <1>11. ASSUME NEW j \in 1 .. n, NEW k \in 1 .. n, chains[j].priority < chains[k].priority PROVE j < k
    <2>1. chains[j].priority \in Int /\ chains[k].priority \in Int  BY <1>2, <1>9
    <2>2. ~ (k < j)
      <3> SUFFICES ASSUME k < j PROVE FALSE
        OBVIOUS
      <3>1. chains[k].priority < chains[j].priority \/ chains[k].priority = chains[j].priority  BY <1>5, <1>9
      <3> QED  BY <1>11, <2>1, <3>1
    <2>3. j # k  BY <1>11, <2>1
    <2> QED  BY <1>3, <2>2, <2>3
  <1>12. ASSUME NEW k \in 1 .. n
         PROVE  /\ chains[k].priority \in Int /\ chains[k].policy \in Policy
                /\ chains[k].rules \in Seq(Range(chains[k].rules))
                /\ \A r \in Range(chains[k].rules) : \A m \in DOMAIN r.conditions :
                      r.conditions[m].type = "rate" => r.conditions[m].window \in Nat /\ r.conditions[m].threshold \in Nat
    BY <1>2, <1>9
  <1>13. fw.default_policy \in Policy  BY FirewallAssumption DEF from_config
  <1> QED  BY <1>3, <1>6, <1>10, <1>11, <1>12, <1>13 DEF FirewallInOrder

\* The firewall that was compiled stays, and so do the limits.
LEMMA CompiledStays ==
  ASSUME FirewallInOrder, UNCHANGED fw
  PROVE  FirewallInOrder' /\ \A kind : Limits(kind)' = Limits(kind)
  BY DEF FirewallInOrder, Limits, RateConditions

\* Walks change one at a time.
LEMMA OneWalk ==
  ASSUME FirewallInv, UNCHANGED <<fw, time>>, NEW i \in Inspectors, NEW w, walk' = [walk EXCEPT ![i] = w],
         WalkInOrder(w), w # NoWalk, (walk[i] # NoWalk /\ w.now = walk[i].now) \/ w.now \in {NotRead, time}
  PROVE  /\ DOMAIN walk' = Inspectors /\ \A j \in Inspectors : WalkInOrder(walk[j])'
         /\ \A y \in Nat : y <= time => Waiting(walk', y) \subseteq Waiting(walk, y)
  <1>1. DOMAIN walk' = Inspectors  BY DEF FirewallInv
  <1>2. ASSUME NEW j \in Inspectors PROVE WalkInOrder(walk[j])'
    <2>1. PICK new : new = walk'[j]  OBVIOUS
    <2>2. WalkInOrder(new)
      <3>1. CASE j = i  BY <2>1, <3>1 DEF FirewallInv
      <3>2. CASE j # i  BY <2>1, <3>2 DEF FirewallInv
      <3> QED  BY <3>1, <3>2
    <2>3. WalkInOrder(new)'  BY <2>2 DEF WalkInOrder
    <2> QED  BY <2>1, <2>3
  <1>3. ASSUME NEW y \in Nat, y <= time, NEW j \in Waiting(walk', y) PROVE j \in Waiting(walk, y)
    <2>1. j \in Inspectors /\ walk'[j] # NoWalk /\ walk'[j].now \in 0 .. y - 1  BY DEF Waiting
    <2>2. CASE j # i  BY <2>1, <2>2 DEF Waiting, FirewallInv
    <2>3. CASE j = i
      <3>1. w.now \in 0 .. y - 1  BY <2>1, <2>3 DEF FirewallInv
      <3>2. w.now # NotRead /\ w.now # time  BY <1>3, <3>1 DEF NotRead, FirewallInv
      <3> QED  BY <2>1, <2>3, <3>1, <3>2 DEF Waiting
    <2> QED  BY <2>2, <2>3
  <1> QED  BY <1>1, <1>2, <1>3

\* A step that counts nothing keeps the counters in order, also when time passes.
LEMMA CountersKept ==
  ASSUME FirewallInv, UNCHANGED <<fw, rate_limits, unflagged>>, time' \in Nat, time <= time',
         \A y \in Nat : y <= time => Waiting(walk', y) \subseteq Waiting(walk, y)
  PROVE  /\ time' \in Nat /\ FirewallInOrder' /\ CountersInOrder'
         /\ IsLog(unflagged)' /\ (unflagged \in Seq(Range(unflagged)))'
         /\ \A q \in DOMAIN rate_limits' : rate_limits'[q].start \in Nat
  <1>1. FirewallInOrder' /\ \A kind : Limits(kind)' = Limits(kind)  BY CompiledStays DEF FirewallInv
  <1>2. IsLog(unflagged)' /\ (unflagged \in Seq(Range(unflagged)))'  BY DEF FirewallInv
  <1>3. ASSUME NEW key, NEW w \in Nat, NEW h \in Nat, w > 0, Limits(key[1])' = {<<w, h>>}
        PROVE  /\ Law(unflagged, key, w, h, key \in DOMAIN rate_limits, rate_limits[key])'
               /\ key \in DOMAIN rate_limits' =>
                     rate_limits'[key].start <= time' /\ Patient(unflagged', key, rate_limits'[key].start, walk')
    <2>1. Limits(key[1]) = {<<w, h>>}  BY <1>1, <1>3
    <2>2. /\ Law(unflagged, key, w, h, key \in DOMAIN rate_limits, rate_limits[key])
          /\ key \in DOMAIN rate_limits =>
                rate_limits[key].start <= time /\ Patient(unflagged, key, rate_limits[key].start, walk)
      BY <1>3, <2>1 DEF FirewallInv, CountersInOrder
    <2>3. key \in DOMAIN rate_limits => rate_limits[key].start \in Nat  BY <2>2 DEF Law
    <2>4. ASSUME key \in DOMAIN rate_limits PROVE Patient(unflagged', key, rate_limits'[key].start, walk')
      <3>0. PICK s \in Nat : s = rate_limits[key].start  BY <2>3, <2>4
      <3>1. PICK log, walks, next : s = rate_limits[key].start /\ log = unflagged /\ walks = walk /\ next = walk'
        BY <3>0
      <3>2. IsLog(log) /\ Patient(log, key, s, walks) /\ s <= time /\ time \in Nat  BY <2>2, <2>4, <3>1 DEF FirewallInv
      <3>3. \A y \in Nat : y <= s => Waiting(next, y) \subseteq Waiting(walks, y)  BY <3>1, <3>2
      <3>4. Patient(log, key, s, next)  BY <3>2, <3>3, PatienceLasts
      <3> QED  BY <3>1, <3>4
    <2>5. ASSUME key \in DOMAIN rate_limits PROVE rate_limits[key].start <= time'
      BY <2>2, <2>3, <2>5 DEF FirewallInv
    <2> QED  BY <2>2, <2>4, <2>5
  <1>4. CountersInOrder'  BY <1>3 DEF CountersInOrder
  <1>5. \A q \in DOMAIN rate_limits' : rate_limits'[q].start \in Nat  BY DEF FirewallInv
  <1> QED  BY <1>1, <1>2, <1>4, <1>5

\* A walk that stays in its chain.
LEMMA WalkStays ==
  ASSUME NEW w, WalkInOrder(w), w # NoWalk, NEW e, DOMAIN e = WalkFields, e.chain = w.chain,
         e.rule = w.rule \/ e.rule = w.rule + 1, e.at \in {"walking", "done"}, e.result \in FinalResults,
         e.now = w.now \/ e.now \in {NotRead, time}, time \in Nat
  PROVE  WalkInOrder(e)
  <1>1. e.now \in Nat \cup {NotRead} /\ e.now <= time  BY DEF WalkInOrder, NotRead
  <1>2. e.rule \in Nat \ {0}  BY DEF WalkInOrder
  <1> QED  BY <1>1, <1>2 DEF WalkInOrder

\* A walk that goes on to the next chain.
LEMMA WalkLeaves ==
  ASSUME NEW w, WalkInOrder(w), w # NoWalk, NEW e, DOMAIN e = WalkFields, e.chain = w.chain + 1,
         e.rule = 1, e.at \in {"walking", "done"}, e.result \in FinalResults, e.now = w.now
  PROVE  WalkInOrder(e)
  <1>1. w.chain \in Nat \ {0} /\ w.rule \in Nat \ {0}  BY DEF WalkInOrder
  <1>2. e.chain \in Nat \ {0} /\ e.rule \in Nat \ {0}  BY <1>1
  <1>3. e.now \in Nat \cup {NotRead} /\ e.now <= time  BY DEF WalkInOrder
  <1> QED  BY <1>2, <1>3 DEF WalkInOrder

\* The steps of a walk that count nothing.
LEMMA WalkStep ==
  ASSUME FirewallInv, NEW i \in Inspectors,
         SkipChain(i) \/ SkipRule(i) \/ TestCondition(i) \/ ReadClock(i) \/ RuleFails(i) \/ RuleMatches(i)
             \/ ChainPolicy(i) \/ DefaultPolicy(i)
  PROVE  FirewallInv'
  <1>1. PICK w : w = walk[i]  OBVIOUS
  <1>2. WalkInOrder(w)  BY <1>1 DEF FirewallInv
  <1>3. w # NoWalk /\ UNCHANGED <<fw, lists, rate_limits, time, unflagged>>
    BY <1>1 DEF SkipChain, SkipRule, TestCondition, ReadClock, RateAsked, RuleFails, RuleMatches, ChainPolicy,
                DefaultPolicy, InRule, InChain, NoWalk
  <1>4. /\ DOMAIN w = WalkFields /\ w.chain \in Nat \ {0}
        /\ w.at \in {"walking", "done"} /\ w.result \in FinalResults
    BY <1>2, <1>3 DEF WalkInOrder
  <1>5. DOMAIN walk = Inspectors /\ time \in Nat  BY DEF FirewallInv
  <1>6. \E e : /\ walk' = [walk EXCEPT ![i] = e] /\ WalkInOrder(e) /\ DOMAIN e = WalkFields
              /\ (e.now = w.now \/ e.now \in {NotRead, time})
    <2>1. CASE SkipChain(i)
      <3>1. PICK e : e = [w EXCEPT !.chain = @ + 1, !.rule = 1, !.answers = <<>>]  OBVIOUS
      <3>2. walk' = [walk EXCEPT ![i] = e]  BY <1>1, <1>5, <2>1, <3>1 DEF SkipChain, ToNextChain
      <3>3. DOMAIN e = WalkFields /\ e.chain = w.chain + 1 /\ e.rule = 1 /\ e.at = w.at /\ e.result = w.result /\ e.now = w.now
        BY <1>4, <3>1 DEF WalkFields
      <3> QED  BY <1>2, <1>3, <1>4, <3>2, <3>3, WalkLeaves DEF FirewallInv
    <2>2. CASE SkipRule(i) \/ RuleFails(i)
      <3>1. PICK e : e = [w EXCEPT !.rule = @ + 1, !.answers = <<>>]  OBVIOUS
      <3>2. walk' = [walk EXCEPT ![i] = e]  BY <1>1, <1>5, <2>2, <3>1 DEF SkipRule, RuleFails, ToNextRule
      <3>3. DOMAIN e = WalkFields /\ e.chain = w.chain /\ e.rule = w.rule + 1 /\ e.at = w.at /\ e.result = w.result /\ e.now = w.now
        BY <1>4, <3>1 DEF WalkFields
      <3> QED  BY <1>2, <1>3, <1>4, <1>5, <3>2, <3>3, WalkStays
    <2>3. CASE TestCondition(i)
      <3>1. PICK a : walk' = [walk EXCEPT ![i].answers = a, ![i].now = NotRead]  BY <2>3 DEF TestCondition, Answer
      <3>2. PICK e : e = [w EXCEPT !.answers = a, !.now = NotRead]  OBVIOUS
      <3>3. walk' = [walk EXCEPT ![i] = e]  BY <1>1, <1>5, <3>1, <3>2
      <3>4. DOMAIN e = WalkFields /\ e.chain = w.chain /\ e.rule = w.rule /\ e.at = w.at /\ e.result = w.result /\ e.now = NotRead
        BY <1>4, <3>2 DEF WalkFields
      <3> QED  BY <1>2, <1>3, <1>4, <1>5, <3>3, <3>4, WalkStays
    <2>7. CASE ReadClock(i)
      <3>1. PICK e : e = [w EXCEPT !.now = time]  OBVIOUS
      <3>2. walk' = [walk EXCEPT ![i] = e]  BY <1>1, <1>5, <2>7, <3>1 DEF ReadClock
      <3>3. DOMAIN e = WalkFields /\ e.chain = w.chain /\ e.rule = w.rule /\ e.at = w.at /\ e.result = w.result /\ e.now = time
        BY <1>4, <3>1 DEF WalkFields
      <3> QED  BY <1>2, <1>3, <1>4, <1>5, <3>2, <3>3, WalkStays
    <2>4. CASE RuleMatches(i) /\ execute_action(RuleHere(i).action) \notin FinalResults
      <3>1. PICK e : e = [w EXCEPT !.chain = @ + 1, !.rule = 1, !.answers = <<>>]  OBVIOUS
      <3>2. walk' = [walk EXCEPT ![i] = e]  BY <1>1, <1>5, <2>4, <3>1 DEF RuleMatches, ToNextChain
      <3>3. DOMAIN e = WalkFields /\ e.chain = w.chain + 1 /\ e.rule = 1 /\ e.at = w.at /\ e.result = w.result /\ e.now = w.now
        BY <1>4, <3>1 DEF WalkFields
      <3> QED  BY <1>2, <1>3, <1>4, <3>2, <3>3, WalkLeaves DEF FirewallInv
    <2>5. CASE \E result \in FinalResults : EndWalk(i, result)
      <3>0. PICK result \in FinalResults : EndWalk(i, result)  BY <2>5
      <3>1. PICK e : e = [w EXCEPT !.at = "done", !.result = result]  OBVIOUS
      <3>2. walk' = [walk EXCEPT ![i] = e]  BY <1>1, <1>5, <3>0, <3>1 DEF EndWalk
      <3>3. DOMAIN e = WalkFields /\ e.chain = w.chain /\ e.rule = w.rule /\ e.at = "done" /\ e.result = result /\ e.now = w.now
        BY <1>4, <3>1 DEF WalkFields
      <3> QED  BY <1>2, <1>3, <1>4, <1>5, <3>2, <3>3, WalkStays
    <2>6. CASE ChainPolicy(i) \/ DefaultPolicy(i)
      <3>1. CASE ChainPolicy(i)
        <4>1. EndWalk(i, fw.chains[w.chain].policy) /\ w.chain <= Len(fw.chains)
          BY <1>1, <3>1 DEF ChainPolicy, Here, InChain
        <4>2. w.chain \in DOMAIN fw.chains  BY <1>4, <4>1 DEF FirewallInv, FirewallInOrder
        <4>3. fw.chains[w.chain].policy \in FinalResults
          BY <4>2 DEF FirewallInv, FirewallInOrder, FinalResults
        <4> QED  BY <2>5, <4>1, <4>3
      <3>2. CASE DefaultPolicy(i)
        <4>1. EndWalk(i, fw.default_policy) /\ fw.default_policy \in FinalResults
          BY <3>2 DEF DefaultPolicy, FirewallInv, FirewallInOrder, FinalResults
        <4> QED  BY <2>5, <4>1
      <3> QED  BY <2>6, <3>1, <3>2
    <2> QED  BY <2>1, <2>2, <2>3, <2>4, <2>5, <2>6, <2>7 DEF RuleMatches
  <1>7. /\ DOMAIN walk' = Inspectors /\ \A j \in Inspectors : WalkInOrder(walk[j])'
        /\ \A y \in Nat : y <= time => Waiting(walk', y) \subseteq Waiting(walk, y)
    <2>1. PICK e : /\ walk' = [walk EXCEPT ![i] = e] /\ WalkInOrder(e) /\ DOMAIN e = WalkFields
                   /\ (e.now = w.now \/ e.now \in {NotRead, time})
      BY <1>6
    <2>2. e # NoWalk  BY <2>1 DEF WalkFields, NoWalk
    <2> QED  BY <1>1, <1>3, <2>1, <2>2, OneWalk
  <1>8. time' \in Nat /\ time <= time'  BY <1>3 DEF FirewallInv
  <1> QED  BY <1>3, <1>7, <1>8, CountersKept DEF FirewallInv

\* An evaluation begins.
LEMMA EvaluateStep ==
  ASSUME FirewallInv, NEW i \in Inspectors, NEW ctx \in FwMessages, Evaluate(i, ctx)
  PROVE  FirewallInv'
  <1>1. PICK e : e = [at |-> IF fw.enabled THEN "walking" ELSE "done", ctx |-> ctx,
                      chain |-> 1, rule |-> 1, answers |-> <<>>, now |-> NotRead,
                      result |-> "Accept"]
    OBVIOUS
  <1>2. walk' = [walk EXCEPT ![i] = e] /\ UNCHANGED <<fw, lists, rate_limits, time, unflagged>>
    BY <1>1 DEF Evaluate
  <1>3. /\ DOMAIN e = WalkFields /\ e.chain = 1 /\ e.rule = 1
        /\ e.at \in {"walking", "done"} /\ e.result \in FinalResults /\ e.now = NotRead
    BY <1>1 DEF WalkFields, FinalResults, Policy
  <1>5. WalkInOrder(e) /\ e # NoWalk
    <2>1. NotRead <= time  BY DEF NotRead, FirewallInv
    <2> QED  BY <1>3, <2>1 DEF WalkInOrder, WalkFields, NoWalk
  <1>6. /\ DOMAIN walk' = Inspectors /\ \A j \in Inspectors : WalkInOrder(walk[j])'
        /\ \A y \in Nat : y <= time => Waiting(walk', y) \subseteq Waiting(walk, y)
    BY <1>2, <1>3, <1>5, OneWalk
  <1>7. time' \in Nat /\ time <= time'  BY <1>2 DEF FirewallInv
  <1> QED  BY <1>2, <1>6, <1>7, CountersKept DEF FirewallInv

\* A rate condition of the firewall is asked: its limits are among those of its kind of key.
LEMMA LimitAsked ==
  ASSUME FirewallInv, NEW i \in Inspectors, InRule(i), NEW n \in DOMAIN RuleHere(i).conditions,
         NEW c, c = RuleHere(i).conditions[n], c.type = "rate"
  PROVE  <<c.window, c.threshold>> \in Limits(c.key)
  <1>1. PICK w : w = walk[i]  OBVIOUS
  <1>2. WalkInOrder(w) /\ w # NoWalk /\ w.chain <= Len(fw.chains) /\ w.rule <= Len(Here(i).rules)
    BY <1>1 DEF FirewallInv, InRule, InChain, NoWalk
  <1>3. w.chain \in DOMAIN fw.chains
    <2>1. w.chain \in Nat \ {0}  BY <1>2 DEF WalkInOrder
    <2>2. Len(fw.chains) \in Nat /\ DOMAIN fw.chains = 1 .. Len(fw.chains)  BY DEF FirewallInv, FirewallInOrder
    <2> QED  BY <1>2, <2>1, <2>2
  <1>4. PICK chain : chain = fw.chains[w.chain]  OBVIOUS
  <1>5. chain = Here(i) /\ chain \in Range(fw.chains)  BY <1>1, <1>3, <1>4 DEF Here, Range
  <1>6. chain.rules \in Seq(Range(chain.rules))  BY <1>3, <1>4 DEF FirewallInv, FirewallInOrder
  <1>7. w.rule \in DOMAIN chain.rules
    <2>1. w.rule \in Nat \ {0}  BY <1>2 DEF WalkInOrder
    <2> QED  BY <1>2, <1>5, <1>6, <2>1
  <1>8. PICK r : r = RuleHere(i)  OBVIOUS
  <1>9. r \in Range(chain.rules)  BY <1>1, <1>5, <1>7, <1>8 DEF RuleHere, Range
  <1>10. c \in Range(r.conditions)  BY <1>8 DEF Range
  <1>11. c \in RateConditions(c.key)  BY <1>5, <1>9, <1>10 DEF RateConditions
  <1> QED  BY <1>11 DEF Limits

\* Windows and thresholds are numbers.
LEMMA LimitsAreNumbers ==
  ASSUME FirewallInv, NEW kind, NEW l \in Limits(kind)
  PROVE  \E w, h \in Nat : l = <<w, h>>
  <1>1. PICK c \in RateConditions(kind) : l = <<c.window, c.threshold>>  BY DEF Limits
  <1>2. PICK k \in DOMAIN fw.chains : \E r \in Range(fw.chains[k].rules) : c \in Range(r.conditions) /\ c.type = "rate"
    BY DEF RateConditions, Range
  <1>3. c.window \in Nat /\ c.threshold \in Nat  BY <1>2 DEF FirewallInv, FirewallInOrder, Range
  <1> QED  BY <1>1, <1>3

\* A rate condition counts: the law of its counter holds on, and that of the others too.
LEMMA CountRateStep ==
  ASSUME FirewallInv, NEW i \in Inspectors, CountRate(i)
  PROVE  FirewallInv'
  <1>1. PICK c : c = RuleHere(i).conditions[Asked(i)]  OBVIOUS
  <1>2. PICK k : k = RateKey(c, walk[i].ctx)  OBVIOUS
  <1>3. PICK now : now = walk[i].now  OBVIOUS
  <1>4. PICK offer : offer = check_rate_limit(c, k, now)  OBVIOUS
  <1>5. PICK entry : entry = [key |-> k, at |-> now, start |-> offer.start]  OBVIOUS
  <1>6. /\ InRule(i) /\ Asked(i) \in DOMAIN RuleHere(i).conditions /\ c.type = "rate" /\ now # NotRead
        /\ rate_limits' = [q \in DOMAIN rate_limits \cup {k} |-> IF q = k THEN offer ELSE rate_limits[q]]
        /\ unflagged' = IF offer.count > c.threshold THEN unflagged ELSE Append(unflagged, entry)
        /\ UNCHANGED <<fw, lists, time>>
    BY <1>1, <1>2, <1>3, <1>4, <1>5 DEF CountRate, RateAsked
  <1>7. <<c.window, c.threshold>> \in Limits(c.key)  BY <1>1, <1>6, LimitAsked
  <1>8. k[1] = c.key  BY <1>2 DEF RateKey
  <1>9. FirewallInOrder' /\ \A kind : Limits(kind)' = Limits(kind)  BY <1>6, CompiledStays DEF FirewallInv
  <1>10. c.window \in Nat /\ c.threshold \in Nat  BY <1>7, LimitsAreNumbers
  <1>11. walk[i] # NoWalk /\ now \in Nat /\ now <= time
    <2>1. PICK w : w = walk[i]  OBVIOUS
    <2>2. WalkInOrder(w) /\ w # NoWalk  BY <1>6, <2>1 DEF FirewallInv, InRule, InChain, NoWalk
    <2> QED  BY <1>3, <1>6, <2>1, <2>2 DEF WalkInOrder
  \* The walk goes on, and waits no longer.
  <1>12. PICK e : /\ walk' = [walk EXCEPT ![i] = e] /\ WalkInOrder(e) /\ DOMAIN e = WalkFields /\ e.now = NotRead
    <2>1. PICK w : w = walk[i]  OBVIOUS
    <2>2. WalkInOrder(w) /\ w # NoWalk  BY <1>11, <2>1 DEF FirewallInv
    <2>3. DOMAIN w = WalkFields /\ w.at \in {"walking", "done"} /\ w.result \in FinalResults
      BY <2>2 DEF WalkInOrder
    <2>4. PICK a : walk' = [walk EXCEPT ![i].answers = a, ![i].now = NotRead]  BY DEF CountRate, Answer
    <2>5. PICK e : e = [w EXCEPT !.answers = a, !.now = NotRead]  OBVIOUS
    <2>6. walk' = [walk EXCEPT ![i] = e]  BY <2>1, <2>4, <2>5 DEF FirewallInv
    <2>7. DOMAIN e = WalkFields /\ e.chain = w.chain /\ e.rule = w.rule /\ e.at = w.at /\ e.result = w.result /\ e.now = NotRead
      BY <2>3, <2>5 DEF WalkFields
    <2>8. time \in Nat  BY DEF FirewallInv
    <2>9. WalkInOrder(e)  BY <2>2, <2>3, <2>7, <2>8, WalkStays
    <2> QED  BY <2>6, <2>7, <2>9
  <1>13. e # NoWalk  BY <1>12 DEF WalkFields, NoWalk
  <1>14. /\ DOMAIN walk' = Inspectors /\ \A j \in Inspectors : WalkInOrder(walk[j])'
         /\ \A y \in Nat : y <= time => Waiting(walk', y) \subseteq Waiting(walk, y)
    BY <1>6, <1>12, <1>13, OneWalk
  <1>15. \A y \in Nat : Waiting(walk', y) \subseteq Waiting(walk, y) \ {i}
    <2> SUFFICES ASSUME NEW y \in Nat, NEW j \in Waiting(walk', y) PROVE j \in Waiting(walk, y) \ {i}
      OBVIOUS
    <2>1. j \in Inspectors /\ walk'[j] # NoWalk /\ walk'[j].now \in 0 .. y - 1  BY DEF Waiting
    <2>2. j # i
      <3> SUFFICES ASSUME j = i PROVE FALSE
        OBVIOUS
      <3>1. e.now \in 0 .. y - 1  BY <1>12, <2>1 DEF FirewallInv
      <3> QED  BY <1>12, <3>1 DEF NotRead
    <2> QED  BY <1>12, <2>1, <2>2 DEF Waiting, FirewallInv
  \* The log.
  <1>16. PICK log : log = unflagged  OBVIOUS
  <1>17. IsLog(log) /\ log \in Seq(Range(log))  BY <1>16 DEF FirewallInv
  <1>18. offer.start \in Nat
    <2>1. k \in DOMAIN rate_limits => rate_limits[k].start \in Nat  BY DEF FirewallInv
    <2> QED  BY <1>4, <1>11, <2>1 DEF check_rate_limit, Counter
  <1>19. IsLog(unflagged)' /\ (unflagged \in Seq(Range(unflagged)))'
    <2>1. CASE unflagged' = unflagged  BY <2>1 DEF FirewallInv
    <2>2. CASE unflagged' # unflagged
      <3>1. PICK more : more = Append(log, entry)  OBVIOUS
      <3>2. IsLog(more) /\ more \in Seq(Range(more))  BY <1>5, <1>11, <1>17, <1>18, <3>1, LogGrows
      <3>3. unflagged' = more  BY <1>6, <1>16, <2>2, <3>1
      <3> QED  BY <3>2, <3>3
    <2> QED  BY <2>1, <2>2
  <1>20. \A q \in DOMAIN rate_limits' : rate_limits'[q].start \in Nat  BY <1>6, <1>18 DEF FirewallInv
  \* The counters.
  <1>21. ASSUME NEW key, NEW w \in Nat, NEW h \in Nat, w > 0, Limits(key[1])' = {<<w, h>>}
        PROVE  /\ Law(unflagged', key, w, h, key \in DOMAIN rate_limits', rate_limits'[key])
               /\ key \in DOMAIN rate_limits' =>
                     rate_limits'[key].start <= time' /\ Patient(unflagged', key, rate_limits'[key].start, walk')
    <2>1. Limits(key[1]) = {<<w, h>>}  BY <1>9, <1>21
    <2>2. PICK known \in BOOLEAN : known = (key \in DOMAIN rate_limits)
      <3>1. (key \in DOMAIN rate_limits) \in BOOLEAN  OBVIOUS
      <3> WITNESS (key \in DOMAIN rate_limits) \in BOOLEAN
      <3> QED  OBVIOUS
    <2>3. PICK old, walks, next : old = rate_limits[key] /\ walks = walk /\ next = walk'  OBVIOUS
    <2>4. /\ Law(log, key, w, h, known, old)
          /\ known => old.start <= time /\ Patient(log, key, old.start, walks)
      <3>1. /\ Law(unflagged, key, w, h, key \in DOMAIN rate_limits, rate_limits[key])
            /\ key \in DOMAIN rate_limits =>
                  rate_limits[key].start <= time /\ Patient(unflagged, key, rate_limits[key].start, walk)
        BY <1>21, <2>1 DEF FirewallInv, CountersInOrder
      <3> QED  BY <1>16, <2>2, <2>3, <3>1
    <2>5. CASE key = k
      <3>1. c.window = w /\ c.threshold = h  BY <1>7, <1>8, <2>1, <2>5
      <3>2. offer = AfterOne(known, old, w, now)
        BY <1>4, <2>2, <2>3, <2>5, <3>1 DEF check_rate_limit, Counter, AfterOne
      <3>3. unflagged' = Logged(log, key, h, offer, now)  BY <1>5, <1>6, <1>16, <2>5, <3>1 DEF Logged
      <3>4. Law(Logged(log, key, h, offer, now), key, w, h, TRUE, offer)
        BY <1>11, <1>17, <1>21, <2>4, <3>2, LawKept
      <3>5. Patient(Logged(log, key, h, offer, now), key, offer.start, next)
        <4>1. walks[i] # NoWalk /\ walks[i].now = now  BY <1>3, <1>11, <2>3
        <4>2. NoLonger(walks, next, i)  BY <1>15, <2>3 DEF NoLonger
        <4>3. known => Patient(log, key, old.start, walks)  BY <2>4
        <4> QED  BY <1>11, <1>17, <1>21, <2>4, <3>2, <4>1, <4>2, <4>3, PatienceKept
      <3>6. offer.start <= time'
        <4>1. offer.start = now \/ (known /\ offer.start = old.start)  BY <3>2 DEF AfterOne
        <4>2. time \in Nat /\ time' = time  BY <1>6 DEF FirewallInv
        <4> QED  BY <1>11, <2>4, <4>1, <4>2
      <3>7. key \in DOMAIN rate_limits' /\ rate_limits'[key] = offer  BY <1>6, <2>5
      <3>8. (key \in DOMAIN rate_limits') = TRUE  BY <3>7
      <3> QED  BY <2>3, <3>3, <3>4, <3>5, <3>6, <3>7, <3>8
    <2>6. CASE key # k
      <3>1. known = (key \in DOMAIN rate_limits')  BY <1>6, <2>2, <2>6
      <3>2. known => rate_limits'[key] = old  BY <1>6, <2>2, <2>3, <2>6
      <3>3. PICK more : more = unflagged'  OBVIOUS
      <3>8. SameEntries(log, more, key)
        <4>1. CASE more = log  BY <4>1 DEF SameEntries
        <4>2. CASE more # log
          <5>1. more = Append(log, [key |-> k, at |-> now, start |-> offer.start])  BY <1>5, <1>6, <1>16, <3>3, <4>2
          <5> QED  BY <1>11, <1>17, <1>18, <2>6, <5>1, LawOfOthers
        <4> QED  BY <4>1, <4>2
      <3>4. Law(more, key, w, h, known, old)  BY <2>4, <3>8, LawOfSame
      <3>9. \A y : Stale(more, key, y) = Stale(log, key, y)  BY <3>8 DEF SameEntries
      <3>5. Law(more, key, w, h, known, rate_limits'[key])
        <4>1. CASE known  BY <3>2, <3>4, <4>1
        <4>2. CASE ~ known  BY <3>4, <4>2 DEF Law
        <4> QED  BY <4>1, <4>2
      <3>6. ASSUME known PROVE Patient(more, key, old.start, next)
        <4>1. old.start \in Nat  BY <2>4, <3>6 DEF Law
        <4>2. time \in Nat  BY DEF FirewallInv
        <4>3. \A y \in Nat : y <= old.start => Waiting(next, y) \subseteq Waiting(walks, y)  BY <1>15, <2>3
        <4> QED  BY <1>17, <2>4, <3>6, <3>9, <4>1, <4>3, PatienceLasts
      <3>7. time' = time  BY <1>6
      <3> QED  BY <2>3, <2>4, <3>1, <3>2, <3>3, <3>5, <3>6, <3>7
    <2> QED  BY <2>5, <2>6
  <1>22. CountersInOrder'  BY <1>21 DEF CountersInOrder
  <1> QED  BY <1>6, <1>9, <1>14, <1>19, <1>20, <1>22 DEF FirewallInv

\* The firewall's inductive invariant: the chains by priority, every walk let out of the
\* input chains behind it, every counter within its law.
THEOREM FirewallInvariant == FirewallSpec => []FirewallInv
  <1>1. FirewallInit => FirewallInv
    <2> SUFFICES ASSUME FirewallInit PROVE FirewallInv
      OBVIOUS
    <2>1. FirewallInOrder  BY FromConfigInOrder DEF FirewallInit
    <2>2. unflagged = <<>> /\ rate_limits = <<>> /\ time = 0  BY DEF FirewallInit
    <2>7. \A q \in DOMAIN rate_limits : rate_limits[q].start \in Nat  BY <2>2
    <2>3. IsLog(unflagged) /\ unflagged \in Seq(Range(unflagged))
      <3>1. DOMAIN unflagged = 1 .. 0  BY <2>2
      <3> QED  BY <2>2, <3>1 DEF IsLog
    <2>4. CountersInOrder
      <3> SUFFICES ASSUME NEW key, NEW w \in Nat, NEW h \in Nat
                   PROVE  /\ Law(unflagged, key, w, h, key \in DOMAIN rate_limits, rate_limits[key])
                          /\ key \notin DOMAIN rate_limits
        BY DEF CountersInOrder
      <3>1. key \notin DOMAIN rate_limits  BY <2>2
      <3>2. OfKey(unflagged, key) = {}  BY <2>2 DEF OfKey
      <3>3. \A s \in Nat : Cardinality(Window(unflagged, key, s)) <= h  BY <3>2, FS_EmptySet DEF Window
      <3> QED  BY <3>1, <3>2, <3>3 DEF Law
    <2>5. DOMAIN walk = Inspectors /\ \A i \in Inspectors : WalkInOrder(walk[i])
      BY DEF FirewallInit, WalkInOrder
    <2>6. time <= MaxTime /\ lists \in [ListNames -> ListContents \cup {{}}]
      BY FirewallAssumption DEF FirewallInit
    <2> QED  BY <2>1, <2>2, <2>3, <2>4, <2>5, <2>6, <2>7 DEF FirewallInv
  <1>2. FirewallInv /\ [FirewallNext]_fw_vars => FirewallInv'
    <2> SUFFICES ASSUME FirewallInv, [FirewallNext]_fw_vars PROVE FirewallInv'
      OBVIOUS
    <2>1. ASSUME NEW i \in Inspectors, NEW ctx \in FwMessages, Evaluate(i, ctx) PROVE FirewallInv'
      BY <2>1, EvaluateStep
    <2>2. ASSUME NEW i \in Inspectors,
                 SkipChain(i) \/ SkipRule(i) \/ TestCondition(i) \/ ReadClock(i) \/ RuleFails(i) \/ RuleMatches(i)
                     \/ ChainPolicy(i) \/ DefaultPolicy(i)
          PROVE  FirewallInv'
      BY <2>2, WalkStep
    <2>3. ASSUME NEW i \in Inspectors, CountRate(i) PROVE FirewallInv'  BY <2>3, CountRateStep
    <2>4. CASE (\E l \in ListNames, entries \in ListContents : LoadList(l, entries)) \/ TimeGoesOn \/ UNCHANGED fw_vars
      <3>1. UNCHANGED <<fw, rate_limits, unflagged, walk>> /\ (time' = time \/ (time < MaxTime /\ time' = time + 1))
        BY <2>4 DEF LoadList, TimeGoesOn, fw_vars
      <3>2. time' \in Nat /\ time <= time' /\ time' <= MaxTime  BY <3>1, FirewallAssumption DEF FirewallInv
      <3>4. lists' \in [ListNames -> ListContents \cup {{}}]
        BY <2>4 DEF LoadList, TimeGoesOn, fw_vars, FirewallInv
      <3>3. DOMAIN walk' = Inspectors /\ \A j \in Inspectors : WalkInOrder(walk[j])'
        <4> SUFFICES ASSUME NEW j \in Inspectors PROVE WalkInOrder(walk[j])'
          BY <3>1 DEF FirewallInv
        <4>1. PICK w : w = walk[j]  OBVIOUS
        <4>2. WalkInOrder(w) /\ time \in Nat  BY <4>1 DEF FirewallInv
        <4>3. w = NoWalk \/ w.now <= time'  BY <3>2, <4>2 DEF WalkInOrder, NotRead
        <4>4. WalkInOrder(w)'  BY <3>1, <4>2, <4>3 DEF WalkInOrder
        <4> QED  BY <3>1, <4>1, <4>4
      <3> QED  BY <3>1, <3>2, <3>3, <3>4, CountersKept DEF FirewallInv
    <2> QED  BY <2>1, <2>2, <2>3, <2>4 DEF FirewallNext
  <1> QED  BY <1>1, <1>2, PTL DEF FirewallSpec

\* The variables of the firewall have their types; a decision is final.
THEOREM FirewallTyped == FirewallSpec => []FirewallTypeOK
  <1>1. FirewallInv => FirewallTypeOK
    <2> SUFFICES ASSUME FirewallInv PROVE FirewallTypeOK
      OBVIOUS
    <2>1. \A l \in ListNames : lists[l] \in ListContents \cup {{}}  BY DEF FirewallInv
    <2>2. \A i \in Inspectors : walk[i].at \in {"idle", "walking", "done"}
      BY DEF FirewallInv, WalkInOrder, NoWalk
    <2>3. \A i \in Inspectors : walk[i].at = "done" => walk[i].result \in FinalResults
      BY DEF FirewallInv, WalkInOrder, NoWalk
    <2>4. time \in 0 .. MaxTime  BY FirewallAssumption DEF FirewallInv
    <2> QED  BY <2>1, <2>2, <2>3, <2>4 DEF FirewallTypeOK
  <1> QED  BY <1>1, FirewallInvariant, PTL

\* The counters within their law, and evaluations that wait, let no more by in a window.
LEMMA LawHoldsRate ==
  ASSUME FirewallInv
  PROVE  RateHeld
  <1> SUFFICES ASSUME NEW n \in DOMAIN unflagged, NEW l \in Limits(unflagged[n].key[1]),
                      Limits(unflagged[n].key[1]) = {l}, l[1] > 0
               PROVE  Cardinality(LetBy(unflagged[n].key, unflagged[n].at, unflagged[n].at + l[1] - 1))
                          <= 2 * l[2] - 1 + (Cardinality(Inspectors) - 1)
    BY DEF RateHeld
  <1>1. PICK key, at, log, walks : key = unflagged[n].key /\ at = unflagged[n].at /\ log = unflagged /\ walks = walk
    OBVIOUS
  <1>2. at \in Nat /\ IsLog(log) /\ n \in OfKey(log, key)  BY <1>1 DEF FirewallInv, IsLog, OfKey
  <1>3. PICK w, h \in Nat : l = <<w, h>>  BY LimitsAreNumbers
  <1>4. l[1] = w /\ l[2] = h /\ w > 0  BY <1>3
  <1>5. LetBy(key, at, at + w - 1) = Between(log, key, at, at + w - 1)  BY <1>1 DEF LetBy, Between, OfKey
  <1>6. /\ Law(unflagged, key, w, h, key \in DOMAIN rate_limits, rate_limits[key])
        /\ key \in DOMAIN rate_limits => Patient(unflagged, key, rate_limits[key].start, walk)
    BY <1>1, <1>3, <1>4 DEF FirewallInv, CountersInOrder
  <1>7. key \in DOMAIN rate_limits  BY <1>1, <1>2, <1>6 DEF Law
  <1>8. PICK counter : counter = rate_limits[key]  OBVIOUS
  <1>9. Law(log, key, w, h, TRUE, counter) /\ Patient(log, key, counter.start, walks)
    <2>1. (key \in DOMAIN rate_limits) = TRUE  BY <1>7
    <2> QED  BY <1>1, <1>6, <1>7, <1>8, <2>1
  <1>10. Cardinality(Between(log, key, at, at + w - 1)) <= 2 * h - 1 + (Cardinality(Inspectors) - 1)
    BY <1>2, <1>4, <1>9, SpanBound
  <1> QED  BY <1>1, <1>4, <1>5, <1>10

\* Verdicts hold, for every firewall, any number of messages at once and every order of their
\* steps: no chain is consulted before one of a lower priority number, and no rate condition
\* lets more by in a window than twice its threshold less one and one for every other
\* evaluation (evaluate, check_rate_limit).
THEOREM VerdictsAlwaysHold == FirewallSpec => []VerdictsHold
  <1>1. FirewallInv => ChainsInOrder
    <2> SUFFICES ASSUME FirewallInv, NEW i \in Inspectors, walk[i].at # "idle", walk[i].chain \in DOMAIN fw.chains,
                        NEW j \in DOMAIN fw.chains, fw.chains[j].priority < fw.chains[walk[i].chain].priority
                 PROVE  j < walk[i].chain
      BY DEF ChainsInOrder
    <2> QED  BY DEF FirewallInv, FirewallInOrder
  <1>2. FirewallInv => VerdictsHold  BY <1>1, LawHoldsRate DEF VerdictsHold
  <1> QED  BY <1>2, FirewallInvariant, PTL
=============================================================================
