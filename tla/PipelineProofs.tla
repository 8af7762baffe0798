-------------------------- MODULE PipelineProofs --------------------------
(***************************************************************************)
(* Proofs about Pipeline, for any requests, sessions, routes and sizes of  *)
(* the bus and the channels.                                               *)
(***************************************************************************)
EXTENDS Pipeline, FiniteSetTheorems, TLAPS

Status == {"none", "success", "error"}
Kinds == {"MessageSubmitRequest", "MessageAccepted", "MessageRouted", "ResponseReady", "Other"}
Events == [kind : Kinds, req : Requests \cup {Nobody}, route : Seq(ClusterKind), status : Status]
Responses == [req : Requests, status : Status]

\* Event e is of the given kind and about request r.
About(e, kind, r) == e.kind = kind /\ e.req = r

\* The events of q have none of that kind about r; one at most.
Without(q, kind, r) == \A i \in 1..Len(q) : ~About(q[i], kind, r)
AtMostOne(q, kind, r) ==
    \A i, j \in 1..Len(q) : About(q[i], kind, r) /\ About(q[j], kind, r) => i = j

\* The same of the responses in a session's channel.
WithoutResponse(q, r) == \A i \in 1..Len(q) : q[i].req # r
OneResponse(q, r) == \A i, j \in 1..Len(q) : q[i].req = r /\ q[j].req = r => i = j

\* The stages request r is in.
Stages(r) ==
    {p \in Subscribers : ~Without(queue[p], HandledBy[p], r)}
    \cup {x \in {"routing"} : routing = r}
    \cup {x \in {"holding"} : holding = r}
    \cup {x \in {"task"} : task[r] # "none"}
    \cup {x \in {"channel"} : \E s \in Sessions : ~WithoutResponse(channel[s], r)}
    \cup {x \in {"sent"} : sent[r] # "none"}

\* What is in each variable.
PipelineTypes ==
    /\ StoreTypeOK
    /\ queue \in [Subscribers -> Seq(Events)] /\ missed \in [Subscribers -> BOOLEAN]
    /\ session \in [Sessions -> {"open", "ended", "gone"}]
    /\ owner \in [Requests -> Sessions \cup {Nobody}]
    /\ routing \in Requests \cup {Nobody} /\ holding \in Requests \cup {Nobody}
    /\ task \in [Requests -> {"none", "next", "sent", "answered"} \cup ClusterKind]
    /\ left \in [Requests -> Seq(ClusterKind)]
    /\ accepted \subseteq Requests
    /\ channel \in [Sessions -> Seq(Responses)]
    /\ sent \in [Requests -> Status]

\* Nothing outgrows its bound.
Sizes ==
    /\ \A p \in Subscribers : Len(queue[p]) <= BusCapacity
    /\ \A s \in Sessions : Len(channel[s]) <= ResponseChannel
    /\ LET running == {r \in Requests : task[r] # "none"} IN
       IsFiniteSet(running) /\ Cardinality(running) <= Concurrency

\* A request is in one stage at most, and only once in it; before it is submitted it is in
\* none, and a response waits in the channel of the session that submitted its request.
OneStageOf(r) ==
    /\ \A x, y \in Stages(r) : x = y
    /\ \A p \in Subscribers : AtMostOne(queue[p], HandledBy[p], r)
    /\ \A s \in Sessions : OneResponse(channel[s], r)
    /\ owner[r] = Nobody => Stages(r) = {}
    /\ \A s \in Sessions : WithoutResponse(channel[s], r) \/ owner[r] = s
OneStage == \A r \in Requests : OneStageOf(r)

\* A response that says success, on the bus, in a channel or at the client, is about a request
\* that was accepted; every response says success or error.  No message is stored under an
\* envelope's identifier.
SuccessIsTrue ==
    /\ \A p \in Subscribers : \A i \in 1..Len(queue[p]) :
          /\ queue[p][i].kind = "ResponseReady" => queue[p][i].status # "none"
          /\ queue[p][i].status = "success" => queue[p][i].req \in accepted
    /\ \A s \in Sessions : \A i \in 1..Len(channel[s]) :
          /\ channel[s][i].status # "none"
          /\ channel[s][i].status = "success" => channel[s][i].req \in accepted
    /\ \A r \in Requests : sent[r] = "success" => r \in accepted
    /\ \A r \in Requests : messages[EnvelopeId(r)] = NoMessage

PipelineInv == PipelineTypes /\ Sizes /\ OneStage /\ SuccessIsTrue
---------------------------------------------------------------------------
(* The bus *)

\* The channel keeps the end of what was there and what is published, in its order.
LEMMA KeepShape ==
    ASSUME NEW T, NEW q \in Seq(T), NEW es \in Seq(T)
    PROVE  /\ Keep(q, es) \in Seq(T) /\ Len(Keep(q, es)) <= BusCapacity
           /\ \E off \in Nat :
                 /\ off + Len(Keep(q, es)) = Len(q) + Len(es)
                 /\ Len(q) + Len(es) <= BusCapacity => off = 0
                 /\ Len(q) + Len(es) > BusCapacity => Len(Keep(q, es)) = BusCapacity
                 /\ \A i \in 1..Len(Keep(q, es)) :
                       Keep(q, es)[i] = IF i + off <= Len(q) THEN q[i + off] ELSE es[(i + off) - Len(q)]
  <1> DEFINE all == q \o es
             n == Len(all) - BusCapacity
  <1>1. /\ all \in Seq(T) /\ Len(all) = Len(q) + Len(es) /\ Len(all) \in Nat
        /\ Len(q) \in Nat /\ Len(es) \in Nat
    OBVIOUS
  <1>0. \A i \in 1..Len(all) : all[i] = IF i <= Len(q) THEN q[i] ELSE es[i - Len(q)]
    OBVIOUS
  <1>2. BusCapacity \in Nat /\ BusCapacity > 0  BY BusAssumption
  <1>3. CASE Len(all) <= BusCapacity
    <2>1. Keep(q, es) = all  BY <1>1, <1>2, <1>3 DEF Keep
    <2> HIDE DEF all
    <2>2. Keep(q, es) \in Seq(T) /\ Len(Keep(q, es)) <= BusCapacity  BY <1>1, <1>3, <2>1
    <2>3. \A i \in 1..Len(all) : all[i] = IF i + 0 <= Len(q) THEN q[i + 0] ELSE es[(i + 0) - Len(q)]
      BY <1>0, <1>1
    <2>4. /\ 0 + Len(all) = Len(q) + Len(es) /\ 0 \in Nat
          /\ ~(Len(q) + Len(es) > BusCapacity)
      BY <1>1, <1>2, <1>3
    <2>5. QED  BY <2>1, <2>2, <2>3, <2>4
  <1>4. CASE Len(all) > BusCapacity
    <2>1. Keep(q, es) = SubSeq(all, n + 1, Len(all))  BY <1>1, <1>2, <1>4 DEF Keep
    <2>2. n \in Nat /\ n + 1 \in 1..Len(all) /\ n + BusCapacity = Len(all)  BY <1>1, <1>2, <1>4
    <2> HIDE DEF all, n
    <2>3. /\ Keep(q, es) \in Seq(T) /\ Len(Keep(q, es)) = BusCapacity
          /\ \A i \in 1..BusCapacity : Keep(q, es)[i] = all[i + n]
      BY <1>1, <1>2, <2>1, <2>2
    <2>4. \A i \in 1..BusCapacity :
             Keep(q, es)[i] = IF i + n <= Len(q) THEN q[i + n] ELSE es[(i + n) - Len(q)]
      <3> SUFFICES ASSUME NEW i \in 1..BusCapacity
                   PROVE  Keep(q, es)[i] = IF i + n <= Len(q) THEN q[i + n] ELSE es[(i + n) - Len(q)]
        OBVIOUS
      <3>1. i + n \in 1..Len(all)  BY <1>1, <1>2, <2>2
      <3>2. ASSUME NEW k \in 1..Len(all)
            PROVE  all[k] = IF k <= Len(q) THEN q[k] ELSE es[k - Len(q)]
        BY <1>0
      <3> DEFINE m == i + n
      <3>5. all[m] = IF m <= Len(q) THEN q[m] ELSE es[m - Len(q)]
        <4> HIDE DEF m
        <4>1. m \in 1..Len(all)  BY <3>1 DEF m
        <4>2. QED  BY <3>2, <4>1
      <3>3. Keep(q, es)[i] = all[i + n]  BY <2>3
      <3>4. QED  BY <3>3, <3>5
    <2>5. /\ n + Len(Keep(q, es)) = Len(q) + Len(es)
          /\ ~(Len(q) + Len(es) <= BusCapacity)
          /\ Len(Keep(q, es)) <= BusCapacity
      BY <1>1, <1>2, <1>4, <2>2, <2>3
    <2>6. \E off \in Nat :
             /\ off + Len(Keep(q, es)) = Len(q) + Len(es)
             /\ Len(q) + Len(es) <= BusCapacity => off = 0
             /\ Len(q) + Len(es) > BusCapacity => Len(Keep(q, es)) = BusCapacity
             /\ \A i \in 1..Len(Keep(q, es)) :
                   Keep(q, es)[i] = IF i + off <= Len(q) THEN q[i + off] ELSE es[(i + off) - Len(q)]
      <3> USE <2>2
      <3> WITNESS n \in Nat
      <3>1. QED  BY <2>3, <2>4, <2>5
    <2>7. QED  BY <2>3, <2>5, <2>6
  <1>5. QED  BY <1>1, <1>2, <1>3, <1>4

\* Publishing what is not about r neither duplicates nor makes an event about it.
LEMMA KeepQuiet ==
    ASSUME NEW q \in Seq(Events), NEW es \in Seq(Events), NEW kind, NEW r, Without(es, kind, r)
    PROVE  /\ AtMostOne(q, kind, r) => AtMostOne(Keep(q, es), kind, r)
           /\ Without(q, kind, r) => Without(Keep(q, es), kind, r)
  <1> DEFINE k == Keep(q, es)
  <1>1. PICK off \in Nat :
           /\ off + Len(k) = Len(q) + Len(es)
           /\ \A i \in 1..Len(k) : k[i] = IF i + off <= Len(q) THEN q[i + off] ELSE es[(i + off) - Len(q)]
    BY KeepShape, ZenonT(30)
  <1>2. k \in Seq(Events)  BY KeepShape
  <1>3. Len(k) \in Nat /\ Len(q) \in Nat /\ Len(es) \in Nat  BY <1>2
  <1> HIDE DEF k
  <1>4. \A i \in 1..Len(k) : About(k[i], kind, r) => i + off \in 1..Len(q) /\ About(q[i + off], kind, r)
    <2> SUFFICES ASSUME NEW i \in 1..Len(k), About(k[i], kind, r)
                 PROVE  i + off \in 1..Len(q) /\ About(q[i + off], kind, r)
      OBVIOUS
    <2>1. CASE i + off <= Len(q)  BY <1>1, <1>3, <2>1
    <2>2. CASE i + off > Len(q)
      <3>1. (i + off) - Len(q) \in 1..Len(es)  BY <1>1, <1>3, <2>2
      <3>2. k[i] = es[(i + off) - Len(q)]  BY <1>1, <1>3, <2>2
      <3>3. QED  BY <3>1, <3>2 DEF Without
    <2>3. QED  BY <1>3, <2>1, <2>2
  <1>5. Without(q, kind, r) => Without(k, kind, r)  BY <1>4 DEF Without
  <1>6. AtMostOne(q, kind, r) => AtMostOne(k, kind, r)
    BY <1>3, <1>4 DEF AtMostOne
  <1>7. QED  BY <1>5, <1>6 DEF k

\* Publishing one event about r, last, where there was none leaves one.
LEMMA KeepLast ==
    ASSUME NEW q \in Seq(Events), NEW es \in Seq(Events), NEW kind, NEW r, es # << >>,
           \A i \in 1..Len(es) : About(es[i], kind, r) => i = Len(es)
    PROVE  Without(q, kind, r) => AtMostOne(Keep(q, es), kind, r)
  <1> DEFINE k == Keep(q, es)
  <1>1. PICK off \in Nat :
           /\ off + Len(k) = Len(q) + Len(es)
           /\ \A i \in 1..Len(k) : k[i] = IF i + off <= Len(q) THEN q[i + off] ELSE es[(i + off) - Len(q)]
    BY KeepShape, ZenonT(30)
  <1>2. k \in Seq(Events)  BY KeepShape
  <1>3. Len(k) \in Nat /\ Len(q) \in Nat /\ Len(es) \in Nat  BY <1>2
  <1> HIDE DEF k
  <1>4. ASSUME Without(q, kind, r), NEW i \in 1..Len(k), About(k[i], kind, r) PROVE i = Len(k)
    <2>1. i + off > Len(q)
      <3> SUFFICES ASSUME i + off <= Len(q) PROVE FALSE  BY <1>3
      <3>1. i + off \in 1..Len(q) /\ k[i] = q[i + off]  BY <1>1, <1>3
      <3>2. QED  BY <1>4, <3>1 DEF Without
    <2>2. (i + off) - Len(q) \in 1..Len(es)  BY <1>1, <1>3, <2>1
    <2>3. k[i] = es[(i + off) - Len(q)]  BY <1>1, <1>3, <2>1
    <2>4. (i + off) - Len(q) = Len(es)  BY <1>4, <2>2, <2>3
    <2>5. QED  BY <1>1, <1>3, <2>4
  <1>5. Without(q, kind, r) => AtMostOne(k, kind, r)  BY <1>4 DEF AtMostOne
  <1>6. QED  BY <1>5 DEF k

\* Receiving the next event about r leaves none if there was one at most.
LEMMA TailQuiet ==
    ASSUME NEW q \in Seq(Events), q # << >>, NEW kind, NEW r
    PROVE  /\ Tail(q) \in Seq(Events) /\ Head(q) \in Events /\ Len(Tail(q)) + 1 = Len(q)
           /\ AtMostOne(q, kind, r) => AtMostOne(Tail(q), kind, r)
           /\ Without(q, kind, r) => Without(Tail(q), kind, r)
           /\ AtMostOne(q, kind, r) /\ About(Head(q), kind, r) => Without(Tail(q), kind, r)
           /\ Without(Tail(q), kind, r) /\ ~About(Head(q), kind, r) => Without(q, kind, r)
           /\ About(Head(q), kind, r) => ~Without(q, kind, r)
  <1>1. /\ Tail(q) \in Seq(Events) /\ Len(q) \in Nat /\ Len(q) > 0
        /\ Len(Tail(q)) = Len(q) - 1 /\ Head(q) = q[1] /\ Head(q) \in Events
        /\ \A i \in 1..Len(Tail(q)) : Tail(q)[i] = q[i + 1] /\ i + 1 \in 1..Len(q)
    OBVIOUS
  <1>2. 1 \in 1..Len(q)  BY <1>1
  <1>3. AtMostOne(q, kind, r) => AtMostOne(Tail(q), kind, r)  BY <1>1 DEF AtMostOne
  <1>4. Without(q, kind, r) => Without(Tail(q), kind, r)  BY <1>1 DEF Without
  <1>5. AtMostOne(q, kind, r) /\ About(Head(q), kind, r) => Without(Tail(q), kind, r)
    BY <1>1, <1>2 DEF AtMostOne, Without
  <1>6. Without(Tail(q), kind, r) /\ ~About(Head(q), kind, r) => Without(q, kind, r)
    <2> SUFFICES ASSUME Without(Tail(q), kind, r), ~About(Head(q), kind, r), NEW i \in 1..Len(q)
                 PROVE  ~About(q[i], kind, r)
      BY DEF Without
    <2>1. CASE i = 1  BY <1>1, <2>1
    <2>2. CASE i # 1
      <3>1. i - 1 \in 1..Len(Tail(q)) /\ (i - 1) + 1 = i  BY <1>1, <2>2
      <3>2. Tail(q)[i - 1] = q[i]  BY <1>1, <3>1
      <3>3. QED  BY <3>1, <3>2 DEF Without
    <2>3. QED  BY <2>1, <2>2
  <1>7. About(Head(q), kind, r) => ~Without(q, kind, r)  BY <1>1, <1>2 DEF Without
  <1>8. QED  BY <1>1, <1>3, <1>4, <1>5, <1>6, <1>7

\* What publishing to the queues q leaves in them: e is the last event published.
BusKeeps(q, e) ==
    /\ queue' \in [Subscribers -> Seq(Events)] /\ missed' \in [Subscribers -> BOOLEAN]
    /\ \A p \in Subscribers : Len(queue'[p]) <= BusCapacity
    /\ \A p \in Subscribers, r \in Requests :
          /\ ~About(e, HandledBy[p], r) /\ AtMostOne(q[p], HandledBy[p], r)
                => AtMostOne(queue'[p], HandledBy[p], r)
          /\ ~About(e, HandledBy[p], r) /\ Without(q[p], HandledBy[p], r)
                => Without(queue'[p], HandledBy[p], r)
          /\ Without(q[p], HandledBy[p], r) => AtMostOne(queue'[p], HandledBy[p], r)
          /\ ~Without(q[p], HandledBy[p], r) => missed'[p] \/ ~Without(queue'[p], HandledBy[p], r)
    /\ \A p \in Subscribers : \A i \in 1..Len(queue'[p]) :
          \/ queue'[p][i] \in {e, Other}
          \/ \E j \in 1..Len(q[p]) : queue'[p][i] = q[p][j]

\* Every subscriber has e.
BusTells(e) ==
    \A p \in Subscribers, r \in Requests :
        About(e, HandledBy[p], r) => ~Without(queue'[p], HandledBy[p], r)

\* The event c receives, and what it leaves behind.
BusGives(c, e) ==
    /\ queue[c] # << >> /\ Head(queue[c]) \in Events
    /\ \E i \in 1..Len(queue[c]) : Head(queue[c]) = queue[c][i]
    /\ \A r \in Requests :
          /\ About(Head(queue[c]), HandledBy[c], r) => ~Without(queue[c], HandledBy[c], r)
          /\ /\ About(Head(queue[c]), HandledBy[c], r) /\ AtMostOne(queue[c], HandledBy[c], r)
             /\ ~About(e, HandledBy[c], r)
             => Without(queue'[c], HandledBy[c], r)

\* As BusKeeps, when c has received an event first.
BusKeepsBut(c, e) ==
    /\ queue' \in [Subscribers -> Seq(Events)] /\ missed' \in [Subscribers -> BOOLEAN]
    /\ \A p \in Subscribers : Len(queue'[p]) <= BusCapacity
    /\ \A p \in Subscribers, r \in Requests :
          /\ ~About(e, HandledBy[p], r) /\ AtMostOne(queue[p], HandledBy[p], r)
                => AtMostOne(queue'[p], HandledBy[p], r)
          /\ ~About(e, HandledBy[p], r) /\ Without(queue[p], HandledBy[p], r)
                => Without(queue'[p], HandledBy[p], r)
          /\ Without(queue[p], HandledBy[p], r) => AtMostOne(queue'[p], HandledBy[p], r)
          /\ /\ ~Without(queue[p], HandledBy[p], r)
             /\ p = c => ~About(Head(queue[c]), HandledBy[c], r)
             => missed'[p] \/ ~Without(queue'[p], HandledBy[p], r)
    /\ \A p \in Subscribers : \A i \in 1..Len(queue'[p]) :
          \/ queue'[p][i] \in {e, Other}
          \/ \E j \in 1..Len(queue[p]) : queue'[p][i] = queue[p][j]

\* Events of other parts are events, and about no request.
LEMMA OtherIsEvent == Other \in Events /\ Other.req = Nobody /\ Other.kind = "Other" /\ Other.status = "none"
  BY DEF Other, Event, Events, Kinds, Status, ClusterKind

\* What a processor publishes at once: nothing, an event, or an event after another one.
LEMMA Announced ==
    ASSUME NEW e \in Events, NEW es \in {<< >>, <<e>>, <<Other, e>>}
    PROVE  /\ es \in Seq(Events) /\ Len(es) \in Nat
           /\ \A i \in 1..Len(es) : (es[i] = e /\ i = Len(es)) \/ es[i] = Other
           /\ es # << >> => Len(es) > 0 /\ es[Len(es)] = e
  <1>1. CASE es = << >>  BY <1>1
  <1>2. CASE es = <<e>>  BY <1>2
  <1>3. CASE es = <<Other, e>>  BY <1>3, OtherIsEvent
  <1>4. QED  BY <1>1, <1>2, <1>3

\* One queue, and what is published to it.
LEMMA KeepTyped ==
    ASSUME NEW q \in Seq(Events), NEW e \in Events, NEW es \in {<< >>, <<e>>, <<Other, e>>}
    PROVE  /\ Keep(q, es) \in Seq(Events) /\ Len(Keep(q, es)) <= BusCapacity
           /\ \A i \in 1..Len(Keep(q, es)) :
                 Keep(q, es)[i] \in {e, Other} \/ \E j \in 1..Len(q) : Keep(q, es)[i] = q[j]
  <1> DEFINE k == Keep(q, es)
  <1>1. es \in Seq(Events)  BY Announced
  <1>2. k \in Seq(Events) /\ Len(k) <= BusCapacity  BY <1>1, KeepShape
  <1>3. PICK off \in Nat :
           /\ off + Len(k) = Len(q) + Len(es)
           /\ \A i \in 1..Len(k) : k[i] = IF i + off <= Len(q) THEN q[i + off] ELSE es[(i + off) - Len(q)]
    BY <1>1, KeepShape, ZenonT(30)
  <1>4. Len(k) \in Nat /\ Len(q) \in Nat /\ Len(es) \in Nat  BY <1>1, <1>2
  <1> HIDE DEF k
  <1>5. ASSUME NEW i \in 1..Len(k)
        PROVE  k[i] \in {e, Other} \/ \E j \in 1..Len(q) : k[i] = q[j]
    <2>1. CASE i + off <= Len(q)
      <3>1. k[i] = q[i + off] /\ i + off \in 1..Len(q)  BY <1>3, <1>4, <2>1
      <3>2. QED  BY <3>1
    <2>2. CASE i + off > Len(q)
      <3>1. (i + off) - Len(q) \in 1..Len(es)  BY <1>3, <1>4, <2>2
      <3>2. k[i] = es[(i + off) - Len(q)]  BY <1>3, <1>4, <2>2
      <3>3. QED  BY <3>1, <3>2, Announced
    <2>3. QED  BY <1>4, <2>1, <2>2
  <1>6. QED  BY <1>2, <1>5 DEF k

\* What publishing nothing, an event, or an event after another one does to the events about a
\* request.
LEMMA KeepAll ==
    ASSUME NEW q \in Seq(Events), NEW e \in Events, NEW es \in {<< >>, <<e>>, <<Other, e>>},
           NEW kind, NEW r \in Requests
    PROVE  /\ ~About(e, kind, r) /\ AtMostOne(q, kind, r) => AtMostOne(Keep(q, es), kind, r)
           /\ ~About(e, kind, r) /\ Without(q, kind, r) => Without(Keep(q, es), kind, r)
           /\ Without(q, kind, r) => AtMostOne(Keep(q, es), kind, r)
           /\ es # << >> /\ About(e, kind, r) => ~Without(Keep(q, es), kind, r)
           /\ ~Without(q, kind, r) /\ Len(q) + Len(es) <= BusCapacity => ~Without(Keep(q, es), kind, r)
  <1> DEFINE k == Keep(q, es)
  <1>0. es \in Seq(Events)  BY Announced
  <1>1. /\ Len(es) \in Nat /\ Len(q) \in Nat
        /\ \A i \in 1..Len(es) : (es[i] = e /\ i = Len(es)) \/ es[i] = Other
        /\ es # << >> => Len(es) > 0 /\ es[Len(es)] = e
    <2>1. Len(q) \in Nat  OBVIOUS
    <2>2. Len(es) \in Nat  BY Announced
    <2>3. \A i \in 1..Len(es) : (es[i] = e /\ i = Len(es)) \/ es[i] = Other  BY Announced
    <2>4. es # << >> => Len(es) > 0 /\ es[Len(es)] = e  BY Announced
    <2>5. QED  BY <2>1, <2>2, <2>3, <2>4
  <1>2. ~About(Other, kind, r)  BY OtherIsEvent, PipelineAssumption DEF About
  <1>3. ~About(e, kind, r) => Without(es, kind, r)  BY <1>1, <1>2 DEF Without
  <1>4. /\ ~About(e, kind, r) /\ AtMostOne(q, kind, r) => AtMostOne(k, kind, r)
        /\ ~About(e, kind, r) /\ Without(q, kind, r) => Without(k, kind, r)
    BY <1>0, <1>3, KeepQuiet
  <1>5. ASSUME Without(q, kind, r) PROVE AtMostOne(k, kind, r)
    <2>1. CASE es = << >>
      <3>1. Without(es, kind, r)  BY <2>1 DEF Without
      <3>2. Without(k, kind, r)  BY <1>0, <1>5, <3>1, KeepQuiet
      <3>3. QED  BY <3>2 DEF Without, AtMostOne
    <2>2. CASE es # << >>
      <3>1. \A i \in 1..Len(es) : About(es[i], kind, r) => i = Len(es)  BY <1>1, <1>2
      <3>2. QED  BY <1>0, <1>5, <2>2, <3>1, KeepLast
    <2>3. QED  BY <2>1, <2>2
  <1>6. k \in Seq(Events) /\ Len(k) <= BusCapacity  BY <1>0, KeepShape
  <1>7. PICK off \in Nat :
           /\ off + Len(k) = Len(q) + Len(es)
           /\ Len(q) + Len(es) <= BusCapacity => off = 0
           /\ Len(q) + Len(es) > BusCapacity => Len(k) = BusCapacity
           /\ \A i \in 1..Len(k) : k[i] = IF i + off <= Len(q) THEN q[i + off] ELSE es[(i + off) - Len(q)]
    BY <1>0, KeepShape, ZenonT(30)
  <1>8. Len(k) \in Nat /\ BusCapacity \in Nat /\ BusCapacity > 0  BY <1>6, BusAssumption
  <1> HIDE DEF k
  <1>9. ASSUME es # << >>, About(e, kind, r) PROVE ~Without(k, kind, r)
    <2>1. Len(k) > 0 /\ Len(k) \in 1..Len(k) /\ Len(k) + off > Len(q) /\ (Len(k) + off) - Len(q) = Len(es)
      BY <1>1, <1>7, <1>8, <1>9
    <2>2. k[Len(k)] = es[Len(es)]  BY <1>1, <1>7, <1>8, <2>1
    <2>3. QED  BY <1>1, <1>9, <2>1, <2>2 DEF Without
  <1>10. ASSUME ~Without(q, kind, r), Len(q) + Len(es) <= BusCapacity PROVE ~Without(k, kind, r)
    <2>1. off = 0 /\ Len(k) = Len(q) + Len(es)  BY <1>1, <1>7, <1>8, <1>10
    <2>2. \A i \in 1..Len(q) : i \in 1..Len(k) /\ k[i] = q[i]  BY <1>1, <1>7, <1>8, <2>1
    <2>3. QED  BY <1>10, <2>2 DEF Without
  <1>11. QED  BY <1>4, <1>5, <1>9, <1>10 DEF k

\* publish, by a task that is at the queues q.
LEMMA PublishFromStep ==
    ASSUME missed \in [Subscribers -> BOOLEAN], NEW q \in [Subscribers -> Seq(Events)],
           NEW e \in Events, NEW es \in {<< >>, <<e>>, <<Other, e>>}, PublishFrom(q, es)
    PROVE  BusKeeps(q, e) /\ (es # << >> => BusTells(e))
  <1>1. /\ queue' = [p \in Subscribers |-> Keep(q[p], es)]
        /\ missed' = [p \in Subscribers |-> missed[p] \/ Len(q[p]) + Len(es) > BusCapacity]
    BY DEF PublishFrom
  <1>2. es \in Seq(Events) /\ Len(es) \in Nat /\ BusCapacity \in Nat  BY Announced, BusAssumption
  <1>3. ASSUME NEW p \in Subscribers
        PROVE  q[p] \in Seq(Events) /\ Len(q[p]) \in Nat /\ missed[p] \in BOOLEAN
    OBVIOUS
  <1>4. ASSUME NEW p \in Subscribers
        PROVE  /\ queue'[p] = Keep(q[p], es)
               /\ missed'[p] = (missed[p] \/ Len(q[p]) + Len(es) > BusCapacity)
    BY <1>1
  <1>5. \A p \in Subscribers : ~(Len(q[p]) + Len(es) <= BusCapacity) => missed'[p]
    <2>1. \A p \in Subscribers :
             ~(Len(q[p]) + Len(es) <= BusCapacity) => Len(q[p]) + Len(es) > BusCapacity
      BY <1>2, <1>3
    <2>2. QED  BY <1>4, <2>1, Zenon
  <1>6. ASSUME NEW p \in Subscribers, NEW r \in Requests
        PROVE  /\ ~About(e, HandledBy[p], r) /\ AtMostOne(q[p], HandledBy[p], r)
                     => AtMostOne(queue'[p], HandledBy[p], r)
               /\ ~About(e, HandledBy[p], r) /\ Without(q[p], HandledBy[p], r)
                     => Without(queue'[p], HandledBy[p], r)
               /\ Without(q[p], HandledBy[p], r) => AtMostOne(queue'[p], HandledBy[p], r)
               /\ ~Without(q[p], HandledBy[p], r)
                     => missed'[p] \/ ~Without(queue'[p], HandledBy[p], r)
               /\ es # << >> /\ About(e, HandledBy[p], r) => ~Without(queue'[p], HandledBy[p], r)
    <2> DEFINE k == Keep(q[p], es)
               h == HandledBy[p]
    <2>1. /\ ~About(e, h, r) /\ AtMostOne(q[p], h, r) => AtMostOne(k, h, r)
          /\ ~About(e, h, r) /\ Without(q[p], h, r) => Without(k, h, r)
          /\ Without(q[p], h, r) => AtMostOne(k, h, r)
          /\ es # << >> /\ About(e, h, r) => ~Without(k, h, r)
          /\ ~Without(q[p], h, r) /\ Len(q[p]) + Len(es) <= BusCapacity => ~Without(k, h, r)
      BY <1>3, KeepAll
    <2>2. QED  BY <1>4, <1>5, <2>1
  <1>7. ASSUME NEW p \in Subscribers
        PROVE  /\ Keep(q[p], es) \in Seq(Events) /\ Len(Keep(q[p], es)) <= BusCapacity
               /\ \A i \in 1..Len(Keep(q[p], es)) :
                     \/ Keep(q[p], es)[i] \in {e, Other}
                     \/ \E j \in 1..Len(q[p]) : Keep(q[p], es)[i] = q[p][j]
    <2>1. q[p] \in Seq(Events)  BY <1>3
    <2>2. QED  BY <2>1, KeepTyped, Zenon
  <1>8. queue' \in [Subscribers -> Seq(Events)] /\ missed' \in [Subscribers -> BOOLEAN]
    BY <1>1, <1>3, <1>7
  <1>9. BusKeeps(q, e)  BY <1>4, <1>6, <1>7, <1>8 DEF BusKeeps
  <1>10. QED  BY <1>6, <1>9 DEF BusTells

\* publish.
LEMMA PublishStep ==
    ASSUME PipelineTypes, NEW e \in Events, NEW es \in {<<e>>, <<Other, e>>}, Publish(es)
    PROVE  BusKeeps(queue, e) /\ BusTells(e)
  <1>1. es \in {<< >>, <<e>>, <<Other, e>>} /\ es # << >>  OBVIOUS
  <1>2. QED  BY <1>1, PublishFromStep DEF Publish, PipelineTypes

\* recv and what its handler publishes.
LEMMA HandleStep ==
    ASSUME PipelineTypes, NEW c \in Subscribers, NEW e \in Events,
           NEW es \in {<< >>, <<e>>, <<Other, e>>}, Handle(c, es)
    PROVE  BusKeepsBut(c, e) /\ BusGives(c, e) /\ (es # << >> => BusTells(e))
  <1> DEFINE q == [queue EXCEPT ![c] = Tail(@)]
  <1>1. /\ queue \in [Subscribers -> Seq(Events)] /\ missed \in [Subscribers -> BOOLEAN]
        /\ queue[c] \in Seq(Events) /\ queue[c] # << >> /\ PublishFrom(q, es)
    BY DEF PipelineTypes, Handle, Receives
  <1>2. /\ Tail(queue[c]) \in Seq(Events) /\ Head(queue[c]) \in Events
        /\ Head(queue[c]) = queue[c][1] /\ 1 \in 1..Len(queue[c])
        /\ \A i \in 1..Len(Tail(queue[c])) : i + 1 \in 1..Len(queue[c]) /\ Tail(queue[c])[i] = queue[c][i + 1]
    BY <1>1
  <1>3. q \in [Subscribers -> Seq(Events)]  BY <1>1, <1>2
  <1>4. \A p \in Subscribers : q[p] = IF p = c THEN Tail(queue[c]) ELSE queue[p]  BY <1>1
  <1> HIDE DEF q
  <1>5. BusKeeps(q, e) /\ (es # << >> => BusTells(e))  BY <1>1, <1>3, PublishFromStep
  <1>6. ASSUME NEW r \in Requests
        PROVE  /\ AtMostOne(queue[c], HandledBy[c], r) => AtMostOne(q[c], HandledBy[c], r)
               /\ Without(queue[c], HandledBy[c], r) => Without(q[c], HandledBy[c], r)
               /\ AtMostOne(queue[c], HandledBy[c], r) /\ About(Head(queue[c]), HandledBy[c], r)
                     => Without(q[c], HandledBy[c], r)
               /\ Without(q[c], HandledBy[c], r) /\ ~About(Head(queue[c]), HandledBy[c], r)
                     => Without(queue[c], HandledBy[c], r)
               /\ About(Head(queue[c]), HandledBy[c], r) => ~Without(queue[c], HandledBy[c], r)
    BY <1>1, <1>4, TailQuiet
  <1>7. BusGives(c, e)
    <2>1. \A r \in Requests :
             /\ About(Head(queue[c]), HandledBy[c], r) /\ AtMostOne(queue[c], HandledBy[c], r)
             /\ ~About(e, HandledBy[c], r)
             => Without(queue'[c], HandledBy[c], r)
      BY <1>5, <1>6 DEF BusKeeps
    <2>2. QED  BY <1>1, <1>2, <1>6, <2>1 DEF BusGives
  <1>8. BusKeepsBut(c, e)
    <2>1. \A p \in Subscribers : \A i \in 1..Len(queue'[p]) :
             \/ queue'[p][i] \in {e, Other}
             \/ \E j \in 1..Len(queue[p]) : queue'[p][i] = queue[p][j]
      <3> SUFFICES ASSUME NEW p \in Subscribers, NEW i \in 1..Len(queue'[p])
                   PROVE  \/ queue'[p][i] \in {e, Other}
                          \/ \E j \in 1..Len(queue[p]) : queue'[p][i] = queue[p][j]
        OBVIOUS
      <3>1. CASE \E j \in 1..Len(q[p]) : queue'[p][i] = q[p][j]
        <4>1. PICK j \in 1..Len(q[p]) : queue'[p][i] = q[p][j]  BY <3>1
        <4>2. CASE p = c
          <5>1. j + 1 \in 1..Len(queue[c]) /\ q[p][j] = queue[c][j + 1]  BY <1>2, <1>4, <4>2
          <5>2. QED  BY <4>1, <4>2, <5>1
        <4>3. CASE p # c  BY <1>4, <4>1, <4>3
        <4>4. QED  BY <4>2, <4>3
      <3>2. QED  BY <1>5, <3>1 DEF BusKeeps
    <2>2. ASSUME NEW p \in Subscribers, NEW r \in Requests
          PROVE  /\ ~About(e, HandledBy[p], r) /\ AtMostOne(queue[p], HandledBy[p], r)
                       => AtMostOne(queue'[p], HandledBy[p], r)
                 /\ ~About(e, HandledBy[p], r) /\ Without(queue[p], HandledBy[p], r)
                       => Without(queue'[p], HandledBy[p], r)
                 /\ Without(queue[p], HandledBy[p], r) => AtMostOne(queue'[p], HandledBy[p], r)
                 /\ /\ ~Without(queue[p], HandledBy[p], r)
                    /\ p = c => ~About(Head(queue[c]), HandledBy[c], r)
                    => missed'[p] \/ ~Without(queue'[p], HandledBy[p], r)
      <3>1. CASE p = c  BY <1>5, <1>6, <3>1 DEF BusKeeps
      <3>2. CASE p # c  BY <1>4, <1>5, <3>2 DEF BusKeeps
      <3>3. QED  BY <3>1, <3>2
    <2>3. QED  BY <1>5, <2>1, <2>2 DEF BusKeeps, BusKeepsBut
  <1>9. QED  BY <1>5, <1>7, <1>8
---------------------------------------------------------------------------
(* Stages *)

\* The stages spelled out, before and after a step.
LEMMA StagesAre ==
    ASSUME NEW r \in Requests, NEW x
    PROVE  /\ x \in Stages(r) <=>
                 \/ x \in Subscribers /\ ~Without(queue[x], HandledBy[x], r)
                 \/ x = "routing" /\ routing = r
                 \/ x = "holding" /\ holding = r
                 \/ x = "task" /\ task[r] # "none"
                 \/ x = "channel" /\ \E s \in Sessions : ~WithoutResponse(channel[s], r)
                 \/ x = "sent" /\ sent[r] # "none"
           /\ x \in Stages(r)' <=>
                 \/ x \in Subscribers /\ ~Without(queue'[x], HandledBy[x], r)
                 \/ x = "routing" /\ routing' = r
                 \/ x = "holding" /\ holding' = r
                 \/ x = "task" /\ task'[r] # "none"
                 \/ x = "channel" /\ \E s \in Sessions : ~WithoutResponse(channel'[s], r)
                 \/ x = "sent" /\ sent'[r] # "none"
  <1>1. x \in Stages(r) <=>
                 \/ x \in Subscribers /\ ~Without(queue[x], HandledBy[x], r)
                 \/ x = "routing" /\ routing = r
                 \/ x = "holding" /\ holding = r
                 \/ x = "task" /\ task[r] # "none"
                 \/ x = "channel" /\ \E s \in Sessions : ~WithoutResponse(channel[s], r)
                 \/ x = "sent" /\ sent[r] # "none"
    BY DEF Stages
  <1>2. x \in Stages(r)' <=>
                 \/ x \in Subscribers /\ ~Without(queue'[x], HandledBy[x], r)
                 \/ x = "routing" /\ routing' = r
                 \/ x = "holding" /\ holding' = r
                 \/ x = "task" /\ task'[r] # "none"
                 \/ x = "channel" /\ \E s \in Sessions : ~WithoutResponse(channel'[s], r)
                 \/ x = "sent" /\ sent'[r] # "none"
    BY DEF Stages, HandledBy, Without, WithoutResponse, About
  <1>3. QED  BY <1>1, <1>2

\* The bus takes request r out of stage x and into stage y; "nothing" is no stage.
BusMoves(r, x, y) ==
    \A p \in Subscribers :
        /\ p # y /\ Without(queue[p], HandledBy[p], r) => Without(queue'[p], HandledBy[p], r)
        /\ p # y /\ AtMostOne(queue[p], HandledBy[p], r) => AtMostOne(queue'[p], HandledBy[p], r)
        /\ Without(queue[p], HandledBy[p], r) => AtMostOne(queue'[p], HandledBy[p], r)
        /\ p = x => Without(queue'[p], HandledBy[p], r)

\* So does a processor, and a session with its channel.
HandsMove(r, x, y) ==
    /\ routing' = r => y = "routing" \/ (x # "routing" /\ routing = r)
    /\ holding' = r => y = "holding" \/ (x # "holding" /\ holding = r)
    /\ task'[r] # "none" => y = "task" \/ (x # "task" /\ task[r] # "none")

ChannelMoves(r, x, y) ==
    /\ \A s \in Sessions :
          /\ ~WithoutResponse(channel'[s], r)
                => y = "channel" \/ (x # "channel" /\ ~WithoutResponse(channel[s], r))
          /\ OneResponse(channel'[s], r)
          /\ WithoutResponse(channel'[s], r) \/ owner'[r] = s
    /\ sent'[r] # "none" => y = "sent" \/ (x # "sent" /\ sent[r] # "none")
    /\ owner'[r] = Nobody => y = "nothing" /\ owner[r] = Nobody

\* A step that moves a request from stage x to stage y, or away, leaves it in one stage.
LEMMA StageStep ==
    ASSUME NEW r \in Requests, OneStageOf(r), NEW x, NEW y,
           y = "nothing" \/ (\A z \in Stages(r) : z = x),
           BusMoves(r, x, y), HandsMove(r, x, y), ChannelMoves(r, x, y)
    PROVE  OneStageOf(r)'
  <1>1. "nothing" \notin Subscribers  BY PipelineAssumption
  <1>2. \A z \in Stages(r)' : (z = y /\ y # "nothing") \/ (z # x /\ z \in Stages(r))
    <2> SUFFICES ASSUME NEW z \in Stages(r)'
                 PROVE  (z = y /\ y # "nothing") \/ (z # x /\ z \in Stages(r))
      OBVIOUS
    <2>1. CASE z \in Subscribers /\ ~Without(queue'[z], HandledBy[z], r)
      BY <1>1, <2>1, StagesAre DEF BusMoves
    <2>2. CASE z = "routing" /\ routing' = r  BY <2>2, StagesAre DEF HandsMove
    <2>3. CASE z = "holding" /\ holding' = r  BY <2>3, StagesAre DEF HandsMove
    <2>4. CASE z = "task" /\ task'[r] # "none"  BY <2>4, StagesAre DEF HandsMove
    <2>5. CASE z = "channel" /\ \E s \in Sessions : ~WithoutResponse(channel'[s], r)
      <3>1. PICK s \in Sessions : ~WithoutResponse(channel'[s], r)  BY <2>5
      <3>2. y = "channel" \/ (x # "channel" /\ ~WithoutResponse(channel[s], r))
        BY <3>1 DEF ChannelMoves
      <3>3. QED  BY <2>5, <3>2, StagesAre
    <2>6. CASE z = "sent" /\ sent'[r] # "none"  BY <2>6, StagesAre DEF ChannelMoves
    <2>7. QED  BY <2>1, <2>2, <2>3, <2>4, <2>5, <2>6, StagesAre
  <1>3. \A a, b \in Stages(r)' : a = b  BY <1>2 DEF OneStageOf
  <1>4. \A p \in Subscribers : AtMostOne(queue'[p], HandledBy[p], r)
    <2> SUFFICES ASSUME NEW p \in Subscribers PROVE AtMostOne(queue'[p], HandledBy[p], r)
      OBVIOUS
    <2>1. CASE p # y  BY <2>1 DEF BusMoves, OneStageOf
    <2>2. CASE p = x
      <3>1. Without(queue'[p], HandledBy[p], r)  BY <2>2 DEF BusMoves
      <3>2. QED  BY <3>1 DEF Without, AtMostOne
    <2>3. CASE p = y /\ p # x
      <3>1. Without(queue[p], HandledBy[p], r)  BY <1>1, <2>3, StagesAre
      <3>2. QED  BY <3>1 DEF BusMoves
    <2>4. QED  BY <2>1, <2>2, <2>3
  <1>5. owner'[r] = Nobody => Stages(r)' = {}  BY <1>2 DEF OneStageOf, ChannelMoves
  <1>6. \A s \in Sessions : OneResponse(channel'[s], r) /\ (WithoutResponse(channel'[s], r) \/ owner'[r] = s)
    BY DEF ChannelMoves
  <1>7. QED
    BY <1>3, <1>4, <1>5, <1>6
    DEF OneStageOf, HandledBy, AtMostOne, OneResponse, WithoutResponse, About

\* Where no session acts, a request moves on or stays.
LEMMA Relayed ==
    ASSUME NEW r \in Requests, OneStageOf(r), NEW x, NEW y, UNCHANGED <<channel, sent, owner>>,
           x \in Stages(r) \/ (x = "nothing" /\ y = "nothing"), x \notin {"channel", "sent"},
           BusMoves(r, x, y), HandsMove(r, x, y)
    PROVE  OneStageOf(r)'
  <1>1. /\ \A s \in Sessions :
              OneResponse(channel[s], r) /\ (WithoutResponse(channel[s], r) \/ owner[r] = s)
        /\ x \in Stages(r) => owner[r] # Nobody /\ \A z \in Stages(r) : z = x
    BY DEF OneStageOf
  <1>2. ChannelMoves(r, x, y)  BY <1>1 DEF ChannelMoves
  <1>3. y = "nothing" \/ (\A z \in Stages(r) : z = x)  BY <1>1
  <1>4. QED  BY <1>2, <1>3, StageStep

\* A bus that does not change has moved nothing.
LEMMA BusStays ==
    ASSUME NEW r \in Requests, NEW x, NEW y, x \notin Subscribers, UNCHANGED queue
    PROVE  BusMoves(r, x, y)
  BY DEF BusMoves, AtMostOne, Without

\* Publishing an event puts the request it is about before the processor that acts on it.
LEMMA PublishMoves ==
    ASSUME NEW r \in Requests, NEW x, NEW y, x \notin Subscribers, NEW e, BusKeeps(queue, e),
           \A p \in Subscribers : p # y => ~About(e, HandledBy[p], r)
    PROVE  BusMoves(r, x, y)
  BY DEF BusMoves, BusKeeps

\* So does a processor that takes an event and publishes another, and it takes its request away.
LEMMA HandleMoves ==
    ASSUME NEW r \in Requests, OneStageOf(r), NEW x, NEW y, NEW e, NEW c \in Subscribers,
           BusKeepsBut(c, e), BusGives(c, e), x \in Subscribers => x = c,
           x = c => About(Head(queue[c]), HandledBy[c], r) /\ c # y,
           \A p \in Subscribers : p # y => ~About(e, HandledBy[p], r)
    PROVE  BusMoves(r, x, y)
  BY DEF BusMoves, BusKeepsBut, BusGives, OneStageOf

\* The events and who acts on them.
LEMMA Handlers ==
    /\ HandledBy["filter"] = "MessageSubmitRequest" /\ HandledBy["router"] = "MessageAccepted"
    /\ HandledBy["forwarder"] = "MessageRouted" /\ HandledBy["response"] = "ResponseReady"
    /\ "filter" \in Subscribers /\ "router" \in Subscribers
    /\ "forwarder" \in Subscribers /\ "response" \in Subscribers
    /\ \A p \in Subscribers : p = "filter" \/ p = "router" \/ p = "forwarder" \/ p = "response"
  BY PipelineAssumption DEF HandledBy

\* What the session and the processors publish are events.
LEMMA EventsTyped ==
    ASSUME NEW q \in Requests
    PROVE  /\ MessageSubmitRequest(q) \in Events /\ MessageAccepted(q) \in Events
           /\ \A route \in Seq(ClusterKind) : MessageRouted(q, route) \in Events
           /\ ResponseReady(q, "success") \in Events /\ ResponseReady(q, "error") \in Events
  BY DEF Events, Kinds, Status, MessageSubmitRequest, MessageAccepted, MessageRouted, ResponseReady, Event

\* Which processor acts on which of them, and for which request.
LEMMA EventsAbout ==
    ASSUME NEW q \in Requests, NEW r \in Requests, NEW route, NEW status, NEW p \in Subscribers
    PROVE  /\ About(MessageSubmitRequest(q), HandledBy[p], r) <=> p = "filter" /\ r = q
           /\ About(MessageAccepted(q), HandledBy[p], r) <=> p = "router" /\ r = q
           /\ About(MessageRouted(q, route), HandledBy[p], r) <=> p = "forwarder" /\ r = q
           /\ About(ResponseReady(q, status), HandledBy[p], r) <=> p = "response" /\ r = q
           /\ ~About(Other, HandledBy[p], r)
  <1>1. /\ MessageSubmitRequest(q).kind = "MessageSubmitRequest" /\ MessageSubmitRequest(q).req = q
        /\ MessageAccepted(q).kind = "MessageAccepted" /\ MessageAccepted(q).req = q
        /\ MessageRouted(q, route).kind = "MessageRouted" /\ MessageRouted(q, route).req = q
        /\ ResponseReady(q, status).kind = "ResponseReady" /\ ResponseReady(q, status).req = q
    BY DEF MessageSubmitRequest, MessageAccepted, MessageRouted, ResponseReady, Event
  <1>2. Other.req # r  BY OtherIsEvent, PipelineAssumption
  <1>3. QED  BY <1>1, <1>2, Handlers DEF About

\* No stage has another's name, and "nothing" is none.
LEMMA StageNames ==
    /\ {"nothing", "routing", "holding", "task", "channel", "sent"} \cap Subscribers = {}
    /\ Nobody \notin Requests
  BY PipelineAssumption

\* Steps that publish nothing about r, and change nothing else about it, leave it where it is.
LEMMA OtherSteps ==
    ASSUME PipelineInv, NEW r \in Requests, UNCHANGED <<channel, sent, owner>>,
           \/ Publish(<<Other>>)
           \/ UNCHANGED queue
           \/ \E p \in Subscribers : Ignores(p),
           HandsMove(r, "nothing", "nothing")
    PROVE  OneStageOf(r)'
  <1>1. OneStageOf(r) /\ PipelineTypes  BY DEF PipelineInv, OneStage
  <1>2. \A p \in Subscribers : ~About(Other, HandledBy[p], r)  BY EventsAbout
  <1>3. BusMoves(r, "nothing", "nothing")
    <2>1. CASE UNCHANGED queue  BY <2>1, BusStays, StageNames
    <2>2. CASE Publish(<<Other>>)
      <3>1. BusKeeps(queue, Other)  BY <1>1, <2>2, PublishStep, OtherIsEvent
      <3>2. QED  BY <1>2, <3>1, PublishMoves, StageNames
    <2>3. CASE \E p \in Subscribers : Ignores(p)
      <3>1. PICK p \in Subscribers : Ignores(p)  BY <2>3
      <3>2. Handle(p, << >>)  BY <3>1 DEF Ignores
      <3>3. BusKeepsBut(p, Other) /\ BusGives(p, Other)  BY <1>1, <3>2, HandleStep, OtherIsEvent
      <3>4. QED  BY <1>1, <1>2, <3>3, HandleMoves, StageNames
    <2>4. QED  BY <2>1, <2>2, <2>3
  <1>4. QED  BY <1>1, <1>3, Relayed

\* handle_submit_sm publishes what is on its way to nobody yet.
LEMMA SubmitStage ==
    ASSUME PipelineInv, NEW r \in Requests, NEW s \in Sessions, NEW q \in Requests, Submit(s, q)
    PROVE  OneStageOf(r)'
  <1> DEFINE e == MessageSubmitRequest(q)
  <1>1. OneStageOf(r) /\ PipelineTypes  BY DEF PipelineInv, OneStage
  <1>2. /\ Publish(<<e>>) /\ owner[q] = Nobody /\ owner' = [owner EXCEPT ![q] = s]
        /\ UNCHANGED <<channel, sent, routing, holding, task>>
    BY DEF Submit, fwd_vars
  <1>3. e \in Events  BY EventsTyped
  <1>4. BusKeeps(queue, e)  BY <1>1, <1>2, <1>3, PublishStep
  <1>5. CASE r # q
    <2>1. owner'[r] = owner[r]  BY <1>1, <1>2, <1>5 DEF PipelineTypes
    <2>2. \A p \in Subscribers : ~About(e, HandledBy[p], r)  BY <1>5, EventsAbout
    <2>3. BusMoves(r, "nothing", "nothing")  BY <1>4, <2>2, PublishMoves, StageNames
    <2>4. HandsMove(r, "nothing", "nothing")  BY <1>2 DEF HandsMove
    <2>5. ChannelMoves(r, "nothing", "nothing")  BY <1>1, <1>2, <2>1 DEF ChannelMoves, OneStageOf
    <2>6. QED  BY <1>1, <2>3, <2>4, <2>5, StageStep
  <1>6. CASE r = q
    <2>1. owner'[r] = s /\ s # Nobody  BY <1>1, <1>2, <1>6, PipelineAssumption DEF PipelineTypes
    <2>2. Stages(r) = {}  BY <1>1, <1>2, <1>6 DEF OneStageOf
    <2>3. \A p \in Subscribers : p # "filter" => ~About(e, HandledBy[p], r)  BY EventsAbout
    <2>4. BusMoves(r, "nothing", "filter")  BY <1>4, <2>3, PublishMoves, StageNames
    <2>5. HandsMove(r, "nothing", "filter")  BY <1>2 DEF HandsMove
    <2>6. \A z \in Sessions : WithoutResponse(channel[z], r)  BY <2>2, StagesAre
    <2>7. ChannelMoves(r, "nothing", "filter")  BY <1>1, <1>2, <2>1, <2>6 DEF ChannelMoves, OneStageOf
    <2>8. QED  BY <1>1, <2>2, <2>4, <2>5, <2>7, StageStep
  <1>7. QED  BY <1>5, <1>6

\* A processor that receives the event of request q and publishes e about q hands it on.
LEMMA HandledOn ==
    ASSUME PipelineInv, NEW r \in Requests, NEW q \in Requests, NEW c \in Subscribers,
           NEW e \in Events, NEW es \in {<<e>>, <<Other, e>>}, NEW y \in Subscribers, y # c,
           Gets(c, q), Handle(c, es),
           \A p \in Subscribers : About(e, HandledBy[p], r) <=> p = y /\ r = q,
           UNCHANGED <<channel, sent, owner, routing, holding, task>>
    PROVE  OneStageOf(r)'
  <1>1. OneStageOf(r) /\ PipelineTypes  BY DEF PipelineInv, OneStage
  <1>2. es \in {<< >>, <<e>>, <<Other, e>>}  OBVIOUS
  <1>3. BusKeepsBut(c, e) /\ BusGives(c, e)  BY <1>1, <1>2, HandleStep
  <1>4. About(Head(queue[c]), HandledBy[c], q)  BY DEF Gets, About
  <1>5. CASE r = q
    <2>1. c \in Stages(r)  BY <1>3, <1>4, <1>5, StagesAre DEF BusGives
    <2>2. BusMoves(r, c, y)  BY <1>1, <1>3, <1>4, <1>5, HandleMoves
    <2>3. HandsMove(r, c, y)  BY StageNames DEF HandsMove
    <2>4. QED  BY <1>1, <2>1, <2>2, <2>3, Relayed, StageNames
  <1>6. CASE r # q
    <2>1. BusMoves(r, "nothing", "nothing")  BY <1>1, <1>3, <1>6, HandleMoves, StageNames
    <2>2. HandsMove(r, "nothing", "nothing")  BY DEF HandsMove
    <2>3. QED  BY <1>1, <2>1, <2>2, Relayed
  <1>7. QED  BY <1>5, <1>6

\* The filter passes a request on to the router, or its rejection to the response processor.
LEMMA FilterStage ==
    ASSUME PipelineInv, NEW r \in Requests, NEW q \in Requests, FilterAccepts(q) \/ FilterRejects(q)
    PROVE  OneStageOf(r)'
  <1>1. UNCHANGED <<channel, sent, owner, routing, holding, task>> /\ Gets("filter", q)
    BY DEF FilterAccepts, FilterRejects, PipelineUnchanged, session_vars, fwd_vars
  <1>2. CASE FilterAccepts(q)
    <2> DEFINE e == MessageAccepted(q)
    <2>1. Handle("filter", <<e>>)  BY <1>2 DEF FilterAccepts
    <2>2. e \in Events  BY EventsTyped
    <2>3. \A p \in Subscribers : About(e, HandledBy[p], r) <=> p = "router" /\ r = q  BY EventsAbout
    <2> HIDE DEF e
    <2>4. QED  BY <1>1, <2>1, <2>2, <2>3, HandledOn, Handlers
  <1>3. CASE FilterRejects(q)
    <2> DEFINE e == ResponseReady(q, "error")
    <2>1. Handle("filter", <<Other, e>>)  BY <1>3 DEF FilterRejects
    <2>2. e \in Events  BY EventsTyped
    <2>3. \A p \in Subscribers : About(e, HandledBy[p], r) <=> p = "response" /\ r = q  BY EventsAbout
    <2> HIDE DEF e
    <2>4. QED  BY <1>1, <2>1, <2>2, <2>3, HandledOn, Handlers
  <1>4. QED  BY <1>2, <1>3

\* A processor that receives the event of request q and publishes nothing has q in its hands,
\* at stage y.
LEMMA HandledKept ==
    ASSUME PipelineInv, NEW r \in Requests, NEW q \in Requests, NEW c \in Subscribers, NEW y,
           Gets(c, q), Handle(c, << >>), UNCHANGED <<channel, sent, owner>>,
           y \notin Subscribers, HandsMove(r, c, IF r = q THEN y ELSE "nothing")
    PROVE  OneStageOf(r)'
  <1>1. OneStageOf(r) /\ PipelineTypes  BY DEF PipelineInv, OneStage
  <1>3. BusKeepsBut(c, Other) /\ BusGives(c, Other)  BY <1>1, HandleStep, OtherIsEvent
  <1>4. About(Head(queue[c]), HandledBy[c], q)  BY DEF Gets, About
  <1>5. \A p \in Subscribers : ~About(Other, HandledBy[p], r)  BY EventsAbout
  <1>6. CASE r = q
    <2>1. c \in Stages(r)  BY <1>3, <1>4, <1>6, StagesAre DEF BusGives
    <2>2. BusMoves(r, c, y)  BY <1>1, <1>3, <1>4, <1>5, <1>6, HandleMoves
    <2>3. QED  BY <1>1, <1>6, <2>1, <2>2, Relayed, StageNames
  <1>7. CASE r # q
    <2>1. BusMoves(r, "nothing", "nothing")  BY <1>1, <1>3, <1>5, HandleMoves, StageNames
    <2>2. HandsMove(r, "nothing", "nothing")  BY <1>7 DEF HandsMove
    <2>3. QED  BY <1>1, <2>1, <2>2, Relayed
  <1>8. QED  BY <1>6, <1>7

\* The router takes a request up and stores its message.
LEMMA RouterStoresStage ==
    ASSUME PipelineInv, NEW r \in Requests, NEW q \in Requests, RouterStores(q)
    PROVE  OneStageOf(r)'
  <1>1. /\ Gets("router", q) /\ Handle("router", << >>) /\ routing = Nobody /\ routing' = q
        /\ UNCHANGED <<channel, sent, owner, holding, task>>
    BY DEF RouterStores, Gets, session_vars, fwd_vars
  <1>2. HandsMove(r, "router", IF r = q THEN "routing" ELSE "nothing")  BY <1>1, StageNames DEF HandsMove
  <1>3. QED  BY <1>1, <1>2, HandledKept, Handlers, StageNames

\* The forwarder takes a request up and waits for a permit.
LEMMA ForwarderTakesStage ==
    ASSUME PipelineInv, NEW r \in Requests, NEW q \in Requests, ForwarderTakes(q)
    PROVE  OneStageOf(r)'
  <1>1. /\ Gets("forwarder", q) /\ Handle("forwarder", << >>) /\ holding = Nobody /\ holding' = q
        /\ UNCHANGED <<channel, sent, owner, routing, task>>
    BY DEF ForwarderTakes, Gets, ForwardUnchanged, session_vars
  <1>2. HandsMove(r, "forwarder", IF r = q THEN "holding" ELSE "nothing")  BY <1>1, StageNames DEF HandsMove
  <1>3. QED  BY <1>1, <1>2, HandledKept, Handlers, StageNames

\* A processor publishes e about the request q it has in its hands, at stage x.
LEMMA PublishedOn ==
    ASSUME PipelineInv, NEW r \in Requests, NEW q \in Requests, NEW x, x \notin {"channel", "sent"},
           NEW e \in Events, NEW es \in {<<e>>, <<Other, e>>}, NEW y \in Subscribers,
           Publish(es), x \in Stages(q), x \notin Subscribers,
           \A p \in Subscribers : About(e, HandledBy[p], r) <=> p = y /\ r = q,
           UNCHANGED <<channel, sent, owner>>,
           HandsMove(r, IF r = q THEN x ELSE "nothing", "nothing")
    PROVE  OneStageOf(r)'
  <1>1. OneStageOf(r) /\ PipelineTypes  BY DEF PipelineInv, OneStage
  <1>2. BusKeeps(queue, e)  BY <1>1, PublishStep
  <1>3. CASE r = q
    <2>1. BusMoves(r, x, y)  BY <1>2, <1>3, PublishMoves
    <2>2. HandsMove(r, x, y)  BY <1>3, StageNames DEF HandsMove
    <2>3. QED  BY <1>1, <1>3, <2>1, <2>2, Relayed
  <1>4. CASE r # q
    <2>1. BusMoves(r, "nothing", "nothing")  BY <1>2, <1>4, PublishMoves, StageNames
    <2>2. QED  BY <1>1, <1>4, <2>1, Relayed
  <1>5. QED  BY <1>3, <1>4

\* The router passes the request it has on to the forwarder, or an error to the response
\* processor.
LEMMA RouterStage ==
    ASSUME PipelineInv, NEW r \in Requests, RouterRoutes \/ RouterFindsNothing
    PROVE  OneStageOf(r)'
  <1>0. "routing" \notin Subscribers /\ "routing" \notin {"channel", "sent"}  BY StageNames
  <1>1. /\ routing # Nobody /\ routing' = Nobody
        /\ UNCHANGED <<channel, sent, owner, holding, task>>
    BY DEF RouterRoutes, RouterFindsNothing, session_vars, fwd_vars
  <1>2. PICK q \in Requests : q = routing  BY <1>1 DEF PipelineInv, PipelineTypes
  <1>3. "routing" \in Stages(q)  BY <1>2, StagesAre
  <1>4. HandsMove(r, IF r = q THEN "routing" ELSE "nothing", "nothing")
    BY <1>1, <1>2, StageNames DEF HandsMove
  <1>5. CASE RouterRoutes
    <2>1. PICK route \in Routes \ {<< >>} : Publish(<<MessageRouted(q, route)>>)
      BY <1>2, <1>5 DEF RouterRoutes
    <2> DEFINE e == MessageRouted(q, route)
    <2>2. e \in Events  BY EventsTyped, PipelineAssumption
    <2>3. \A p \in Subscribers : About(e, HandledBy[p], r) <=> p = "forwarder" /\ r = q  BY EventsAbout
    <2>4. Publish(<<e>>)  BY <2>1
    <2> HIDE DEF e
    <2>5. <<e>> \in {<<e>>, <<Other, e>>} /\ "forwarder" \in Subscribers  BY Handlers
    <2>6. QED  BY <1>0, <1>1, <1>3, <1>4, <2>2, <2>3, <2>4, <2>5, PublishedOn
  <1>6. CASE RouterFindsNothing
    <2> DEFINE e == ResponseReady(q, "error")
    <2>1. Publish(<<Other, e>>)  BY <1>2, <1>6 DEF RouterFindsNothing
    <2>2. e \in Events  BY EventsTyped
    <2>3. \A p \in Subscribers : About(e, HandledBy[p], r) <=> p = "response" /\ r = q  BY EventsAbout
    <2> HIDE DEF e
    <2>4. <<Other, e>> \in {<<e>>, <<Other, e>>} /\ "response" \in Subscribers  BY Handlers
    <2>5. QED  BY <1>0, <1>1, <1>3, <1>4, <2>1, <2>2, <2>3, <2>4, PublishedOn
  <1>7. QED  BY <1>5, <1>6

\* The forwarder hands the request it has to a task.
LEMMA ForwarderSpawnsStage ==
    ASSUME PipelineInv, NEW r \in Requests, ForwarderSpawns
    PROVE  OneStageOf(r)'
  <1>1. OneStageOf(r) /\ PipelineTypes  BY DEF PipelineInv, OneStage
  <1>2. /\ holding # Nobody /\ holding' = Nobody /\ task' = [task EXCEPT ![holding] = "next"]
        /\ UNCHANGED <<channel, sent, owner, routing, queue>>
    BY DEF ForwarderSpawns, ForwardUnchanged, session_vars, bus_vars
  <1>3. CASE holding = r
    <2>1. "holding" \in Stages(r)  BY <1>3, StagesAre
    <2>2. BusMoves(r, "holding", "task")  BY <1>2, BusStays, StageNames
    <2>3. HandsMove(r, "holding", "task")  BY <1>2, StageNames DEF HandsMove
    <2>4. QED  BY <1>1, <1>2, <2>1, <2>2, <2>3, Relayed
  <1>4. CASE holding # r
    <2>1. task'[r] = task[r]  BY <1>1, <1>2, <1>4 DEF PipelineTypes
    <2>2. HandsMove(r, "nothing", "nothing")  BY <1>2, <2>1, StageNames DEF HandsMove
    <2>3. QED  BY <1>2, <2>2, OtherSteps
  <1>5. QED  BY <1>3, <1>4

\* A task goes on, or hears from its SMSC.
LEMMA TaskStage ==
    ASSUME PipelineInv, NEW r \in Requests, NEW q \in Requests,
           TryCluster(q) \/ Sends(q) \/ SmscAccepts(q) \/ TryFails(q)
    PROVE  OneStageOf(r)'
  <1>1. PipelineTypes  BY DEF PipelineInv
  <1>2. /\ task[q] # "none" /\ UNCHANGED <<channel, sent, owner, routing, holding>>
        /\ \E t : task' = [task EXCEPT ![q] = t]
        /\ Publish(<<Other>>) \/ UNCHANGED queue
    BY DEF TryCluster, Sends, SmscAccepts, TryFails, ForwardUnchanged, session_vars, bus_vars
  <1>3. task'[r] # "none" => task[r] # "none"  BY <1>1, <1>2 DEF PipelineTypes
  <1>4. HandsMove(r, "nothing", "nothing")  BY <1>2, <1>3 DEF HandsMove
  <1>5. QED  BY <1>2, <1>4, OtherSteps

\* A task is done: it publishes the response of its request.
LEMMA TaskDoneStage ==
    ASSUME PipelineInv, NEW r \in Requests, NEW q \in Requests, NEW status \in {"success", "error"},
           task[q] # "none", task' = [task EXCEPT ![q] = "none"],
           Publish(<<Other, ResponseReady(q, status)>>),
           UNCHANGED <<channel, sent, owner, routing, holding>>
    PROVE  OneStageOf(r)'
  <1> DEFINE e == ResponseReady(q, status)
  <1>0. "task" \notin Subscribers /\ "task" \notin {"channel", "sent"}  BY StageNames
  <1>1. e \in Events  BY EventsTyped
  <1>2. \A p \in Subscribers : About(e, HandledBy[p], r) <=> p = "response" /\ r = q  BY EventsAbout
  <1>3. Publish(<<Other, e>>)  OBVIOUS
  <1> HIDE DEF e
  <1>4. "task" \in Stages(q)  BY StagesAre
  <1>5. task'[r] = IF r = q THEN "none" ELSE task[r]  BY DEF PipelineInv, PipelineTypes
  <1>6. HandsMove(r, IF r = q THEN "task" ELSE "nothing", "nothing")  BY <1>5 DEF HandsMove
  <1>7. <<Other, e>> \in {<<e>>, <<Other, e>>} /\ "response" \in Subscribers  BY Handlers
  <1>8. QED  BY <1>0, <1>1, <1>2, <1>3, <1>4, <1>6, <1>7, PublishedOn

\* A task ends with a response on the bus.
LEMMA ForwardedStage ==
    ASSUME PipelineInv, NEW r \in Requests, NEW q \in Requests, Forwarded(q) \/ AllFailed(q)
    PROVE  OneStageOf(r)'
  <1>1. /\ task[q] # "none" /\ task' = [task EXCEPT ![q] = "none"]
        /\ UNCHANGED <<channel, sent, owner, routing, holding>>
    BY DEF Forwarded, AllFailed, ForwardUnchanged, session_vars
  <1>2. \E status \in {"success", "error"} : Publish(<<Other, ResponseReady(q, status)>>)
    BY DEF Forwarded, AllFailed
  <1>3. QED  BY <1>1, <1>2, TaskDoneStage

\* The session writes a response: from its channel to the client.
LEMMA HandleAsyncResponseStage ==
    ASSUME PipelineInv, NEW r \in Requests, NEW s \in Sessions, HandleAsyncResponse(s)
    PROVE  OneStageOf(r)'
  <1> DEFINE q == Head(channel[s]).req
             rest == Tail(channel[s])
  <1>1. OneStageOf(r) /\ PipelineTypes  BY DEF PipelineInv, OneStage
  <1>2. /\ channel[s] # << >> /\ channel' = [channel EXCEPT ![s] = rest]
        /\ sent' = [sent EXCEPT ![q] = Head(channel[s]).status]
        /\ UNCHANGED <<queue, owner, routing, holding, task>>
    BY DEF HandleAsyncResponse, bus_vars, fwd_vars
  <1>3. channel[s] \in Seq(Responses)  BY <1>1 DEF PipelineTypes
  <1>4. /\ Head(channel[s]) \in Responses /\ Head(channel[s]) = channel[s][1] /\ 1 \in 1..Len(channel[s])
        /\ \A i \in 1..Len(rest) : i + 1 \in 1..Len(channel[s]) /\ i + 1 # 1 /\ rest[i] = channel[s][i + 1]
        /\ \A i, j \in 1..Len(rest) : i + 1 = j + 1 => i = j
    BY <1>2, <1>3
  <1>5. q \in Requests  BY <1>4 DEF Responses
  <1>6. \A z \in Sessions : channel'[z] = IF z = s THEN rest ELSE channel[z]  BY <1>1, <1>2 DEF PipelineTypes
  <1>7. \A z \in Sessions : /\ OneResponse(channel[z], r)
                            /\ WithoutResponse(channel[z], r) \/ owner[r] = z
    BY <1>1 DEF OneStageOf
  <1> HIDE DEF rest
  <1>8. OneResponse(rest, r)
    <2> SUFFICES ASSUME NEW i \in 1..Len(rest), NEW j \in 1..Len(rest), rest[i].req = r, rest[j].req = r
                 PROVE  i = j
      BY DEF OneResponse
    <2>1. /\ i + 1 \in 1..Len(channel[s]) /\ channel[s][i + 1].req = r
          /\ j + 1 \in 1..Len(channel[s]) /\ channel[s][j + 1].req = r
      BY <1>4
    <2>2. i + 1 = j + 1  BY <1>7, <2>1 DEF OneResponse
    <2>3. QED  BY <1>4, <2>2
  <1>9. WithoutResponse(channel[s], r) => WithoutResponse(rest, r)  BY <1>4 DEF WithoutResponse
  <1>10. CASE r = q
    <2>1. ~WithoutResponse(channel[s], r)  BY <1>4, <1>10 DEF WithoutResponse
    <2>2. "channel" \in Stages(r) /\ owner[r] # Nobody /\ \A z \in Stages(r) : z = "channel"
      BY <1>1, <2>1, StagesAre DEF OneStageOf
    <2>3. WithoutResponse(rest, r)  BY <1>4, <1>7, <1>10 DEF OneResponse, WithoutResponse
    <2>4. \A z \in Sessions : WithoutResponse(channel'[z], r)
      BY <1>6, <1>7, <2>1, <2>3
    <2>5. BusMoves(r, "channel", "sent")  BY <1>2, BusStays, StageNames
    <2>6. HandsMove(r, "channel", "sent")  BY <1>2 DEF HandsMove
    <2>7. \A z \in Sessions : OneResponse(channel'[z], r)  BY <1>6, <1>7, <1>8
    <2>8. ChannelMoves(r, "channel", "sent")  BY <1>2, <2>2, <2>4, <2>7 DEF ChannelMoves
    <2>9. QED  BY <1>1, <2>2, <2>5, <2>6, <2>8, StageStep
  <1>11. CASE r # q
    <2>1. BusMoves(r, "nothing", "nothing")  BY <1>2, BusStays, StageNames
    <2>2. HandsMove(r, "nothing", "nothing")  BY <1>2 DEF HandsMove
    <2>3. sent'[r] = sent[r]  BY <1>1, <1>2, <1>11 DEF PipelineTypes
    <2>4. ChannelMoves(r, "nothing", "nothing")
      BY <1>2, <1>6, <1>7, <1>8, <1>9, <2>3 DEF ChannelMoves
    <2>5. QED  BY <1>1, <2>1, <2>2, <2>4, StageStep
  <1>12. QED  BY <1>10, <1>11

\* The receiver is dropped with the session: what waits in the channel is nowhere.
LEMMA UnregisterStage ==
    ASSUME PipelineInv, NEW r \in Requests, NEW s \in Sessions, Unregister(s)
    PROVE  OneStageOf(r)'
  <1>1. OneStageOf(r) /\ PipelineTypes  BY DEF PipelineInv, OneStage
  <1>2. /\ channel' = [channel EXCEPT ![s] = << >>] /\ Publish(<<Other>>)
        /\ UNCHANGED <<owner, sent, routing, holding, task>>
    BY DEF Unregister, fwd_vars
  <1>3. \A p \in Subscribers : ~About(Other, HandledBy[p], r)  BY EventsAbout
  <1>4. BusKeeps(queue, Other)  BY <1>1, <1>2, PublishStep, OtherIsEvent
  <1>5. BusMoves(r, "nothing", "nothing")  BY <1>3, <1>4, PublishMoves, StageNames
  <1>6. HandsMove(r, "nothing", "nothing")  BY <1>2 DEF HandsMove
  <1>7. \A z \in Sessions : channel'[z] = IF z = s THEN << >> ELSE channel[z]
    BY <1>1, <1>2 DEF PipelineTypes
  <1>8. WithoutResponse(<< >>, r) /\ OneResponse(<< >>, r)  BY DEF WithoutResponse, OneResponse
  <1>9. \A z \in Sessions : /\ OneResponse(channel[z], r)
                            /\ WithoutResponse(channel[z], r) \/ owner[r] = z
    BY <1>1 DEF OneStageOf
  <1>10. ChannelMoves(r, "nothing", "nothing")  BY <1>2, <1>7, <1>8, <1>9 DEF ChannelMoves
  <1>11. QED  BY <1>1, <1>5, <1>6, <1>10, StageStep

\* send_response: into the channel of the session that submitted the request, or nowhere.
LEMMA SendResponseStage ==
    ASSUME PipelineInv, NEW r \in Requests, NEW q \in Requests, SendResponse(q)
    PROVE  OneStageOf(r)'
  <1> DEFINE s == owner[q]
             resp == [req |-> q, status |-> Head(queue["response"]).status]
             more == Append(channel[s], resp)
  <1>1. OneStageOf(r) /\ OneStageOf(q) /\ PipelineTypes  BY DEF PipelineInv, OneStage
  <1>2. /\ Gets("response", q) /\ Handle("response", << >>)
        /\ channel' = [channel EXCEPT ![s] = more] \/ channel' = channel
        /\ UNCHANGED <<sent, owner, routing, holding, task>>
    BY DEF SendResponse, fwd_vars
  <1>3. "response" \in Subscribers  BY Handlers
  <1>4. BusKeepsBut("response", Other) /\ BusGives("response", Other)
    BY <1>1, <1>2, <1>3, HandleStep, OtherIsEvent
  <1>5. About(Head(queue["response"]), HandledBy["response"], q)  BY <1>2 DEF Gets, About
  <1>6. \A p \in Subscribers : ~About(Other, HandledBy[p], r)  BY EventsAbout
  <1>7. "response" \in Stages(q)  BY <1>3, <1>4, <1>5, StagesAre DEF BusGives
  <1>8. s \in Sessions /\ s # Nobody  BY <1>1, <1>7 DEF OneStageOf, PipelineTypes
  <1>9. /\ channel[s] \in Seq(Responses) /\ resp.req = q
        /\ Len(more) = Len(channel[s]) + 1 /\ Len(channel[s]) \in Nat
        /\ \A i \in 1..Len(more) : more[i] = IF i <= Len(channel[s]) THEN channel[s][i] ELSE resp
    <2>1. channel[s] \in Seq(Responses)  BY <1>1, <1>8 DEF PipelineTypes
    <2>2. resp.req = q  OBVIOUS
    <2> HIDE DEF resp, s
    <2>3. Len(more) = Len(channel[s]) + 1 /\ Len(channel[s]) \in Nat  BY <2>1
    <2>4. ASSUME NEW i \in 1..Len(more)
          PROVE  more[i] = IF i <= Len(channel[s]) THEN channel[s][i] ELSE resp
      BY <2>1, <2>3
    <2>5. QED  BY <2>1, <2>2, <2>3, <2>4
  <1>10. \A z \in Sessions : channel'[z] = channel[z] \/ (z = s /\ channel'[z] = more)
    BY <1>1, <1>2, <1>8 DEF PipelineTypes
  <1>11. \A z \in Sessions : /\ OneResponse(channel[z], r)
                             /\ WithoutResponse(channel[z], r) \/ owner[r] = z
    BY <1>1 DEF OneStageOf
  <1> HIDE DEF more, resp, s
  <1>12. CASE r = q
    <2>1. \A z \in Stages(r) : z = "response"  BY <1>1, <1>7, <1>12 DEF OneStageOf
    <2>2. \A z \in Sessions : WithoutResponse(channel[z], r)  BY <2>1, StagesAre
    <2>3. OneResponse(more, r)
      <3>1. \A i \in 1..Len(channel[s]) : channel[s][i].req # r  BY <1>8, <2>2 DEF WithoutResponse
      <3>2. \A i \in 1..Len(more) : more[i].req = r => i = Len(channel[s]) + 1  BY <1>9, <3>1
      <3>3. QED  BY <3>2 DEF OneResponse
    <2>4. owner[r] = s /\ owner'[r] = s  BY <1>2, <1>12 DEF s
    <2>5. BusMoves(r, "response", "channel")
      BY <1>1, <1>3, <1>4, <1>5, <1>6, <1>12, HandleMoves, StageNames
    <2>6. HandsMove(r, "response", "channel")  BY <1>2 DEF HandsMove
    <2>7. ChannelMoves(r, "response", "channel")
      BY <1>2, <1>8, <1>10, <1>11, <2>2, <2>3, <2>4 DEF ChannelMoves
    <2>8. QED  BY <1>1, <2>1, <2>5, <2>6, <2>7, StageStep
  <1>13. CASE r # q
    <2>1. BusMoves(r, "nothing", "nothing")  BY <1>1, <1>3, <1>4, <1>6, HandleMoves, StageNames
    <2>2. HandsMove(r, "nothing", "nothing")  BY <1>2 DEF HandsMove
    <2>3. WithoutResponse(channel[s], r) => WithoutResponse(more, r)
      BY <1>9, <1>13 DEF WithoutResponse
    <2>4. OneResponse(more, r)  BY <1>8, <1>9, <1>11, <1>13 DEF OneResponse
    <2>5. ChannelMoves(r, "nothing", "nothing")
      BY <1>2, <1>8, <1>10, <1>11, <2>3, <2>4 DEF ChannelMoves
    <2>6. QED  BY <1>1, <2>1, <2>2, <2>5, StageStep
  <1>14. QED  BY <1>12, <1>13

\* A request is in one stage at most after every step.
LEMMA OneStageStep == ASSUME PipelineInv, Next PROVE OneStage'
  <1> SUFFICES ASSUME NEW r \in Requests PROVE OneStageOf(r)'
    BY DEF OneStage
  <1>1. ASSUME NEW s \in Sessions, SessionEnds(s) PROVE OneStageOf(r)'
    <2>1. UNCHANGED <<channel, sent, owner, queue, routing, holding, task>>
      BY <1>1 DEF SessionEnds, bus_vars, fwd_vars
    <2>2. HandsMove(r, "nothing", "nothing")  BY <2>1 DEF HandsMove
    <2>3. QED  BY <2>1, <2>2, OtherSteps
  <1>2. ASSUME NEW p \in Subscribers, Ignores(p) \/ FallsBehind(p) PROVE OneStageOf(r)'
    <2>1. UNCHANGED <<channel, sent, owner, routing, holding, task>> /\ (UNCHANGED queue \/ Ignores(p))
      BY <1>2 DEF Ignores, FallsBehind, Lagged, PipelineUnchanged, session_vars, fwd_vars
    <2>2. HandsMove(r, "nothing", "nothing")  BY <2>1 DEF HandsMove
    <2>3. QED  BY <2>1, <2>2, OtherSteps
  <1>3. ASSUME OtherEvent PROVE OneStageOf(r)'
    <2>1. UNCHANGED <<channel, sent, owner, routing, holding, task>> /\ Publish(<<Other>>)
      BY <1>3 DEF OtherEvent, PipelineUnchanged, session_vars, fwd_vars
    <2>2. HandsMove(r, "nothing", "nothing")  BY <2>1 DEF HandsMove
    <2>3. QED  BY <2>1, <2>2, OtherSteps
  <1>4. ASSUME NEW p \in Subscribers, Processor(p) PROVE OneStageOf(r)'
    BY <1>2, <1>4, FilterStage, RouterStoresStage, ForwarderTakesStage, SendResponseStage,
       RouterStage, ForwarderSpawnsStage DEF Processor
  <1>5. ASSUME NEW q \in Requests, ForwardMessage(q) \/ SmscAccepts(q) PROVE OneStageOf(r)'
    BY <1>5, TaskStage, ForwardedStage DEF ForwardMessage
  <1>6. QED
    BY <1>1, <1>3, <1>4, <1>5, SubmitStage, HandleAsyncResponseStage, UnregisterStage DEF Next
---------------------------------------------------------------------------
(* Types, sizes and truthful responses *)

\* A response event says success or error, and success only of an accepted request.
Truthful(e, acc) ==
    /\ e.kind = "ResponseReady" => e.status # "none"
    /\ e.status = "success" => e.req \in acc

\* What is on the bus after a step.
BusGood ==
    /\ queue' \in [Subscribers -> Seq(Events)] /\ missed' \in [Subscribers -> BOOLEAN]
    /\ \A p \in Subscribers : Len(queue'[p]) <= BusCapacity
    /\ \A p \in Subscribers : \A i \in 1..Len(queue'[p]) : Truthful(queue'[p][i], accepted')

\* A step that publishes something true keeps types, sizes and truth of the bus.
LEMMA BusStep ==
    ASSUME PipelineInv, NEW e \in Events, Truthful(e, accepted'), accepted \subseteq accepted',
           \/ Publish(<<e>>) \/ Publish(<<Other, e>>)
           \/ \E c \in Subscribers : Handle(c, << >>) \/ Handle(c, <<e>>) \/ Handle(c, <<Other, e>>)
    PROVE  BusGood
  <1>1. /\ PipelineTypes /\ \A p \in Subscribers : \A i \in 1..Len(queue[p]) : Truthful(queue[p][i], accepted')
    BY DEF PipelineInv, SuccessIsTrue, Truthful
  <1>2. Truthful(Other, accepted')  BY OtherIsEvent DEF Truthful
  <1>3. CASE Publish(<<e>>) \/ Publish(<<Other, e>>)
    <2>1. BusKeeps(queue, e)  BY <1>1, <1>3, PublishStep
    <2>2. QED  BY <1>1, <1>2, <2>1 DEF BusKeeps, BusGood
  <1>4. ASSUME NEW c \in Subscribers, Handle(c, << >>) \/ Handle(c, <<e>>) \/ Handle(c, <<Other, e>>)
        PROVE  BusGood
    <2>1. BusKeepsBut(c, e)  BY <1>1, <1>4, HandleStep
    <2>2. QED  BY <1>1, <1>2, <2>1 DEF BusKeepsBut, BusGood
  <1>5. QED  BY <1>3, <1>4

\* So does a step that publishes nothing, also when a subscriber falls behind.
LEMMA BusRests ==
    ASSUME PipelineInv, accepted \subseteq accepted',
           UNCHANGED bus_vars \/ \E p \in Subscribers : Lagged(p)
    PROVE  BusGood
  <1>1. UNCHANGED queue /\ missed' \in [Subscribers -> BOOLEAN]
    BY DEF PipelineInv, PipelineTypes, Lagged, bus_vars
  <1>2. QED  BY <1>1 DEF PipelineInv, PipelineTypes, Sizes, SuccessIsTrue, Truthful, BusGood

\* Which events are true: a success, of a request that was accepted; the others always.
LEMMA ResponseTruthful ==
    ASSUME NEW q \in Requests, NEW acc
    PROVE  /\ Truthful(MessageSubmitRequest(q), acc) /\ Truthful(MessageAccepted(q), acc)
           /\ \A route : Truthful(MessageRouted(q, route), acc)
           /\ Truthful(ResponseReady(q, "error"), acc) /\ Truthful(Other, acc)
           /\ q \in acc => Truthful(ResponseReady(q, "success"), acc)
  BY DEF Truthful, MessageSubmitRequest, MessageAccepted, MessageRouted, ResponseReady, Event, Other

\* The store: a message of the router's own making comes, and updates under an envelope's
\* identifier find nothing.
LEMMA StoreStep ==
    ASSUME PipelineInv,
           \/ UNCHANGED stored
           \/ \E q \in Requests : Store(StoredId(q))
           \/ \E q \in Requests : \E m : Update(EnvelopeId(q), m)
    PROVE  StoreTypeOK' /\ \A r \in Requests : messages'[EnvelopeId(r)] = NoMessage
  <1> DEFINE ids == {EnvelopeId(r) : r \in Requests} \cup {StoredId(r) : r \in Requests}
  <1>1. /\ messages \in [ids -> StoredMessage \cup {NoMessage}] /\ retry_queue \subseteq ids
        /\ \A r \in Requests : messages[EnvelopeId(r)] = NoMessage
    BY DEF PipelineInv, PipelineTypes, StoreTypeOK, SuccessIsTrue
  <1>2. CASE UNCHANGED stored  BY <1>1, <1>2 DEF stored, StoreTypeOK
  <1>3. ASSUME NEW q \in Requests, NEW m, Update(EnvelopeId(q), m) PROVE UNCHANGED stored
    BY <1>1, <1>3 DEF Update, store_vars, stored
  <1>4. ASSUME NEW q \in Requests, Store(StoredId(q))
        PROVE  StoreTypeOK' /\ \A r \in Requests : messages'[EnvelopeId(r)] = NoMessage
    <2>1. PICK evicted : messages' = [i \in ids |-> IF i = StoredId(q) THEN NewMessage
                                            ELSE IF i \in evicted THEN NoMessage
                                            ELSE messages[i]]
      BY <1>4 DEF Store
    <2>2. retry_queue' = retry_queue  BY <1>4 DEF Store
    <2>3. \A r \in Requests : EnvelopeId(r) # StoredId(q) /\ EnvelopeId(r) \in ids
      BY DEF EnvelopeId, StoredId
    <2>4. NewMessage \in StoredMessage  BY DEF NewMessage, StoredMessage, MessageState
    <2> HIDE DEF ids
    <2>5. messages' \in [ids -> StoredMessage \cup {NoMessage}]  BY <1>1, <2>1, <2>4
    <2>6. \A r \in Requests : messages'[EnvelopeId(r)] = NoMessage  BY <1>1, <2>1, <2>3
    <2>7. QED  BY <1>1, <2>2, <2>5, <2>6 DEF StoreTypeOK, ids
  <1>5. QED  BY <1>2, <1>3, <1>4

\* What the router, the forwarder and its tasks hold after a step.
HandsGood ==
    /\ routing' \in Requests \cup {Nobody} /\ holding' \in Requests \cup {Nobody}
    /\ task' \in [Requests -> {"none", "next", "sent", "answered"} \cup ClusterKind]
    /\ left' \in [Requests -> Seq(ClusterKind)]
    /\ accepted \subseteq accepted' /\ accepted' \subseteq Requests
    /\ IsFiniteSet({r \in Requests : task'[r] # "none"})
    /\ Cardinality({r \in Requests : task'[r] # "none"}) <= Concurrency

\* What the sessions hold after a step.
SessionsGood ==
    /\ session' \in [Sessions -> {"open", "ended", "gone"}]
    /\ owner' \in [Requests -> Sessions \cup {Nobody}]
    /\ channel' \in [Sessions -> Seq(Responses)] /\ sent' \in [Requests -> Status]
    /\ \A s \in Sessions : Len(channel'[s]) <= ResponseChannel
    /\ \A s \in Sessions : \A i \in 1..Len(channel'[s]) :
          /\ channel'[s][i].status # "none"
          /\ channel'[s][i].status = "success" => channel'[s][i].req \in accepted'
    /\ \A r \in Requests : sent'[r] = "success" => r \in accepted'

\* The same before the step, which is part of the invariant.
LEMMA HandsRest == ASSUME PipelineInv, UNCHANGED <<routing, fwd_vars>> PROVE HandsGood
  BY DEF PipelineInv, PipelineTypes, Sizes, HandsGood, fwd_vars

\* Sessions, channels and answers that do not change stay good while more is accepted.
LEMMA SessionsRest ==
    ASSUME PipelineInv, UNCHANGED session_vars, accepted \subseteq accepted' PROVE SessionsGood
  BY DEF PipelineInv, PipelineTypes, Sizes, SuccessIsTrue, SessionsGood, session_vars

\* A task's progress changes: it was running, so that no more run than before.
LEMMA TaskGoesOn ==
    ASSUME PipelineInv, NEW q \in Requests, task[q] # "none",
           NEW t \in {"none", "next", "sent", "answered"} \cup ClusterKind, task' = [task EXCEPT ![q] = t],
           left' \in [Requests -> Seq(ClusterKind)], accepted' \in {accepted, accepted \cup {q}},
           UNCHANGED <<routing, holding>>
    PROVE  HandsGood
  <1> DEFINE running == {r \in Requests : task[r] # "none"}
             still == {r \in Requests : task'[r] # "none"}
  <1>1. /\ task \in [Requests -> {"none", "next", "sent", "answered"} \cup ClusterKind]
        /\ IsFiniteSet(running) /\ Cardinality(running) <= Concurrency
        /\ accepted \subseteq Requests
        /\ routing \in Requests \cup {Nobody} /\ holding \in Requests \cup {Nobody}
    BY DEF PipelineInv, PipelineTypes, Sizes
  <1>2. still \subseteq running  BY <1>1
  <1>3. IsFiniteSet(still) /\ Cardinality(still) <= Cardinality(running)  BY <1>1, <1>2, FS_Subset
  <1>4. Cardinality(still) \in Nat /\ Cardinality(running) \in Nat /\ Concurrency \in Nat
    BY <1>1, <1>3, FS_CardinalityType, PipelineAssumption
  <1>5. Cardinality(still) <= Concurrency  BY <1>1, <1>3, <1>4
  <1>6. QED  BY <1>1, <1>3, <1>5 DEF HandsGood

\* The semaphore: a task is spawned while fewer than Concurrency run.
LEMMA ForwarderSpawnsHands == ASSUME PipelineInv, ForwarderSpawns PROVE HandsGood
  <1> DEFINE running == {r \in Requests : task[r] # "none"}
             more == {r \in Requests : task'[r] # "none"}
  <1>1. /\ task \in [Requests -> {"none", "next", "sent", "answered"} \cup ClusterKind]
        /\ IsFiniteSet(running) /\ Cardinality(running) < Concurrency
        /\ accepted \subseteq Requests /\ left \in [Requests -> Seq(ClusterKind)]
        /\ routing \in Requests \cup {Nobody} /\ holding \in Requests
        /\ holding' = Nobody /\ task' = [task EXCEPT ![holding] = "next"]
        /\ UNCHANGED <<left, accepted, routing>>
    BY DEF PipelineInv, PipelineTypes, Sizes, ForwarderSpawns, ForwardUnchanged
  <1>2. task' \in [Requests -> {"none", "next", "sent", "answered"} \cup ClusterKind]  BY <1>1
  <1>3. more = running \cup {holding}  BY <1>1
  <1>4. /\ IsFiniteSet(more)
        /\ Cardinality(more) = IF holding \in running THEN Cardinality(running) ELSE Cardinality(running) + 1
    <2>1. IsFiniteSet(running)  BY <1>1
    <2> HIDE DEF running, more
    <2>2. QED  BY <1>3, <2>1, FS_AddElement
  <1>5. Cardinality(running) \in Nat /\ Concurrency \in Nat
    BY <1>1, FS_CardinalityType, PipelineAssumption
  <1>6. Cardinality(more) <= Concurrency  BY <1>1, <1>4, <1>5
  <1>7. QED  BY <1>1, <1>2, <1>4, <1>6 DEF HandsGood

\* Types, sizes and truth from their parts.
StepGood == PipelineTypes' /\ Sizes' /\ SuccessIsTrue'

\* A step is good when it is good for the bus, the tasks and the sessions.
LEMMA Assembled ==
    ASSUME PipelineInv, BusGood, HandsGood, SessionsGood,
           \/ UNCHANGED stored
           \/ \E q \in Requests : Store(StoredId(q))
           \/ \E q \in Requests : \E m : Update(EnvelopeId(q), m)
    PROVE  StepGood
  <1>1. StoreTypeOK' /\ \A r \in Requests : messages'[EnvelopeId(r)] = NoMessage  BY StoreStep
  <1>2. PipelineTypes'  BY <1>1 DEF PipelineTypes, BusGood, HandsGood, SessionsGood
  <1>3. Sizes'  BY DEF Sizes, BusGood, HandsGood, SessionsGood
  <1>4. SuccessIsTrue'
    BY <1>1 DEF SuccessIsTrue, BusGood, HandsGood, SessionsGood, Truthful, EnvelopeId
  <1>5. QED  BY <1>2, <1>3, <1>4 DEF StepGood

\* A session submits.
LEMMA SubmitGood ==
    ASSUME PipelineInv, NEW s \in Sessions, NEW q \in Requests, Submit(s, q) PROVE StepGood
  <1>1. /\ Publish(<<MessageSubmitRequest(q)>>) /\ owner' = [owner EXCEPT ![q] = s]
        /\ UNCHANGED <<stored, session, channel, sent, routing, fwd_vars, accepted>>
    BY DEF Submit, fwd_vars
  <1>2. BusGood  BY <1>1, BusStep, EventsTyped, ResponseTruthful
  <1>3. SessionsGood
    BY <1>1 DEF PipelineInv, PipelineTypes, Sizes, SuccessIsTrue, SessionsGood
  <1>4. HandsGood  BY <1>1, HandsRest
  <1>5. QED  BY <1>1, <1>2, <1>3, <1>4, Assembled

\* A session takes a response from its channel and sends it to its client.
LEMMA HandleAsyncResponseGood ==
    ASSUME PipelineInv, NEW s \in Sessions, HandleAsyncResponse(s) PROVE StepGood
  <1> DEFINE rest == Tail(channel[s])
             h == Head(channel[s])
  <1>1. /\ channel[s] # << >> /\ channel' = [channel EXCEPT ![s] = rest]
        /\ sent' = [sent EXCEPT ![h.req] = h.status]
        /\ UNCHANGED <<bus_vars, stored, session, owner, routing, fwd_vars, accepted>>
    BY DEF HandleAsyncResponse, fwd_vars
  <1>2. BusGood  BY <1>1, BusRests
  <1>3. HandsGood  BY <1>1, HandsRest
  <1>4. /\ channel \in [Sessions -> Seq(Responses)] /\ sent \in [Requests -> Status]
        /\ channel[s] \in Seq(Responses) /\ ResponseChannel \in Nat
        /\ \A z \in Sessions : Len(channel[z]) <= ResponseChannel
        /\ \A z \in Sessions : \A i \in 1..Len(channel[z]) :
              /\ channel[z][i].status # "none"
              /\ channel[z][i].status = "success" => channel[z][i].req \in accepted
        /\ \A r \in Requests : sent[r] = "success" => r \in accepted
    BY PipelineAssumption DEF PipelineInv, PipelineTypes, Sizes, SuccessIsTrue
  <1>5. /\ h \in Responses /\ h = channel[s][1] /\ 1 \in 1..Len(channel[s])
        /\ rest \in Seq(Responses) /\ Len(rest) = Len(channel[s]) - 1 /\ Len(channel[s]) \in Nat
        /\ \A i \in 1..Len(rest) : i + 1 \in 1..Len(channel[s]) /\ rest[i] = channel[s][i + 1]
    BY <1>1, <1>4
  <1>6. \A z \in Sessions : channel'[z] = IF z = s THEN rest ELSE channel[z]  BY <1>1, <1>4
  <1>7. h.req \in Requests /\ h.status \in Status  BY <1>5 DEF Responses
  <1> HIDE DEF rest, h
  <1>8. channel' \in [Sessions -> Seq(Responses)] /\ sent' \in [Requests -> Status]
    BY <1>1, <1>4, <1>5, <1>7
  <1>9. \A z \in Sessions : Len(channel'[z]) <= ResponseChannel  BY <1>4, <1>5, <1>6
  <1>10. \A z \in Sessions : \A i \in 1..Len(channel'[z]) :
            /\ channel'[z][i].status # "none"
            /\ channel'[z][i].status = "success" => channel'[z][i].req \in accepted'
    <2> SUFFICES ASSUME NEW z \in Sessions, NEW i \in 1..Len(channel'[z])
                 PROVE  /\ channel'[z][i].status # "none"
                        /\ channel'[z][i].status = "success" => channel'[z][i].req \in accepted'
      OBVIOUS
    <2>1. CASE z = s
      <3>1. i + 1 \in 1..Len(channel[s]) /\ channel'[z][i] = channel[s][i + 1]  BY <1>5, <1>6, <2>1
      <3>2. QED  BY <1>1, <1>4, <3>1
    <2>2. CASE z # s  BY <1>1, <1>4, <1>6, <2>2
    <2>3. QED  BY <2>1, <2>2
  <1>11. \A r \in Requests : sent'[r] = "success" => r \in accepted'  BY <1>1, <1>4, <1>5, <1>7
  <1>12. SessionsGood
    BY <1>1, <1>8, <1>9, <1>10, <1>11 DEF PipelineInv, PipelineTypes, SessionsGood
  <1>13. QED  BY <1>1, <1>2, <1>3, <1>12, Assembled

\* A session ends and is unregistered.
LEMMA SessionLeavesGood ==
    ASSUME PipelineInv, NEW s \in Sessions, SessionEnds(s) \/ Unregister(s) PROVE StepGood
  <1>1. UNCHANGED <<stored, owner, sent, routing, fwd_vars, accepted>>
    BY DEF SessionEnds, Unregister, fwd_vars
  <1>2. HandsGood  BY <1>1, HandsRest
  <1>3. BusGood
    <2>1. CASE SessionEnds(s)  BY <1>1, <2>1, BusRests DEF SessionEnds
    <2>2. CASE Unregister(s)
      <3>1. Publish(<<Other>>)  BY <2>2 DEF Unregister
      <3>2. Truthful(Other, accepted')  BY OtherIsEvent DEF Truthful
      <3>3. QED  BY <1>1, <3>1, <3>2, BusStep, OtherIsEvent
    <2>3. QED  BY <2>1, <2>2
  <1>4. SessionsGood
    <2>1. session' \in [Sessions -> {"open", "ended", "gone"}]
      BY DEF SessionEnds, Unregister, PipelineInv, PipelineTypes
    <2>2. ResponseChannel \in Nat /\ Len(<< >>) = 0 /\ << >> \in Seq(Responses)  BY PipelineAssumption
    <2>3. /\ channel' \in [Sessions -> Seq(Responses)]
          /\ \A z \in Sessions : channel'[z] = channel[z] \/ channel'[z] = << >>
      BY <2>2 DEF SessionEnds, Unregister, PipelineInv, PipelineTypes
    <2>4. QED
      BY <1>1, <2>1, <2>2, <2>3
      DEF PipelineInv, PipelineTypes, Sizes, SuccessIsTrue, SessionsGood
  <1>5. QED  BY <1>1, <1>2, <1>3, <1>4, Assembled

\* The filter processor accepts or rejects.
LEMMA FilterGood ==
    ASSUME PipelineInv, NEW q \in Requests, FilterAccepts(q) \/ FilterRejects(q) PROVE StepGood
  <1>1. UNCHANGED <<stored, session_vars, routing, fwd_vars, accepted>>
    BY DEF FilterAccepts, FilterRejects, PipelineUnchanged, fwd_vars
  <1>2. HandsGood /\ SessionsGood  BY <1>1, HandsRest, SessionsRest
  <1>3. BusGood
    BY <1>1, BusStep, EventsTyped, ResponseTruthful, Handlers DEF FilterAccepts, FilterRejects
  <1>4. QED  BY <1>1, <1>2, <1>3, Assembled

\* The router processor stores, routes, or finds no route.
LEMMA RouterGood ==
    ASSUME PipelineInv, (\E q \in Requests : RouterStores(q)) \/ RouterRoutes \/ RouterFindsNothing
    PROVE  StepGood
  <1>1. UNCHANGED <<session_vars, fwd_vars, accepted, holding, task, left>>
    BY DEF RouterStores, RouterRoutes, RouterFindsNothing, fwd_vars
  <1>2. SessionsGood  BY <1>1, SessionsRest
  <1>3. routing' \in Requests \cup {Nobody}
    BY DEF RouterStores, RouterRoutes, RouterFindsNothing
  <1>4. HandsGood  BY <1>1, <1>3 DEF PipelineInv, PipelineTypes, Sizes, HandsGood
  <1>5. Truthful(Other, accepted')  BY OtherIsEvent DEF Truthful
  <1>6. ASSUME NEW q \in Requests, RouterStores(q) PROVE StepGood
    <2>1. BusGood  BY <1>1, <1>5, <1>6, BusStep, OtherIsEvent, Handlers DEF RouterStores
    <2>2. QED  BY <1>2, <1>4, <1>6, <2>1, Assembled DEF RouterStores
  <1>7. routing # Nobody => routing \in Requests  BY DEF PipelineInv, PipelineTypes
  <1>8. ASSUME RouterRoutes PROVE StepGood
    <2>1. PICK route \in Routes : Publish(<<MessageRouted(routing, route)>>)  BY <1>8 DEF RouterRoutes
    <2>2. routing \in Requests /\ route \in Seq(ClusterKind)
      BY <1>7, <1>8, PipelineAssumption DEF RouterRoutes
    <2>3. BusGood  BY <1>1, <2>1, <2>2, BusStep, EventsTyped, ResponseTruthful
    <2>4. QED  BY <1>2, <1>4, <1>8, <2>3, Assembled DEF RouterRoutes
  <1>9. ASSUME RouterFindsNothing PROVE StepGood
    <2>1. routing \in Requests /\ Publish(<<Other, ResponseReady(routing, "error")>>)
      BY <1>7, <1>9 DEF RouterFindsNothing
    <2>2. BusGood  BY <1>1, <2>1, BusStep, EventsTyped, ResponseTruthful
    <2>3. \E q \in Requests : \E m : Update(EnvelopeId(q), m)  BY <1>9, <2>1 DEF RouterFindsNothing
    <2>4. QED  BY <1>2, <1>4, <2>2, <2>3, Assembled
  <1>10. QED  BY <1>6, <1>8, <1>9

\* The forwarder processor takes a request and spawns its task.
LEMMA ForwarderGood ==
    ASSUME PipelineInv, (\E q \in Requests : ForwarderTakes(q)) \/ ForwarderSpawns PROVE StepGood
  <1>1. UNCHANGED <<stored, session_vars, routing, accepted>>
    BY DEF ForwarderTakes, ForwarderSpawns, ForwardUnchanged
  <1>2. SessionsGood  BY <1>1, SessionsRest
  <1>3. ASSUME NEW q \in Requests, ForwarderTakes(q) PROVE StepGood
    <2>1. /\ Handle("forwarder", << >>) /\ holding' = q /\ UNCHANGED task
          /\ left' = [left EXCEPT ![q] = Head(queue["forwarder"]).route]
      BY <1>3 DEF ForwarderTakes
    <2>2. Truthful(Other, accepted')  BY OtherIsEvent DEF Truthful
    <2>3. BusGood  BY <1>1, <2>1, <2>2, BusStep, OtherIsEvent, Handlers
    <2>4. BusGives("forwarder", Other)
      BY <2>1, HandleStep, OtherIsEvent, Handlers DEF PipelineInv
    <2>5. Head(queue["forwarder"]).route \in Seq(ClusterKind)  BY <2>4 DEF BusGives, Events
    <2>6. HandsGood  BY <1>1, <2>1, <2>5 DEF PipelineInv, PipelineTypes, Sizes, HandsGood
    <2>7. QED  BY <1>1, <1>2, <2>3, <2>6, Assembled
  <1>4. ASSUME ForwarderSpawns PROVE StepGood
    <2>1. BusGood  BY <1>1, <1>4, BusRests DEF ForwarderSpawns
    <2>2. QED  BY <1>1, <1>2, <1>4, <2>1, ForwarderSpawnsHands, Assembled
  <1>5. QED  BY <1>3, <1>4

\* A task tries a cluster, and an SMSC accepts or fails.
LEMMA TaskGood ==
    ASSUME PipelineInv, NEW q \in Requests, TryCluster(q) \/ Sends(q) \/ SmscAccepts(q) \/ TryFails(q)
    PROVE  StepGood
  <1>1. /\ UNCHANGED <<stored, session_vars, routing, holding>> /\ task[q] # "none"
        /\ accepted' \in {accepted, accepted \cup {q}}
    BY DEF TryCluster, Sends, SmscAccepts, TryFails, ForwardUnchanged
  <1>2. SessionsGood  BY <1>1, SessionsRest
  <1>3. left \in [Requests -> Seq(ClusterKind)] /\ left[q] \in Seq(ClusterKind)
    BY DEF PipelineInv, PipelineTypes
  <1>4. CASE TryCluster(q)
    <2>1. /\ left[q] # << >> /\ Publish(<<Other>>) /\ accepted' = accepted
          /\ task' = [task EXCEPT ![q] = Head(left[q])] /\ left' = [left EXCEPT ![q] = Tail(left[q])]
      BY <1>4 DEF TryCluster
    <2>2. Head(left[q]) \in ClusterKind /\ Tail(left[q]) \in Seq(ClusterKind)  BY <1>3, <2>1
    <2>3. left' \in [Requests -> Seq(ClusterKind)]  BY <1>3, <2>1, <2>2
    <2>4. HandsGood  BY <1>1, <2>1, <2>2, <2>3, TaskGoesOn
    <2>5. Truthful(Other, accepted')  BY OtherIsEvent DEF Truthful
    <2>6. BusGood  BY <2>1, <2>5, BusStep, OtherIsEvent
    <2>7. QED  BY <1>1, <1>2, <2>4, <2>6, Assembled
  <1>5. CASE Sends(q) \/ SmscAccepts(q) \/ TryFails(q)
    <2>1. UNCHANGED <<bus_vars, left>> /\ \E t \in {"next", "sent", "answered"} : task' = [task EXCEPT ![q] = t]
      BY <1>5 DEF Sends, SmscAccepts, TryFails
    <2>2. HandsGood  BY <1>1, <1>3, <2>1, TaskGoesOn
    <2>3. BusGood  BY <1>1, <2>1, BusRests
    <2>4. QED  BY <1>1, <1>2, <2>2, <2>3, Assembled
  <1>6. QED  BY <1>4, <1>5

\* forward_message ends.  No message is stored under the envelope's identifier, so that none
\* may be retried, and success is said only of what was accepted.
LEMMA ForwardedGood ==
    ASSUME PipelineInv, NEW q \in Requests, Forwarded(q) \/ AllFailed(q) PROVE StepGood
  <1>1. /\ UNCHANGED <<session_vars, routing, holding>> /\ task[q] # "none"
        /\ task' = [task EXCEPT ![q] = "none"] /\ accepted' \in {accepted, accepted \cup {q}}
        /\ \E m : Update(EnvelopeId(q), m)
    BY DEF Forwarded, AllFailed, ForwardUnchanged
  <1>2. SessionsGood  BY <1>1, SessionsRest
  <1>3. left' \in [Requests -> Seq(ClusterKind)]
    <2>1. left' = left \/ left' = [left EXCEPT ![q] = << >>]  BY DEF Forwarded, AllFailed
    <2>2. << >> \in Seq(ClusterKind)  OBVIOUS
    <2>3. QED  BY <2>1, <2>2 DEF PipelineInv, PipelineTypes
  <1>4. HandsGood  BY <1>1, <1>3, TaskGoesOn
  <1>5. BusGood
    <2>1. CASE Forwarded(q)
      <3>1. Publish(<<Other, ResponseReady(q, "success")>>) /\ q \in accepted'  BY <2>1 DEF Forwarded
      <3>2. QED  BY <1>1, <3>1, BusStep, EventsTyped, ResponseTruthful
    <2>2. CASE AllFailed(q)
      <3>1. EnvelopeId(q) \notin Stored  BY DEF Stored, PipelineInv, SuccessIsTrue
      <3>2. Publish(<<Other, ResponseReady(q, "error")>>)  BY <2>2, <3>1 DEF AllFailed
      <3>3. QED  BY <1>1, <3>2, BusStep, EventsTyped, ResponseTruthful
    <2>3. QED  BY <2>1, <2>2
  <1>6. \E r \in Requests : \E m : Update(EnvelopeId(r), m)  BY <1>1
  <1>7. QED  BY <1>2, <1>4, <1>5, <1>6, Assembled

\* The response processor puts a response into the channel of its session, or drops it.
LEMMA SendResponseGood ==
    ASSUME PipelineInv, NEW q \in Requests, SendResponse(q) PROVE StepGood
  <1> DEFINE s == owner[q]
             h == Head(queue["response"])
             resp == [req |-> q, status |-> h.status]
             more == Append(channel[s], resp)
  <1>1. /\ Gets("response", q) /\ Handle("response", << >>)
        /\ \/ channel' = [channel EXCEPT ![s] = more] /\ Len(channel[s]) < ResponseChannel
           \/ channel' = channel
        /\ UNCHANGED <<stored, session, owner, sent, routing, fwd_vars, accepted>>
    BY DEF SendResponse, fwd_vars
  <1>2. "response" \in Subscribers  BY Handlers
  <1>3. HandsGood  BY <1>1, HandsRest
  <1>4. Truthful(Other, accepted')  BY OtherIsEvent DEF Truthful
  <1>5. BusGood  BY <1>1, <1>2, <1>4, BusStep, OtherIsEvent
  <1>6. BusGives("response", Other)
    BY <1>1, <1>2, HandleStep, OtherIsEvent DEF PipelineInv
  <1>7. h.kind = "ResponseReady" /\ h.req = q  BY <1>1, Handlers DEF Gets
  <1>8. h.status \in Status /\ h.status # "none" /\ (h.status = "success" => q \in accepted)
    BY <1>2, <1>6, <1>7 DEF BusGives, Events, PipelineInv, SuccessIsTrue
  <1>9. "response" \in Stages(q)  BY <1>2, <1>6, <1>7, Handlers, StagesAre DEF BusGives, About
  <1>10. s \in Sessions  BY <1>9 DEF PipelineInv, PipelineTypes, OneStage, OneStageOf
  <1>11. /\ channel \in [Sessions -> Seq(Responses)] /\ channel[s] \in Seq(Responses)
         /\ \A z \in Sessions : Len(channel[z]) <= ResponseChannel
         /\ \A z \in Sessions : \A i \in 1..Len(channel[z]) :
               /\ channel[z][i].status # "none"
               /\ channel[z][i].status = "success" => channel[z][i].req \in accepted
         /\ ResponseChannel \in Nat
    BY <1>10, PipelineAssumption DEF PipelineInv, PipelineTypes, Sizes, SuccessIsTrue
  <1>12. resp \in Responses  BY <1>8 DEF Responses
  <1>13. /\ more \in Seq(Responses) /\ Len(more) = Len(channel[s]) + 1 /\ Len(channel[s]) \in Nat
         /\ \A i \in 1..Len(more) : more[i] = IF i <= Len(channel[s]) THEN channel[s][i] ELSE resp
    BY <1>11, <1>12
  <1>14. resp.status = h.status /\ resp.req = q  OBVIOUS
  <1> HIDE DEF more, resp, s, h
  <1>15. \A i \in 1..Len(more) : /\ more[i].status # "none"
                                 /\ more[i].status = "success" => more[i].req \in accepted
    BY <1>8, <1>10, <1>11, <1>13, <1>14
  <1>16. CASE channel' = channel
    <2>1. SessionsGood
      BY <1>1, <1>16 DEF PipelineInv, PipelineTypes, Sizes, SuccessIsTrue, SessionsGood
    <2>2. QED  BY <1>1, <1>3, <1>5, <2>1, Assembled
  <1>17. CASE channel' = [channel EXCEPT ![s] = more] /\ Len(channel[s]) < ResponseChannel
    <2>1. channel' \in [Sessions -> Seq(Responses)]  BY <1>11, <1>13, <1>17
    <2>2. \A z \in Sessions : channel'[z] = IF z = s THEN more ELSE channel[z]  BY <1>11, <1>17
    <2>3. Len(more) <= ResponseChannel  BY <1>11, <1>13, <1>17
    <2>4. \A z \in Sessions : Len(channel'[z]) <= ResponseChannel  BY <1>11, <2>2, <2>3
    <2>5. \A z \in Sessions : \A i \in 1..Len(channel'[z]) :
               /\ channel'[z][i].status # "none"
               /\ channel'[z][i].status = "success" => channel'[z][i].req \in accepted
      BY <1>11, <1>15, <2>2
    <2>6. SessionsGood
      BY <1>1, <2>1, <2>4, <2>5 DEF PipelineInv, PipelineTypes, SuccessIsTrue, SessionsGood
    <2>7. QED  BY <1>1, <1>3, <1>5, <2>6, Assembled
  <1>18. QED  BY <1>1, <1>16, <1>17

\* Events nobody acts on, lag, and the events of other parts.
LEMMA BusOnlyGood ==
    ASSUME PipelineInv, (\E p \in Subscribers : Ignores(p) \/ FallsBehind(p)) \/ OtherEvent
    PROVE  StepGood
  <1>1. UNCHANGED <<stored, session_vars, routing, fwd_vars, accepted>>
    BY DEF Ignores, FallsBehind, OtherEvent, PipelineUnchanged, fwd_vars
  <1>2. HandsGood /\ SessionsGood  BY <1>1, HandsRest, SessionsRest
  <1>3. Truthful(Other, accepted')  BY OtherIsEvent DEF Truthful
  <1>4. BusGood
    <2>1. ASSUME NEW p \in Subscribers, FallsBehind(p) PROVE BusGood
      BY <1>1, <2>1, BusRests DEF FallsBehind
    <2>2. ASSUME NEW p \in Subscribers, Ignores(p) PROVE BusGood
      BY <1>1, <1>3, <2>2, BusStep, OtherIsEvent DEF Ignores
    <2>3. ASSUME OtherEvent PROVE BusGood
      BY <1>1, <1>3, <2>3, BusStep, OtherIsEvent DEF OtherEvent
    <2>4. QED  BY <2>1, <2>2, <2>3
  <1>5. QED  BY <1>1, <1>2, <1>4, Assembled

\* Every step keeps the invariant.
LEMMA PipelineStep == PipelineInv /\ [Next]_vars => PipelineInv'
  <1> SUFFICES ASSUME PipelineInv, [Next]_vars PROVE PipelineInv'
    OBVIOUS
  <1>1. CASE Next
    <2>1. OneStage'  BY <1>1, OneStageStep
    <2>2. ASSUME NEW p \in Subscribers, Processor(p) PROVE StepGood
      BY <2>2, BusOnlyGood, FilterGood, RouterGood, ForwarderGood, SendResponseGood DEF Processor
    <2>3. ASSUME NEW q \in Requests, ForwardMessage(q) \/ SmscAccepts(q) PROVE StepGood
      BY <2>3, TaskGood, ForwardedGood DEF ForwardMessage
    <2>4. StepGood
      BY <1>1, <2>2, <2>3, SubmitGood, HandleAsyncResponseGood, SessionLeavesGood, BusOnlyGood DEF Next
    <2>5. QED  BY <2>1, <2>4 DEF PipelineInv, StepGood
  <1>2. CASE UNCHANGED vars
    <2>1. /\ UNCHANGED <<queue, missed, messages, retry_queue, session, owner, channel, sent>>
          /\ UNCHANGED <<routing, holding, task, left, accepted>>
      BY <1>2 DEF vars, bus_vars, stored, session_vars, fwd_vars
    <2>2. PipelineTypes' /\ Sizes' /\ SuccessIsTrue'
      BY <2>1 DEF PipelineInv, PipelineTypes, StoreTypeOK, Sizes, SuccessIsTrue, EnvelopeId
    <2>3. ASSUME NEW r \in Requests PROVE OneStageOf(r)'
      <3>1. HandsMove(r, "nothing", "nothing")  BY <2>1 DEF HandsMove
      <3>2. QED  BY <2>1, <3>1, OtherSteps
    <2>4. QED  BY <2>2, <2>3 DEF PipelineInv, OneStage
  <1>3. QED  BY <1>1, <1>2
---------------------------------------------------------------------------
(* Theorems *)

\* At first nothing is submitted and everything is empty.
LEMMA PipelineStart == Init => PipelineInv
  <1> SUFFICES ASSUME Init PROVE PipelineInv
    OBVIOUS
  <1>1. /\ queue = [p \in Subscribers |-> << >>] /\ missed = [p \in Subscribers |-> FALSE]
        /\ session = [s \in Sessions |-> "open"] /\ owner = [r \in Requests |-> Nobody]
        /\ routing = Nobody /\ holding = Nobody /\ task = [r \in Requests |-> "none"]
        /\ left = [r \in Requests |-> << >>] /\ accepted = {}
        /\ channel = [s \in Sessions |-> << >>] /\ sent = [r \in Requests |-> "none"]
        /\ StoreInit
    BY DEF Init, BusInit
  <1>0. \A p \in Subscribers : Len(queue[p]) = 0
    <2>1. queue = [p \in Subscribers |-> << >>]  BY <1>1
    <2>2. Len(<< >>) = 0  OBVIOUS
    <2>3. \A p \in Subscribers : queue[p] = << >>  BY <2>1
    <2>4. QED  BY <2>2, <2>3, Zenon
  <1>2. PipelineTypes
    <2>1. << >> \in Seq(Events) /\ << >> \in Seq(ClusterKind) /\ << >> \in Seq(Responses)  OBVIOUS
    <2>2. StoreTypeOK  BY <1>1 DEF StoreInit, StoreTypeOK
    <2>3. QED  BY <1>1, <2>1, <2>2 DEF PipelineTypes, Status
  <1>3. Sizes
    <2>1. {r \in Requests : task[r] # "none"} = {}  BY <1>1
    <2>2. IsFiniteSet({}) /\ Cardinality({}) = 0  BY FS_EmptySet
    <2>3. \A p \in Subscribers : Len(queue[p]) <= BusCapacity
      <3>1. 0 <= BusCapacity  BY BusAssumption
      <3>2. QED  BY <1>0, <3>1, Zenon
    <2>4. \A s \in Sessions : Len(channel[s]) <= ResponseChannel  BY <1>1, PipelineAssumption
    <2>5. 0 <= Concurrency  BY PipelineAssumption
    <2>6. QED  BY <2>1, <2>2, <2>3, <2>4, <2>5 DEF Sizes
  <1>4. OneStage
    <2> SUFFICES ASSUME NEW r \in Requests PROVE OneStageOf(r)
      BY DEF OneStage
    <2>1. \A p \in Subscribers : /\ Without(queue[p], HandledBy[p], r)
                                 /\ AtMostOne(queue[p], HandledBy[p], r)
      <3>1. 1..0 = {}  OBVIOUS
      <3>2. \A p \in Subscribers : 1..Len(queue[p]) = {}  BY <1>0, <3>1, Zenon
      <3>3. QED  BY <3>2, Zenon DEF Without, AtMostOne
    <2>2. \A s \in Sessions : WithoutResponse(channel[s], r) /\ OneResponse(channel[s], r)
      BY <1>1 DEF WithoutResponse, OneResponse
    <2>3. Stages(r) = {}  BY <1>1, <2>1, <2>2, StageNames, StagesAre
    <2>4. QED  BY <2>1, <2>2, <2>3 DEF OneStageOf
  <1>5. SuccessIsTrue
    <2>1. \A r \in Requests : messages[EnvelopeId(r)] = NoMessage  BY <1>1 DEF StoreInit
    <2>2. QED  BY <1>1, <2>1 DEF SuccessIsTrue
  <1>6. QED  BY <1>2, <1>3, <1>4, <1>5 DEF PipelineInv

\* The inductive invariant of the path of a submit_sm through the server.
THEOREM PipelineInvariant == Spec => []PipelineInv
  BY PipelineStart, PipelineStep, PTL DEF Spec

\* No queue, channel or semaphore of the pipeline is ever over its limit, whatever the
\* interleaving of sessions, processors and forward tasks.
THEOREM PipelineTyped == Spec => []TypeOK
  <1>1. PipelineInv => TypeOK
    BY DEF PipelineInv, PipelineTypes, Sizes, TypeOK, Status
  <1>2. QED  BY <1>1, PipelineInvariant, PTL

\* A client of the server hears success only of a message that an SMSC has taken or that
\* waits in the store for a retry, however its attempts failed.
THEOREM NoEmptySuccess == Spec => []SuccessIsBacked
  <1>1. PipelineInv => SuccessIsBacked
    BY DEF PipelineInv, SuccessIsTrue, SuccessIsBacked, TakenOn
  <1>2. QED  BY <1>1, PipelineInvariant, PTL

\* The place of a request that is at stage x.
PlaceAt(r, x, a) ==
    \/ x \in Subscribers /\ \E i \in 1..Len(queue[x]) :
                               a = <<x, i>> /\ About(queue[x][i], HandledBy[x], r)
    \/ x \in {"routing", "holding", "task", "sent"} /\ a = <<x, 1>>
    \/ x = "channel" /\ \E i \in 1..Len(channel[owner[r]]) :
                           a = <<owner[r], i>> /\ channel[owner[r]][i].req = r

\* Every place belongs to a stage, and every stage has a place.
LEMMA PlacesAtStages ==
    ASSUME PipelineInv, NEW r \in Requests
    PROVE  /\ \A a \in Places(r) : \E x \in Stages(r) : PlaceAt(r, x, a)
           /\ \A x \in Stages(r) : \E a \in Places(r) : PlaceAt(r, x, a)
  <1>0. /\ \A p \in Subscribers : Len(queue[p]) \in Nat /\ Len(queue[p]) <= BusCapacity
        /\ \A s \in Sessions : Len(channel[s]) \in Nat /\ Len(channel[s]) <= ResponseChannel
        /\ BusCapacity \in Nat /\ ResponseChannel \in Nat
        /\ owner[r] \in Sessions \cup {Nobody} /\ Nobody \notin Sessions
        /\ \A s \in Sessions : WithoutResponse(channel[s], r) \/ owner[r] = s
    BY BusAssumption, PipelineAssumption
    DEF PipelineInv, PipelineTypes, Sizes, OneStage, OneStageOf
  <1>1. ASSUME NEW a \in Places(r) PROVE \E x \in Stages(r) : PlaceAt(r, x, a)
    <2>1. CASE a \in {x \in Subscribers \X (1..BusCapacity) :
                        /\ x[2] <= Len(queue[x[1]])
                        /\ queue[x[1]][x[2]].req = r /\ queue[x[1]][x[2]].kind = HandledBy[x[1]]}
      <3>1. PICK p \in Subscribers, i \in 1..BusCapacity : a = <<p, i>>  BY <2>1
      <3>2. i <= Len(queue[p]) /\ About(queue[p][i], HandledBy[p], r)  BY <2>1, <3>1 DEF About
      <3>3. i \in 1..Len(queue[p])  BY <1>0, <3>2
      <3>4. p \in Stages(r)  BY <3>2, <3>3, StagesAre DEF Without
      <3>5. PlaceAt(r, p, a)  BY <3>1, <3>2, <3>3 DEF PlaceAt
      <3>6. QED  BY <3>4, <3>5
    <2>2. CASE a = <<"routing", 1>> /\ routing = r  BY <2>2, StagesAre DEF PlaceAt
    <2>3. CASE a = <<"holding", 1>> /\ holding = r  BY <2>3, StagesAre DEF PlaceAt
    <2>4. CASE a = <<"task", 1>> /\ task[r] # "none"  BY <2>4, StagesAre DEF PlaceAt
    <2>5. CASE a = <<"sent", 1>> /\ sent[r] # "none"  BY <2>5, StagesAre DEF PlaceAt
    <2>6. CASE \E i \in 1..ResponseChannel :
                  /\ owner[r] # Nobody /\ i <= Len(channel[owner[r]]) /\ channel[owner[r]][i].req = r
                  /\ a = <<owner[r], i>>
      <3>1. PICK i \in 1..ResponseChannel :
                  /\ owner[r] # Nobody /\ i <= Len(channel[owner[r]]) /\ channel[owner[r]][i].req = r
                  /\ a = <<owner[r], i>>
        BY <2>6
      <3>2. owner[r] \in Sessions /\ i \in 1..Len(channel[owner[r]])  BY <1>0, <3>1
      <3>3. "channel" \in Stages(r)  BY <3>1, <3>2, StagesAre DEF WithoutResponse
      <3>4. PlaceAt(r, "channel", a)  BY <3>1, <3>2 DEF PlaceAt
      <3>5. QED  BY <3>3, <3>4
    <2>7. QED  BY <1>1, <2>1, <2>2, <2>3, <2>4, <2>5, <2>6 DEF Places
  <1>2. ASSUME NEW x \in Stages(r) PROVE \E a \in Places(r) : PlaceAt(r, x, a)
    <2>1. CASE x \in Subscribers /\ ~Without(queue[x], HandledBy[x], r)
      <3>1. PICK i \in 1..Len(queue[x]) : About(queue[x][i], HandledBy[x], r)  BY <2>1 DEF Without
      <3>2. i \in 1..BusCapacity /\ i <= Len(queue[x])  BY <1>0, <2>1, <3>1
      <3>3. <<x, i>> \in Places(r)  BY <2>1, <3>1, <3>2 DEF Places, About
      <3>4. PlaceAt(r, x, <<x, i>>)  BY <2>1, <3>1 DEF PlaceAt
      <3>5. QED  BY <3>3, <3>4
    <2>2. CASE x = "routing" /\ routing = r
      <3>1. <<"routing", 1>> \in Places(r)  BY <2>2 DEF Places
      <3>2. QED  BY <2>2, <3>1 DEF PlaceAt
    <2>3. CASE x = "holding" /\ holding = r
      <3>1. <<"holding", 1>> \in Places(r)  BY <2>3 DEF Places
      <3>2. QED  BY <2>3, <3>1 DEF PlaceAt
    <2>4. CASE x = "task" /\ task[r] # "none"
      <3>1. <<"task", 1>> \in Places(r)  BY <2>4 DEF Places
      <3>2. QED  BY <2>4, <3>1 DEF PlaceAt
    <2>5. CASE x = "sent" /\ sent[r] # "none"
      <3>1. <<"sent", 1>> \in Places(r)  BY <2>5 DEF Places
      <3>2. QED  BY <2>5, <3>1 DEF PlaceAt
    <2>6. CASE x = "channel" /\ \E s \in Sessions : ~WithoutResponse(channel[s], r)
      <3>1. PICK s \in Sessions : ~WithoutResponse(channel[s], r)  BY <2>6
      <3>2. owner[r] = s /\ s # Nobody  BY <1>0, <3>1
      <3>3. PICK i \in 1..Len(channel[s]) : channel[s][i].req = r  BY <3>1 DEF WithoutResponse
      <3>4. i \in 1..ResponseChannel /\ i <= Len(channel[s])  BY <1>0, <3>3
      <3>5. <<owner[r], i>> \in Places(r)  BY <3>2, <3>3, <3>4 DEF Places
      <3>6. PlaceAt(r, "channel", <<owner[r], i>>)  BY <3>2, <3>3 DEF PlaceAt
      <3>7. QED  BY <2>6, <3>5, <3>6
    <2>7. QED  BY <2>1, <2>2, <2>3, <2>4, <2>5, <2>6, StagesAre
  <1>3. QED  BY <1>1, <1>2

\* A submit_sm is never in two places: it is forwarded by one task at most, and answered at
\* most once, whatever the bus skips and however the processors interleave.
THEOREM NeverTwice == Spec => []OnePlaceAtATime
  <1>1. PipelineInv => OnePlaceAtATime
    <2> SUFFICES ASSUME PipelineInv, NEW r \in Requests PROVE Cardinality(Places(r)) <= 1
      BY DEF OnePlaceAtATime
    <2>1. /\ \A x, y \in Stages(r) : x = y
          /\ \A p \in Subscribers : AtMostOne(queue[p], HandledBy[p], r)
          /\ \A s \in Sessions : OneResponse(channel[s], r)
          /\ owner[r] \in Sessions \cup {Nobody}
          /\ Stages(r) # {} => owner[r] # Nobody
      BY DEF PipelineInv, PipelineTypes, OneStage, OneStageOf
    <2>2. \A a, b \in Places(r) : a = b
      <3> SUFFICES ASSUME NEW a \in Places(r), NEW b \in Places(r) PROVE a = b
        OBVIOUS
      <3>1. PICK x \in Stages(r) : PlaceAt(r, x, a) /\ PlaceAt(r, x, b)
        BY <2>1, PlacesAtStages
      <3>2. CASE x \in Subscribers
        <4>1. x \notin {"routing", "holding", "task", "sent", "channel"}  BY <3>2, StageNames
        <4>2. PICK i \in 1..Len(queue[x]) : a = <<x, i>> /\ About(queue[x][i], HandledBy[x], r)
          BY <3>1, <4>1 DEF PlaceAt
        <4>3. PICK j \in 1..Len(queue[x]) : b = <<x, j>> /\ About(queue[x][j], HandledBy[x], r)
          BY <3>1, <4>1 DEF PlaceAt
        <4>4. i = j  BY <2>1, <3>2, <4>2, <4>3 DEF AtMostOne
        <4>5. QED  BY <4>2, <4>3, <4>4
      <3>3. CASE x \in {"routing", "holding", "task", "sent"}  BY <3>1, <3>3, StageNames DEF PlaceAt
      <3>4. CASE x = "channel"
        <4>1. PICK i \in 1..Len(channel[owner[r]]) : a = <<owner[r], i>> /\ channel[owner[r]][i].req = r
          BY <3>1, <3>4, StageNames DEF PlaceAt
        <4>2. PICK j \in 1..Len(channel[owner[r]]) : b = <<owner[r], j>> /\ channel[owner[r]][j].req = r
          BY <3>1, <3>4, StageNames DEF PlaceAt
        <4>3. owner[r] \in Sessions  BY <2>1, <3>1
        <4>4. i = j  BY <2>1, <4>1, <4>2, <4>3 DEF OneResponse
        <4>5. QED  BY <4>1, <4>2, <4>4
      <3>5. QED  BY <3>1, <3>2, <3>3, <3>4 DEF PlaceAt
    <2>3. CASE Places(r) = {}
      <3>1. Cardinality(Places(r)) = 0  BY <2>3, FS_EmptySet
      <3>2. QED  BY <3>1
    <2>4. CASE Places(r) # {}
      <3>1. PICK a : Places(r) = {a}  BY <2>2, <2>4
      <3>2. Cardinality(Places(r)) = 1  BY <3>1, FS_Singleton
      <3>3. QED  BY <3>2
    <2>5. QED  BY <2>3, <2>4
  <1>2. QED  BY <1>1, PipelineInvariant, PTL
---------------------------------------------------------------------------
(* What is lost *)

\* What may take a request away from its last stage x.
Loss(r, x) ==
    \/ x \in Subscribers /\ missed'[x]
    \/ session'[owner[r]] = "gone"
    \/ Len(channel[owner[r]]) = ResponseChannel

\* An event waits on, unless its subscriber falls behind.
LEMMA PublishKeeps ==
    ASSUME PipelineInv, NEW r \in Requests, NEW x \in Subscribers, x \in Stages(r),
           NEW e \in Events, Publish(<<e>>) \/ Publish(<<Other, e>>)
    PROVE  x \in Stages(r)' \/ missed'[x]
  <1>1. BusKeeps(queue, e)  BY PublishStep DEF PipelineInv
  <1>2. QED  BY <1>1, StagesAre, StageNames DEF BusKeeps

\* A request that waits for one processor goes on waiting, or is missed, when a processor takes
\* an event about another.
LEMMA HandleKeeps ==
    ASSUME PipelineInv, NEW r \in Requests, NEW x \in Subscribers, x \in Stages(r),
           NEW e \in Events, NEW c \in Subscribers,
           Handle(c, << >>) \/ Handle(c, <<e>>) \/ Handle(c, <<Other, e>>),
           ~About(Head(queue[c]), HandledBy[c], r)
    PROVE  x \in Stages(r)' \/ missed'[x]
  <1>1. BusKeepsBut(c, e)  BY HandleStep DEF PipelineInv
  <1>2. QED  BY <1>1, StagesAre, StageNames DEF BusKeepsBut

\* What is published about r has reached its subscriber.
LEMMA PublishTells ==
    ASSUME PipelineInv, NEW r \in Requests, NEW e \in Events, NEW y \in Subscribers,
           About(e, HandledBy[y], r),
           \/ Publish(<<e>>) \/ Publish(<<Other, e>>)
           \/ \E c \in Subscribers : Handle(c, <<e>>) \/ Handle(c, <<Other, e>>)
    PROVE  y \in Stages(r)'
  <1>1. BusTells(e)
    <2>1. CASE Publish(<<e>>) \/ Publish(<<Other, e>>)  BY <2>1, PublishStep DEF PipelineInv
    <2>2. ASSUME NEW c \in Subscribers, Handle(c, <<e>>) \/ Handle(c, <<Other, e>>) PROVE BusTells(e)
      <3>1. <<e>> # << >> /\ <<Other, e>> # << >>  OBVIOUS
      <3>2. QED  BY <2>2, <3>1, HandleStep DEF PipelineInv
    <2>3. QED  BY <2>1, <2>2
  <1>2. QED  BY <1>1, StagesAre DEF BusTells

\* A request that waits on the bus.
LEMMA WaitingKept ==
    ASSUME PipelineInv, Next, NEW r \in Requests, NEW x \in Subscribers, x \in Stages(r)
    PROVE  Stages(r)' # {} \/ Loss(r, x)
  <1>1. ASSUME UNCHANGED queue PROVE x \in Stages(r)'
    <2>1. ~Without(queue[x], HandledBy[x], r)  BY StagesAre, StageNames
    <2>2. ~Without(queue'[x], HandledBy[x], r)  BY <1>1, <2>1
    <2>3. QED  BY <2>2, StagesAre
  <1>2. ASSUME NEW s \in Sessions, HandleAsyncResponse(s) \/ SessionEnds(s) PROVE Stages(r)' # {}
    BY <1>1, <1>2 DEF HandleAsyncResponse, SessionEnds, bus_vars
  <1>3. ASSUME NEW s \in Sessions, Unregister(s) \/ \E q \in Requests : Submit(s, q)
        PROVE  Stages(r)' # {} \/ Loss(r, x)
    BY <1>3, PublishKeeps, OtherIsEvent, EventsTyped DEF Unregister, Submit, Loss
  <1>4. ASSUME NEW q \in Requests, ForwardMessage(q) \/ SmscAccepts(q)
        PROVE  Stages(r)' # {} \/ Loss(r, x)
    <2>1. CASE TryFails(q) \/ Sends(q) \/ SmscAccepts(q)  BY <1>1, <2>1 DEF TryFails, Sends, SmscAccepts, bus_vars
    <2>2. CASE TryCluster(q)  BY <2>2, PublishKeeps, OtherIsEvent DEF TryCluster, Loss
    <2>3. CASE Forwarded(q) \/ AllFailed(q)
      <3>1. \E status \in {"success", "error"} : Publish(<<Other, ResponseReady(q, status)>>)
        BY <2>3 DEF Forwarded, AllFailed
      <3>2. QED  BY <3>1, PublishKeeps, EventsTyped DEF Loss
    <2>4. QED  BY <1>4, <2>1, <2>2, <2>3 DEF ForwardMessage
  <1>5. ASSUME OtherEvent PROVE Stages(r)' # {} \/ Loss(r, x)
    BY <1>5, PublishKeeps, OtherIsEvent DEF OtherEvent, Loss
  <1>6. ASSUME RouterRoutes \/ RouterFindsNothing PROVE Stages(r)' # {} \/ Loss(r, x)
    <2>1. routing \in Requests
      BY <1>6 DEF RouterRoutes, RouterFindsNothing, PipelineInv, PipelineTypes
    <2>2. CASE RouterRoutes
      <3>1. PICK route \in Routes : Publish(<<MessageRouted(routing, route)>>)  BY <2>2 DEF RouterRoutes
      <3>2. route \in Seq(ClusterKind)  BY PipelineAssumption
      <3>3. QED  BY <2>1, <3>1, <3>2, PublishKeeps, EventsTyped DEF Loss
    <2>3. CASE RouterFindsNothing
      BY <2>1, <2>3, PublishKeeps, EventsTyped DEF RouterFindsNothing, Loss
    <2>4. QED  BY <1>6, <2>2, <2>3
  <1>7. ASSUME ForwarderSpawns PROVE Stages(r)' # {}
    BY <1>1, <1>7 DEF ForwarderSpawns, bus_vars
  <1>8. ASSUME NEW p \in Subscribers, Ignores(p) \/ FallsBehind(p) PROVE Stages(r)' # {} \/ Loss(r, x)
    <2>1. CASE FallsBehind(p)  BY <1>1, <2>1 DEF FallsBehind, Lagged
    <2>2. CASE Ignores(p)
      <3>1. Handle(p, << >>) /\ ~About(Head(queue[p]), HandledBy[p], r)  BY <2>2 DEF Ignores, About
      <3>2. QED  BY <3>1, HandleKeeps, OtherIsEvent DEF Loss
    <2>3. QED  BY <1>8, <2>1, <2>2
  <1>9. ASSUME NEW q \in Requests, q # r,
               FilterAccepts(q) \/ FilterRejects(q) \/ RouterStores(q) \/ ForwarderTakes(q) \/ SendResponse(q)
        PROVE  Stages(r)' # {} \/ Loss(r, x)
    <2>1. \E c \in Subscribers :
             /\ Handle(c, << >>) \/ Handle(c, <<MessageAccepted(q)>>) \/ Handle(c, <<Other, ResponseReady(q, "error")>>)
             /\ ~About(Head(queue[c]), HandledBy[c], r)
      BY <1>9, Handlers
      DEF FilterAccepts, FilterRejects, RouterStores, ForwarderTakes, SendResponse, Gets, About
    <2>2. QED  BY <2>1, HandleKeeps, EventsTyped DEF Loss
  <1>10. ASSUME FilterAccepts(r) \/ FilterRejects(r) PROVE Stages(r)' # {}
    <2>1. /\ About(MessageAccepted(r), HandledBy["router"], r)
          /\ About(ResponseReady(r, "error"), HandledBy["response"], r)
      BY EventsAbout, Handlers
    <2>2. CASE FilterAccepts(r)
      <3>1. Handle("filter", <<MessageAccepted(r)>>)  BY <2>2 DEF FilterAccepts
      <3>2. "router" \in Stages(r)'  BY <2>1, <3>1, PublishTells, EventsTyped, Handlers
      <3>3. QED  BY <3>2
    <2>3. CASE FilterRejects(r)
      <3>1. Handle("filter", <<Other, ResponseReady(r, "error")>>)  BY <2>3 DEF FilterRejects
      <3>2. "response" \in Stages(r)'  BY <2>1, <3>1, PublishTells, EventsTyped, Handlers
      <3>3. QED  BY <3>2
    <2>4. QED  BY <1>10, <2>2, <2>3
  <1>11. ASSUME RouterStores(r) \/ ForwarderTakes(r) PROVE Stages(r)' # {}
    BY <1>11, StagesAre DEF RouterStores, ForwarderTakes
  <1>12. ASSUME SendResponse(r) PROVE Stages(r)' # {} \/ Loss(r, x)
    <2> DEFINE s == owner[r]
               resp == [req |-> r, status |-> Head(queue["response"]).status]
    <2>1. s \in Sessions  BY DEF PipelineInv, PipelineTypes, OneStage, OneStageOf
    <2>2. /\ channel \in [Sessions -> Seq(Responses)] /\ channel[s] \in Seq(Responses)
          /\ Len(channel[s]) \in Nat /\ Len(channel[s]) <= ResponseChannel /\ ResponseChannel \in Nat
      BY <2>1, PipelineAssumption DEF PipelineInv, PipelineTypes, Sizes
    <2>3. session' = session  BY <1>12 DEF SendResponse
    <2>4. CASE session[s] # "gone" /\ Len(channel[s]) < ResponseChannel
      <3>1. channel' = [channel EXCEPT ![s] = Append(channel[s], resp)]  BY <1>12, <2>4 DEF SendResponse
      <3>2. channel'[s] = Append(channel[s], resp)  BY <2>1, <2>2, <3>1
      <3>3. resp.req = r  OBVIOUS
      <3> HIDE DEF resp, s
      <3>4. /\ Len(channel'[s]) = Len(channel[s]) + 1
            /\ channel'[s][Len(channel[s]) + 1] = resp
        BY <2>2, <3>2
      <3>5. ~WithoutResponse(channel'[s], r)  BY <2>2, <3>3, <3>4 DEF WithoutResponse
      <3>6. "channel" \in Stages(r)'  BY <2>1, <3>5, StagesAre
      <3>7. QED  BY <3>6
    <2>5. CASE session[s] = "gone"  BY <2>3, <2>5 DEF Loss
    <2>6. CASE ~(Len(channel[s]) < ResponseChannel)
      <3>1. Len(channel[s]) = ResponseChannel  BY <2>2, <2>6
      <3>2. QED  BY <3>1 DEF Loss
    <2>7. QED  BY <2>4, <2>5, <2>6
  <1>13. ASSUME NEW p \in Subscribers, Processor(p) PROVE Stages(r)' # {} \/ Loss(r, x)
    BY <1>6, <1>7, <1>8, <1>9, <1>10, <1>11, <1>12, <1>13 DEF Processor
  <1>14. QED  BY <1>2, <1>3, <1>4, <1>5, <1>13 DEF Next

\* A request a processor or a task has in its hands.
LEMMA HandsKept ==
    ASSUME PipelineInv, Next, NEW r \in Requests, NEW x \in {"routing", "holding", "task"}, x \in Stages(r)
    PROVE  Stages(r)' # {}
  <1>1. CASE x = "routing"
    <2>1. routing = r /\ routing # Nobody  BY <1>1, StagesAre, StageNames
    <2>2. CASE routing' = r  BY <2>2, StagesAre
    <2>3. CASE routing' # routing
      <3>1. RouterRoutes \/ RouterFindsNothing
        BY <2>1, <2>3 DEF Next, Processor, ForwardMessage, HandleAsyncResponse, SessionEnds, Unregister,
           Submit, Ignores, FallsBehind, FilterAccepts, FilterRejects, RouterStores, Gets, ForwarderTakes,
           SendResponse, ForwarderSpawns, TryCluster, Forwarded, TryFails, AllFailed, Sends, SmscAccepts,
           OtherEvent, PipelineUnchanged, ForwardUnchanged
      <3>2. CASE RouterRoutes
        <4>1. PICK route \in Routes : Publish(<<MessageRouted(r, route)>>)  BY <2>1, <3>2 DEF RouterRoutes
        <4>2. About(MessageRouted(r, route), HandledBy["forwarder"], r)  BY EventsAbout, Handlers
        <4>3. MessageRouted(r, route) \in Events  BY EventsTyped, PipelineAssumption
        <4>4. "forwarder" \in Stages(r)'  BY <4>1, <4>2, <4>3, PublishTells, Handlers
        <4>5. QED  BY <4>4
      <3>3. CASE RouterFindsNothing
        <4>1. Publish(<<Other, ResponseReady(r, "error")>>)  BY <2>1, <3>3 DEF RouterFindsNothing
        <4>2. About(ResponseReady(r, "error"), HandledBy["response"], r)  BY EventsAbout, Handlers
        <4>3. "response" \in Stages(r)'  BY <4>1, <4>2, PublishTells, EventsTyped, Handlers
        <4>4. QED  BY <4>3
      <3>4. QED  BY <3>1, <3>2, <3>3
    <2>4. QED  BY <2>1, <2>2, <2>3
  <1>2. CASE x = "holding"
    <2>1. holding = r /\ holding # Nobody  BY <1>2, StagesAre, StageNames
    <2>2. CASE holding' = r  BY <2>2, StagesAre
    <2>3. CASE holding' # holding
      <3>1. ForwarderSpawns
        BY <2>1, <2>3 DEF Next, Processor, ForwardMessage, HandleAsyncResponse, SessionEnds, Unregister,
           Submit, Ignores, FallsBehind, FilterAccepts, FilterRejects, RouterStores, Gets, ForwarderTakes,
           RouterRoutes, RouterFindsNothing, SendResponse, TryCluster, Forwarded, TryFails, AllFailed,
           Sends, SmscAccepts, OtherEvent, PipelineUnchanged, fwd_vars
      <3>2. task'[r] = "next"  BY <2>1, <3>1 DEF ForwarderSpawns, PipelineInv, PipelineTypes
      <3>3. QED  BY <3>2, StagesAre
    <2>4. QED  BY <2>1, <2>2, <2>3
  <1>3. CASE x = "task"
    <2>1. task[r] # "none"  BY <1>3, StagesAre, StageNames
    <2>2. CASE task'[r] # "none"  BY <2>2, StagesAre
    <2>3. CASE task'[r] = "none"
      <3>1. task' # task  BY <2>1, <2>3
      <3>2. \/ \E q \in Requests : TryCluster(q) \/ Sends(q) \/ SmscAccepts(q) \/ TryFails(q)
            \/ \E q \in Requests : Forwarded(q) \/ AllFailed(q)
            \/ ForwarderSpawns
        BY <3>1 DEF Next, Processor, ForwardMessage, HandleAsyncResponse, SessionEnds, Unregister,
           Submit, Ignores, FallsBehind, FilterAccepts, FilterRejects, RouterStores, ForwarderTakes,
           RouterRoutes, RouterFindsNothing, SendResponse, OtherEvent, PipelineUnchanged, fwd_vars
      <3>3. task \in [Requests -> {"none", "next", "sent", "answered"} \cup ClusterKind]
        BY DEF PipelineInv, PipelineTypes
      <3>4. ASSUME NEW q \in Requests, TryCluster(q) \/ Sends(q) \/ SmscAccepts(q) \/ TryFails(q) PROVE FALSE
        <4>1. left[q] \in Seq(ClusterKind)  BY DEF PipelineInv, PipelineTypes
        <4>2. left[q] # << >> => Head(left[q]) \in ClusterKind  BY <4>1
        <4>3. QED  BY <2>1, <2>3, <3>3, <3>4, <4>2 DEF TryCluster, Sends, SmscAccepts, TryFails, ClusterKind
      <3>5. ~ForwarderSpawns  BY <2>1, <2>3, <3>3 DEF ForwarderSpawns
      <3>6. Forwarded(r) \/ AllFailed(r)
        BY <2>1, <2>3, <3>2, <3>3, <3>4, <3>5 DEF Forwarded, AllFailed
      <3>7. PICK status \in {"success", "error"} : Publish(<<Other, ResponseReady(r, status)>>)
        BY <3>6 DEF Forwarded, AllFailed
      <3>8. About(ResponseReady(r, status), HandledBy["response"], r)  BY EventsAbout, Handlers
      <3>9. "response" \in Stages(r)'  BY <3>7, <3>8, PublishTells, EventsTyped, Handlers
      <3>10. QED  BY <3>9
    <2>4. QED  BY <2>2, <2>3
  <1>4. QED  BY <1>1, <1>2, <1>3

\* A response in a channel, and one written to the client.
LEMMA SessionsKept ==
    ASSUME PipelineInv, Next, NEW r \in Requests, NEW x \in {"channel", "sent"}, x \in Stages(r)
    PROVE  Stages(r)' # {} \/ Loss(r, x)
  <1>1. /\ channel \in [Sessions -> Seq(Responses)] /\ sent \in [Requests -> Status]
        /\ \A s \in Sessions : \A i \in 1..Len(channel[s]) : channel[s][i].status # "none"
        /\ \A s \in Sessions : WithoutResponse(channel[s], r) \/ owner[r] = s
    BY DEF PipelineInv, PipelineTypes, SuccessIsTrue, OneStage, OneStageOf
  <1>2. \/ UNCHANGED <<channel, sent>>
        \/ \E s \in Sessions : HandleAsyncResponse(s) \/ Unregister(s)
        \/ \E q \in Requests : SendResponse(q)
    BY DEF Next, Processor, ForwardMessage, SessionEnds, Submit, Ignores, FallsBehind, FilterAccepts,
       FilterRejects, RouterStores, ForwarderTakes, RouterRoutes, RouterFindsNothing, ForwarderSpawns,
       TryCluster, Forwarded, TryFails, AllFailed, Sends, SmscAccepts, OtherEvent, PipelineUnchanged,
       ForwardUnchanged, session_vars
  <1>3. CASE UNCHANGED <<channel, sent>>
    <2>1. x \in Stages(r)'  BY <1>3, StagesAre, StageNames
    <2>2. QED  BY <2>1
  <1>4. ASSUME NEW s \in Sessions, HandleAsyncResponse(s) PROVE Stages(r)' # {}
    <2> DEFINE h == Head(channel[s])
               rest == Tail(channel[s])
    <2>1. /\ channel[s] # << >> /\ channel' = [channel EXCEPT ![s] = rest]
          /\ sent' = [sent EXCEPT ![h.req] = h.status]
      BY <1>4 DEF HandleAsyncResponse
    <2>2. channel[s] \in Seq(Responses)  BY <1>1
    <2>3. /\ h \in Responses /\ h = channel[s][1] /\ 1 \in 1..Len(channel[s])
          /\ Len(channel[s]) \in Nat /\ Len(rest) = Len(channel[s]) - 1
          /\ \A i \in 1..Len(rest) : rest[i] = channel[s][i + 1]
      BY <2>1, <2>2
    <2>4. h.status # "none" /\ h.req \in Requests  BY <1>1, <2>3 DEF Responses
    <2> HIDE DEF h, rest
    <2>5. CASE x = "sent" \/ h.req = r
      <3>1. x = "sent" => sent[r] # "none"  BY StagesAre, StageNames
      <3>2. sent'[r] # "none"  BY <1>1, <2>1, <2>4, <2>5, <3>1
      <3>3. QED  BY <3>2, StagesAre
    <2>6. CASE x = "channel" /\ h.req # r
      <3>1. PICK z \in Sessions : ~WithoutResponse(channel[z], r)  BY <2>6, StagesAre, StageNames
      <3>2. CASE z # s
        <4>1. channel'[z] = channel[z]  BY <1>1, <2>1, <3>2
        <4>2. ~WithoutResponse(channel'[z], r)  BY <3>1, <4>1
        <4>3. QED  BY <4>2, StagesAre
      <3>3. CASE z = s
        <4>1. PICK i \in 1..Len(channel[s]) : channel[s][i].req = r  BY <3>1, <3>3 DEF WithoutResponse
        <4>2. i # 1  BY <2>3, <2>6, <4>1
        <4>3. i - 1 \in 1..Len(rest) /\ (i - 1) + 1 = i  BY <2>3, <4>2
        <4>4. rest[i - 1].req = r  BY <2>3, <4>1, <4>3
        <4>5. channel'[s] = rest  BY <1>1, <2>1
        <4>6. ~WithoutResponse(channel'[s], r)  BY <4>3, <4>4, <4>5 DEF WithoutResponse
        <4>7. QED  BY <4>6, StagesAre
      <3>4. QED  BY <3>2, <3>3
    <2>7. QED  BY <2>5, <2>6
  <1>5. ASSUME NEW s \in Sessions, Unregister(s) PROVE Stages(r)' # {} \/ Loss(r, x)
    <2>1. /\ channel' = [channel EXCEPT ![s] = << >>] /\ sent' = sent
          /\ session' = [session EXCEPT ![s] = "gone"]
      BY <1>5 DEF Unregister
    <2>2. CASE x = "sent"
      <3>1. sent'[r] # "none"  BY <2>1, <2>2, StagesAre, StageNames
      <3>2. QED  BY <3>1, StagesAre
    <2>3. CASE x = "channel"
      <3>1. PICK z \in Sessions : ~WithoutResponse(channel[z], r)  BY <2>3, StagesAre, StageNames
      <3>2. CASE z # s
        <4>1. channel'[z] = channel[z]  BY <1>1, <2>1, <3>2
        <4>2. ~WithoutResponse(channel'[z], r)  BY <3>1, <4>1
        <4>3. QED  BY <4>2, StagesAre
      <3>3. CASE z = s
        <4>1. owner[r] = s  BY <1>1, <3>1, <3>3
        <4>2. session'[s] = "gone"  BY <2>1 DEF PipelineInv, PipelineTypes
        <4>3. QED  BY <4>1, <4>2 DEF Loss
      <3>4. QED  BY <3>2, <3>3
    <2>4. QED  BY <2>2, <2>3
  <1>6. ASSUME NEW q \in Requests, SendResponse(q) PROVE Stages(r)' # {}
    <2> DEFINE more == Append(channel[owner[q]], [req |-> q, status |-> Head(queue["response"]).status])
    <2>1. /\ sent' = sent
          /\ channel' = channel \/ channel' = [channel EXCEPT ![owner[q]] = more]
      BY <1>6 DEF SendResponse
    <2>2. CASE x = "sent"
      <3>1. sent'[r] # "none"  BY <2>1, <2>2, StagesAre, StageNames
      <3>2. QED  BY <3>1, StagesAre
    <2>3. CASE x = "channel"
      <3>1. PICK z \in Sessions : ~WithoutResponse(channel[z], r)  BY <2>3, StagesAre, StageNames
      <3>2. CASE channel'[z] = channel[z]
        <4>1. ~WithoutResponse(channel'[z], r)  BY <3>1, <3>2
        <4>2. QED  BY <4>1, StagesAre
      <3>3. CASE z = owner[q] /\ channel'[z] = more
        <4>1. channel[z] \in Seq(Responses)  BY <1>1
        <4>2. \A i \in 1..Len(channel[z]) : i \in 1..Len(more) /\ more[i] = channel[z][i]  BY <3>3, <4>1
        <4> HIDE DEF more
        <4>3. ~WithoutResponse(channel'[z], r)  BY <3>1, <3>3, <4>2 DEF WithoutResponse
        <4>4. QED  BY <4>3, StagesAre
      <3>4. QED  BY <1>1, <2>1, <3>2, <3>3
    <2>4. QED  BY <2>2, <2>3
  <1>7. QED  BY <1>2, <1>3, <1>4, <1>5, <1>6

\* A request disappears unanswered only where the bus overtook its processor, or its session
\* was gone or its response channel full.
THEOREM NothingElseIsLost == Spec => LostOnlyByOverflow
  <1> DEFINE HavePlaces == \A r \in Requests : Stages(r) # {} => Places(r) # {}
  <1>1. PipelineInv => HavePlaces  BY PlacesAtStages
  <1>2. PipelineInv' => HavePlaces'  BY <1>1, PTL
  <1>3. PipelineInv' => \A r \in Requests : Stages(r)' # {} => Places(r)' # {}
    BY <1>2
  <1>4. ASSUME PipelineInv, PipelineInv', [Next]_vars, NEW r \in Requests,
               Places(r) # {}, Places(r)' = {}
        PROVE  \/ \E p \in Subscribers : missed'[p] /\ \E i \in 1..BusCapacity : <<p, i>> \in Places(r)
               \/ session'[owner[r]] = "gone"
               \/ Len(channel[owner[r]]) = ResponseChannel
    <2>1. PICK x \in Stages(r) : TRUE  BY <1>4, PlacesAtStages
    <2>2. Stages(r)' = {}
      BY <1>3, <1>4
    <2>3. CASE Next
      <3>1. Loss(r, x)
        BY <1>4, <2>1, <2>2, <2>3, WaitingKept, HandsKept, SessionsKept, StagesAre
      <3>2. PICK a \in Places(r) : PlaceAt(r, x, a)  BY <1>4, <2>1, PlacesAtStages
      <3>3. ASSUME x \in Subscribers PROVE \E i \in 1..BusCapacity : <<x, i>> \in Places(r)
        <4>1. PICK i \in 1..Len(queue[x]) : a = <<x, i>>  BY <3>2, <3>3, StageNames DEF PlaceAt
        <4>2. i \in 1..BusCapacity
          BY <1>4, <3>3, <4>1, BusAssumption DEF PipelineInv, PipelineTypes, Sizes
        <4>3. QED  BY <3>2, <4>1, <4>2
      <3>4. QED  BY <3>1, <3>3 DEF Loss
    <2>4. CASE UNCHANGED vars
      <3>1. Stages(r)' = Stages(r)
        BY <2>4 DEF Stages, HandledBy, vars, bus_vars, session_vars, fwd_vars
      <3>2. QED  BY <2>1, <2>2, <3>1
    <2>5. QED  BY <1>4, <2>3, <2>4
  <1>5. PipelineInv /\ PipelineInv' /\ [Next]_vars =>
           [\A r \in Requests : Places(r) # {} /\ Places(r)' = {} =>
              \/ \E p \in Subscribers : missed'[p] /\ \E i \in 1..BusCapacity : <<p, i>> \in Places(r)
              \/ session'[owner[r]] = "gone"
              \/ Len(channel[owner[r]]) = ResponseChannel]_vars
    BY <1>4
  <1>6. QED  BY <1>5, PipelineInvariant, PTL DEF Spec, LostOnlyByOverflow
===========================================================================
