-------------------------- MODULE UpstreamProofs --------------------------
(***************************************************************************)
(* Proofs about CircuitBreaker and about Upstream, which puts it between a *)
(* cluster and its pool, for any number of callers, connections and        *)
(* thresholds.                                                             *)
(***************************************************************************)
EXTENDS Upstream, FiniteSetTheorems, TLAPS

(* The breaker by itself.  Its invariants are inductive together:          *)
(* NoMissedOpening needs the types, OpenedAtWhileNotClosed nothing but the *)
(* transitions.                                                            *)

BreakerInv == TypeOK /\ OpenedAtWhileNotClosed /\ NoMissedOpening /\ NoMissedClosing

\* Every breaker starts closed, with no failure, success or opening instant.
LEMMA BreakerInit == with_config => BreakerInv
  BY BreakerAssumption
     DEF with_config, BreakerInv, TypeOK, OpenedAtWhileNotClosed, NoMissedOpening,
         NoMissedClosing, CircuitState, OpenedAt, CallerStep

\* The steps of one caller preserve the types.
LEMMA BreakerTypeStep == TypeOK /\ [Next]_cb_vars => TypeOK'
  <1> SUFFICES ASSUME TypeOK, [Next]_cb_vars PROVE TypeOK'
    OBVIOUS
  <1> USE DEF TypeOK, CircuitState, OpenedAt, CallerStep, Goto
  <1>1. CASE OpenTimeoutPasses
    BY <1>1 DEF OpenTimeoutPasses
  <1>2. ASSUME NEW c \in Callers, Ask(c) PROVE TypeOK'
    BY <1>2 DEF Ask, AllowRequest, ShouldAttemptReset, TransitionToHalfOpen
  <1>3. ASSUME NEW c \in Callers, Record(c) PROVE TypeOK'
    <2>1. CASE RecordSuccess(c)  BY <2>1 DEF RecordSuccess
    <2>2. CASE RecordFailure(c)  BY <2>2 DEF RecordFailure
    <2>3. CASE ResetFailures(c)  BY <2>3 DEF ResetFailures
    <2>4. CASE AddSuccess(c)  BY <2>4 DEF AddSuccess
    <2>5. CASE AddFailure(c)  BY <2>5 DEF AddFailure
    <2>6. CASE TransitionToClosed(c)  BY <2>6 DEF TransitionToClosed
    <2>7. CASE TransitionToOpen(c)  BY <2>7 DEF TransitionToOpen
    <2> QED  BY <1>3, <2>1, <2>2, <2>3, <2>4, <2>5, <2>6, <2>7 DEF Record
  <1>4. CASE UNCHANGED cb_vars
    BY <1>4 DEF cb_vars
  <1> QED
    BY <1>1, <1>2, <1>3, <1>4 DEF Next, CallerNext

\* Only transitions change the state or the opening instant, and each sets both.
LEMMA OpenedAtStep ==
  BreakerInv /\ [Next]_cb_vars => OpenedAtWhileNotClosed'
  <1> SUFFICES ASSUME BreakerInv, [Next]_cb_vars PROVE OpenedAtWhileNotClosed'
    OBVIOUS
  <1> USE DEF BreakerInv, OpenedAtWhileNotClosed, TypeOK, CircuitState, OpenedAt
  <1>1. CASE OpenTimeoutPasses
    BY <1>1 DEF OpenTimeoutPasses
  <1>2. ASSUME NEW c \in Callers, Ask(c) PROVE OpenedAtWhileNotClosed'
    BY <1>2 DEF Ask, AllowRequest, ShouldAttemptReset, TransitionToHalfOpen
  <1>3. ASSUME NEW c \in Callers, Record(c) PROVE OpenedAtWhileNotClosed'
    BY <1>3 DEF Record, RecordSuccess, RecordFailure, ResetFailures, AddSuccess,
                AddFailure, TransitionToClosed, TransitionToOpen
  <1>4. CASE UNCHANGED cb_vars
    BY <1>4 DEF cb_vars
  <1> QED
    BY <1>1, <1>2, <1>3, <1>4 DEF Next, CallerNext

\* A caller that leaves "to_open" leaves the circuit open, and one that brings the
\* count to the threshold enters "to_open".
LEMMA NoMissedOpeningStep ==
  BreakerInv /\ [Next]_cb_vars => NoMissedOpening'
  <1> SUFFICES ASSUME BreakerInv, [Next]_cb_vars,
                      cb_state' = "Closed", failures' >= FailureThreshold
               PROVE \E d \in Callers : cb_pc'[d] = "to_open"
    BY DEF NoMissedOpening
  <1> USE BreakerAssumption
      DEF BreakerInv, TypeOK, NoMissedOpening, CircuitState, CallerStep, Goto
  <1>1. CASE OpenTimeoutPasses
    BY <1>1 DEF OpenTimeoutPasses
  <1>2. ASSUME NEW c \in Callers, Ask(c) PROVE \E d \in Callers : cb_pc'[d] = "to_open"
    BY <1>2 DEF Ask, AllowRequest, ShouldAttemptReset, TransitionToHalfOpen
  <1>3. ASSUME NEW c \in Callers, Record(c) PROVE \E d \in Callers : cb_pc'[d] = "to_open"
    <2>1. CASE RecordSuccess(c)  BY <2>1 DEF RecordSuccess
    <2>2. CASE RecordFailure(c)  BY <2>2 DEF RecordFailure
    <2>3. CASE ResetFailures(c)  BY <2>3 DEF ResetFailures
    <2>4. CASE AddSuccess(c)  BY <2>4 DEF AddSuccess
    <2>5. CASE AddFailure(c)
      <3>1. cb_pc'[c] = "to_open"  BY <2>5 DEF AddFailure
      <3> QED  BY <3>1
    <2>6. CASE TransitionToClosed(c)  BY <2>6 DEF TransitionToClosed
    <2>7. CASE TransitionToOpen(c)  BY <2>7 DEF TransitionToOpen
    <2> QED  BY <1>3, <2>1, <2>2, <2>3, <2>4, <2>5, <2>6, <2>7 DEF Record
  <1>4. CASE UNCHANGED cb_vars
    BY <1>4 DEF cb_vars
  <1> QED
    BY <1>1, <1>2, <1>3, <1>4 DEF Next, CallerNext

\* A caller that leaves "to_closed" leaves the circuit closed, one that brings the
\* count to the threshold enters "to_closed", and entering the half-open state resets
\* the count.
LEMMA NoMissedClosingStep ==
  BreakerInv /\ [Next]_cb_vars => NoMissedClosing'
  <1> SUFFICES ASSUME BreakerInv, [Next]_cb_vars,
                      cb_state' = "HalfOpen", successes' >= SuccessThreshold
               PROVE \E d \in Callers : cb_pc'[d] = "to_closed"
    BY DEF NoMissedClosing
  <1> USE BreakerAssumption
      DEF BreakerInv, TypeOK, NoMissedClosing, CircuitState, CallerStep, Goto
  <1>1. CASE OpenTimeoutPasses
    BY <1>1 DEF OpenTimeoutPasses
  <1>2. ASSUME NEW c \in Callers, Ask(c)
        PROVE \E d \in Callers : cb_pc'[d] = "to_closed"
    BY <1>2 DEF Ask, AllowRequest, ShouldAttemptReset, TransitionToHalfOpen
  <1>3. ASSUME NEW c \in Callers, Record(c)
        PROVE \E d \in Callers : cb_pc'[d] = "to_closed"
    <2>1. CASE RecordSuccess(c)  BY <2>1 DEF RecordSuccess
    <2>2. CASE RecordFailure(c)  BY <2>2 DEF RecordFailure
    <2>3. CASE ResetFailures(c)  BY <2>3 DEF ResetFailures
    <2>4. CASE AddSuccess(c)
      <3>1. cb_pc'[c] = "to_closed"  BY <2>4 DEF AddSuccess
      <3> QED  BY <3>1
    <2>5. CASE AddFailure(c)  BY <2>5 DEF AddFailure
    <2>6. CASE TransitionToClosed(c)  BY <2>6 DEF TransitionToClosed
    <2>7. CASE TransitionToOpen(c)  BY <2>7 DEF TransitionToOpen
    <2> QED  BY <1>3, <2>1, <2>2, <2>3, <2>4, <2>5, <2>6, <2>7 DEF Record
  <1>4. CASE UNCHANGED cb_vars
    BY <1>4 DEF cb_vars
  <1> QED
    BY <1>1, <1>2, <1>3, <1>4 DEF Next, CallerNext

\* The conjunction of the breaker's invariants is inductive.
LEMMA BreakerInductive == BreakerInv /\ [Next]_cb_vars => BreakerInv'
  BY BreakerTypeStep, OpenedAtStep, NoMissedOpeningStep, NoMissedClosingStep DEF BreakerInv

\* Every reachable state of the breaker satisfies the inductive invariant.
THEOREM BreakerInvariant == Spec => []BreakerInv
  BY BreakerInit, BreakerInductive, PTL DEF Spec

\* However many callers interleave, a circuit is never left closed with its failure
\* count at the threshold (record_failure, transition_to_open, transition_to_closed).
THEOREM OpeningIsNeverMissed == Spec => []NoMissedOpening
  <1>1. BreakerInv => NoMissedOpening  BY DEF BreakerInv
  <1> QED  BY <1>1, BreakerInvariant, PTL

\* However many callers interleave, a circuit is never left half-open with its success
\* count at the threshold (record_success, transition_to_closed).
THEOREM ClosingIsNeverMissed == Spec => []NoMissedClosing
  <1>1. BreakerInv => NoMissedClosing  BY DEF BreakerInv
  <1> QED  BY <1>1, BreakerInvariant, PTL
---------------------------------------------------------------------------
(* The endpoint and its pool *)

EpSteps == {"out", "filter", "selected", "check", "ask", "asked", "connecting", "using", "failed"}

Using == {c \in Callers : ep_pc[c] = "using"}

\* What is in each variable the accounts depend on.
UpstreamTypes ==
    /\ TypeOK
    /\ ep_pc \in [Callers -> EpSteps]
    /\ permits \in Nat /\ in_use \in Nat

\* How far a caller is in get_connection, and how far in the breaker, go together: the
\* breaker is asked before the pool, and hears of a failure only.
StepsAgree ==
    \A c \in Callers :
        /\ ep_pc[c] \in {"out", "filter", "selected", "check", "ask"} => cb_pc[c] = "idle"
        /\ ep_pc[c] = "asked" => cb_pc[c] \in {"open_seen", "to_half_open", "granted"}
        /\ ep_pc[c] \in {"connecting", "using"} => cb_pc[c] = "granted"
        /\ ep_pc[c] = "failed" => cb_pc[c] \in {"granted", "add_failure", "to_open"}

\* Only as many callers as there were permits can have one, so they can be counted.
Accounts ==
    /\ IsFiniteSet(Holding) /\ permits + Cardinality(Holding) = MaxConnections
    /\ IsFiniteSet(Using) /\ in_use = Cardinality(Using)

BreakerAgrees == OpenedAtWhileNotClosed /\ NoMissedOpening

UpstreamInv == UpstreamTypes /\ StepsAgree /\ Accounts /\ BreakerAgrees
---------------------------------------------------------------------------
(* The initial state *)

\* Nobody has a connection and the circuit is closed.
LEMMA UpstreamInit == Init => UpstreamInv
  <1> SUFFICES ASSUME Init PROVE UpstreamInv
    OBVIOUS
  <1>1. UpstreamTypes
    BY UpstreamAssumption
       DEF Init, with_config, UpstreamTypes, TypeOK, EpSteps, CircuitState, OpenedAt, CallerStep
  <1>2. StepsAgree  BY DEF Init, with_config, StepsAgree
  <1>3. Holding = {} /\ Using = {}  BY DEF Init, Holding, Using
  <1>4. Accounts
    BY <1>3, FS_EmptySet, UpstreamAssumption DEF Accounts, Init
  <1>5. BreakerAgrees
    BY BreakerAssumption DEF BreakerAgrees, OpenedAtWhileNotClosed, NoMissedOpening, Init, with_config
  <1>6. QED  BY <1>1, <1>2, <1>4, <1>5 DEF UpstreamInv
---------------------------------------------------------------------------
(* Counting callers *)

\* One step of one caller: who holds a permit and who uses a connection afterwards.
LEMMA WhoHolds ==
    ASSUME UpstreamTypes, NEW c \in Callers, NEW s \in EpSteps, EpGoto(c, s)
    PROVE  /\ Holding' = IF s \in {"connecting", "using"} THEN Holding \cup {c} ELSE Holding \ {c}
           /\ Using' = IF s = "using" THEN Using \cup {c} ELSE Using \ {c}
  BY DEF UpstreamTypes, EpGoto, Holding, Using

\* A caller that neither takes nor gives back anything leaves the accounts as they are.
LEMMA AccountsRest ==
    ASSUME UpstreamInv, UNCHANGED <<permits, in_use>>, Holding' = Holding, Using' = Using
    PROVE  Accounts'
  BY DEF UpstreamInv, Accounts

\* A caller outside the pool that stays outside leaves the accounts as they are.
LEMMA OutsideThePool ==
    ASSUME UpstreamInv, UNCHANGED <<permits, in_use>>, NEW c \in Callers, NEW s \in EpSteps,
           EpGoto(c, s), ep_pc[c] \notin {"connecting", "using"}, s \notin {"connecting", "using"}
    PROVE  Accounts'
  <1>1. Holding' = Holding \ {c} /\ Using' = Using \ {c}
    BY WhoHolds DEF UpstreamInv
  <1>2. c \notin Holding /\ c \notin Using
    BY DEF Holding, Using
  <1>3. QED  BY <1>1, <1>2, AccountsRest

\* A caller takes a permit.
LEMMA TakesPermit ==
    ASSUME UpstreamInv, NEW c \in Callers, AcquiresPermit(c)
    PROVE  Accounts'
  <1> USE DEF UpstreamInv, Accounts
  <1>1. Holding' = Holding \cup {c} /\ Using' = Using \ {c} /\ c \notin Holding /\ c \notin Using
    BY WhoHolds DEF AcquiresPermit, EpSteps, Holding, Using
  <1>2. IsFiniteSet(Holding') /\ Cardinality(Holding') = Cardinality(Holding) + 1
    BY <1>1, FS_AddElement
  <1>3. Using' = Using  BY <1>1
  <1>4. permits' = permits - 1 /\ in_use' = in_use  BY DEF AcquiresPermit
  <1>5. Cardinality(Holding) \in Nat  BY FS_CardinalityType
  <1>6. QED  BY <1>2, <1>3, <1>4, <1>5, UpstreamAssumption DEF UpstreamTypes

\* A caller gives its permit back without having connected.
LEMMA ReturnsPermit ==
    ASSUME UpstreamInv, NEW c \in Callers, ConnectFails(c)
    PROVE  Accounts'
  <1> USE DEF UpstreamInv, Accounts
  <1>1. Holding' = Holding \ {c} /\ Using' = Using \ {c} /\ c \in Holding /\ c \notin Using
    BY WhoHolds DEF ConnectFails, EpSteps, Holding, Using
  <1>2. IsFiniteSet(Holding') /\ Cardinality(Holding') = Cardinality(Holding) - 1
    BY <1>1, FS_RemoveElement
  <1>3. Using' = Using  BY <1>1
  <1>4. permits' = permits + 1 /\ in_use' = in_use  BY DEF ConnectFails
  <1>5. Cardinality(Holding) \in Nat  BY FS_CardinalityType
  <1>6. QED  BY <1>2, <1>3, <1>4, <1>5, UpstreamAssumption DEF UpstreamTypes

\* A caller that has its connection keeps the permit and is counted.
LEMMA GetsConnection ==
    ASSUME UpstreamInv, NEW c \in Callers, Connects(c)
    PROVE  Accounts'
  <1> USE DEF UpstreamInv, Accounts
  <1>1. Holding' = Holding \cup {c} /\ Using' = Using \cup {c} /\ c \in Holding /\ c \notin Using
    BY WhoHolds DEF Connects, EpSteps, Holding, Using
  <1>2. IsFiniteSet(Using') /\ Cardinality(Using') = Cardinality(Using) + 1
    BY <1>1, FS_AddElement
  <1>3. Holding' = Holding  BY <1>1
  <1>4. permits' = permits /\ in_use' = in_use + 1  BY DEF Connects
  <1>5. QED  BY <1>2, <1>3, <1>4 DEF UpstreamTypes

\* A dropped connection gives back the permit and is no longer counted.
LEMMA DropsConnection ==
    ASSUME UpstreamInv, NEW c \in Callers, Drops(c)
    PROVE  Accounts' /\ in_use > 0
  <1> USE DEF UpstreamInv, Accounts
  <1>1. Holding' = Holding \ {c} /\ Using' = Using \ {c} /\ c \in Holding /\ c \in Using
    BY WhoHolds DEF Drops, EpSteps, Holding, Using
  <1>2. IsFiniteSet(Holding') /\ Cardinality(Holding') = Cardinality(Holding) - 1
    BY <1>1, FS_RemoveElement
  <1>3. IsFiniteSet(Using') /\ Cardinality(Using') = Cardinality(Using) - 1
    BY <1>1, FS_RemoveElement
  <1>4. permits' = permits + 1 /\ in_use' = in_use - 1  BY DEF Drops
  <1>5. Cardinality(Holding) \in Nat /\ Cardinality(Using) \in Nat  BY FS_CardinalityType
  <1>6. Cardinality(Using) # 0  BY <1>1, FS_EmptySet
  <1>7. QED  BY <1>2, <1>3, <1>4, <1>5, <1>6, UpstreamAssumption DEF UpstreamTypes
---------------------------------------------------------------------------
(* Every step preserves the invariant *)

\* The steps of get_connection, as groups that leave the breaker alone or not.
LEMMA CallerTypeStep ==
    ASSUME UpstreamInv, NEW c \in Callers, GetConnection(c)
    PROVE  UpstreamTypes'
  <1> USE DEF UpstreamInv, UpstreamTypes, EpGoto, EpSteps, cb_vars, pool_vars
  <1>1. CASE ReadsFlag(c) \/ ReadsCircuit(c) \/ AcquireTimesOut(c)
    BY <1>1 DEF ReadsFlag, ReadsCircuit, AcquireTimesOut, TypeOK
  <1>2. CASE AcquiresPermit(c) \/ Connects(c) \/ ConnectFails(c)
    BY <1>2 DEF AcquiresPermit, Connects, ConnectFails, TypeOK
  <1>3. CASE Asks(c)
    <2>1. TypeOK'
      BY <1>3 DEF Asks, AllowRequest, ShouldAttemptReset, TransitionToHalfOpen, Goto,
                  TypeOK, CircuitState, OpenedAt, CallerStep
    <2>2. QED  BY <1>3, <2>1 DEF Asks
  <1>4. CASE RecordsFailure(c)
    <2>1. TypeOK'
      BY <1>4 DEF RecordsFailure, RecordFailure, AddFailure, TransitionToOpen, Goto,
                  TypeOK, CircuitState, OpenedAt, CallerStep
    <2>2. QED  BY <1>4, <2>1 DEF RecordsFailure
  <1>5. CASE Drops(c)
    <2>1. in_use - 1 \in Nat  BY <1>5, DropsConnection
    <2>2. TypeOK'
      BY <1>5 DEF Drops, Goto, TypeOK, CircuitState, OpenedAt, CallerStep
    <2>3. QED  BY <1>5, <2>1, <2>2 DEF Drops
  <1>6. QED  BY <1>1, <1>2, <1>3, <1>4, <1>5 DEF GetConnection

\* A caller's two counters move together, the others' not at all.
LEMMA CallerStepsAgree ==
    ASSUME UpstreamInv, NEW c \in Callers, GetConnection(c)
    PROVE  StepsAgree'
  <1> USE DEF UpstreamInv, UpstreamTypes, StepsAgree, EpGoto, EpSteps, cb_vars, TypeOK
  <1>1. CASE ReadsFlag(c) \/ ReadsCircuit(c) \/ AcquireTimesOut(c)
    BY <1>1 DEF ReadsFlag, ReadsCircuit, AcquireTimesOut
  <1>2. CASE AcquiresPermit(c) \/ Connects(c) \/ ConnectFails(c)
    BY <1>2 DEF AcquiresPermit, Connects, ConnectFails
  <1>3. CASE Asks(c)
    BY <1>3 DEF Asks, AllowRequest, ShouldAttemptReset, TransitionToHalfOpen, Goto
  <1>4. CASE RecordsFailure(c)
    BY <1>4 DEF RecordsFailure, RecordFailure, AddFailure, TransitionToOpen, Goto, CircuitState
  <1>5. CASE Drops(c)
    BY <1>5 DEF Drops, Goto
  <1>6. QED  BY <1>1, <1>2, <1>3, <1>4, <1>5 DEF GetConnection

\* Permits and connections stay accounted for.
LEMMA CallerAccounts ==
    ASSUME UpstreamInv, NEW c \in Callers, GetConnection(c)
    PROVE  Accounts'
  <1>1. CASE ReadsFlag(c) \/ ReadsCircuit(c) \/ AcquireTimesOut(c) \/ Asks(c) \/ RecordsFailure(c)
    <2>1. /\ UNCHANGED <<permits, in_use>> /\ ep_pc[c] \notin {"connecting", "using"}
          /\ \E s \in EpSteps \ {"connecting", "using"} : EpGoto(c, s)
      BY <1>1 DEF ReadsFlag, ReadsCircuit, AcquireTimesOut, Asks, RecordsFailure, pool_vars, EpSteps
    <2>2. QED  BY <2>1, OutsideThePool
  <1>2. QED
    BY <1>1, TakesPermit, ReturnsPermit, GetsConnection, DropsConnection DEF GetConnection

\* The caller that is to open the circuit opens it: nothing but its own steps moves it.
LEMMA CallerBreaker ==
    ASSUME UpstreamInv, NEW c \in Callers, GetConnection(c)
    PROVE  BreakerAgrees'
  <1> USE BreakerAssumption DEF UpstreamInv, UpstreamTypes, TypeOK, StepsAgree, BreakerAgrees,
          OpenedAtWhileNotClosed, NoMissedOpening, CircuitState, OpenedAt, CallerStep, cb_vars, Goto
  <1>1. CASE UNCHANGED cb_vars
    BY <1>1
  <1>2. CASE Asks(c)
    BY <1>2 DEF Asks, AllowRequest, ShouldAttemptReset, TransitionToHalfOpen
  <1>3. CASE RecordsFailure(c) /\ RecordFailure(c)
    BY <1>3 DEF RecordFailure
  <1>4. CASE RecordsFailure(c) /\ AddFailure(c)
    <2>1. OpenedAtWhileNotClosed'  BY <1>4 DEF AddFailure
    <2>2. failures' >= FailureThreshold => cb_pc'[c] = "to_open"  BY <1>4 DEF AddFailure
    <2>3. failures' \in Nat  BY <1>4 DEF AddFailure
    <2>4. QED  BY <2>1, <2>2
  <1>5. CASE RecordsFailure(c) /\ TransitionToOpen(c)
    BY <1>5 DEF TransitionToOpen
  <1>6. CASE Drops(c)
    BY <1>6 DEF Drops
  <1>7. QED
    BY <1>1, <1>2, <1>3, <1>4, <1>5, <1>6
       DEF GetConnection, ReadsFlag, ReadsCircuit, AcquireTimesOut, AcquiresPermit, Connects,
           ConnectFails, RecordsFailure

\* Health checks, the SMSC and the clock touch neither callers nor permits.
LEMMA OtherStep ==
    ASSUME UpstreamInv,
           \/ start_health_checks \/ PerformHealthCheck \/ SmscChanges \/ Clock
           \/ UNCHANGED vars
    PROVE  UpstreamInv'
  <1>1. /\ UNCHANGED <<cb_state, failures, successes, cb_pc, permits, in_use, ep_pc>>
        /\ opened_at' = opened_at \/ (opened_at = "fresh" /\ opened_at' = "due")
    BY DEF start_health_checks, PerformHealthCheck, SmscChanges, Clock, OpenTimeoutPasses,
           vars, cb_vars, pool_vars
  <1>2. Holding' = Holding /\ Using' = Using  BY <1>1 DEF Holding, Using
  <1>3. UpstreamTypes' /\ StepsAgree'
    BY <1>1 DEF UpstreamInv, UpstreamTypes, TypeOK, OpenedAt, StepsAgree
  <1>4. Accounts'  BY <1>1, <1>2, AccountsRest
  <1>5. BreakerAgrees'
    BY <1>1 DEF UpstreamInv, BreakerAgrees, OpenedAtWhileNotClosed, NoMissedOpening
  <1>6. QED  BY <1>3, <1>4, <1>5 DEF UpstreamInv

\* The invariant is inductive.
LEMMA UpstreamInductive == UpstreamInv /\ [UpstreamNext]_vars => UpstreamInv'
  <1> SUFFICES ASSUME UpstreamInv, [UpstreamNext]_vars PROVE UpstreamInv'
    OBVIOUS
  <1>1. ASSUME NEW c \in Callers, GetConnection(c) PROVE UpstreamInv'
    BY <1>1, CallerTypeStep, CallerStepsAgree, CallerAccounts, CallerBreaker DEF UpstreamInv
  <1>2. QED  BY <1>1, OtherStep DEF UpstreamNext

\* Every reachable state of callers, pool and breaker satisfies the invariant: in particular
\* a caller that has, or waits for, a connection is one the breaker let through.
THEOREM UpstreamInvariant == UpstreamSpec => []UpstreamInv
  BY UpstreamInit, UpstreamInductive, PTL DEF UpstreamSpec

\* However many callers compete, time out, fail or drop their connection, every permit is
\* free or held by one of them, and connections_in_use is the number in use
\* (ConnectionPool::get, create_connection, the drop of a PooledConnection).
THEOREM NoPermitLost == UpstreamSpec => []PermitsAccounted
  <1>1. UpstreamInv => PermitsAccounted
    BY DEF UpstreamInv, Accounts, PermitsAccounted, Using
  <1>2. QED  BY <1>1, UpstreamInvariant, PTL

\* The way the endpoint uses the breaker, asking late and reporting failures only, misses no
\* opening either: a caller about to open the circuit is never turned away before it has
\* (Endpoint::get_connection, record_failure).
THEOREM UpstreamOpens == UpstreamSpec => []NoMissedOpening
  <1>1. UpstreamInv => NoMissedOpening  BY DEF UpstreamInv, BreakerAgrees
  <1>2. QED  BY <1>1, UpstreamInvariant, PTL
===========================================================================
