-------------------------- MODULE CircuitBreaker --------------------------
(***************************************************************************)
(* The circuit breaker of one upstream endpoint, cluster/circuit_breaker.rs. *)
(*                                                                         *)
(* The breaker is shared by every task that talks to the endpoint.  Each   *)
(* public method first copies the state out of its RwLock and then acts on *)
(* the copy: counters are atomics updated outside the lock, and a          *)
(* transition takes the write lock again and re-tests the state.  One      *)
(* action below is one such atomic access, so callers interleave between   *)
(* the read and what they do because of it.  A transition_to_* method runs *)
(* under the write lock of the state and is one action: no caller can see  *)
(* the state while it runs, and the counters it stores are touched by      *)
(* others independently of each other.                                     *)
(*                                                                         *)
(* A caller uses the breaker the way the endpoint API offers it: ask       *)
(* allow_request, perform the request, record its outcome.                 *)
(*                                                                         *)
(* Left out: open_count (a statistic no decision reads) and window_size    *)
(* (a setting nothing reads).                                              *)
(***************************************************************************)
EXTENDS Naturals

CONSTANTS
    Callers,            \* tasks that use the endpoint concurrently
    FailureThreshold,   \* failures before opening (5 by default)
    SuccessThreshold    \* half-open successes before closing (2 by default)

ASSUME BreakerAssumption ==
    /\ FailureThreshold \in Nat \ {0}
    /\ SuccessThreshold \in Nat \ {0}

VARIABLES
    cb_state,     \* CircuitBreaker.state
    failures,     \* CircuitBreaker.failures
    successes,    \* CircuitBreaker.successes
    opened_at,    \* CircuitBreaker.opened_at, as the age of the instant it holds
    cb_pc         \* what each caller does next

cb_vars == <<cb_state, failures, successes, opened_at, cb_pc>>

CircuitState == {"Closed", "Open", "HalfOpen"}

\* opened_at is None, younger than open_timeout, or at least open_timeout old.
OpenedAt == {"none", "fresh", "due"}

CallerStep == {"idle", "open_seen", "to_half_open", "granted", "reset_failures",
               "add_success", "add_failure", "to_closed", "to_open"}

\* Caller c's next step is s.
Goto(c, s) == cb_pc' = [cb_pc EXCEPT ![c] = s]

with_config ==
    /\ cb_state = "Closed"
    /\ failures = 0
    /\ successes = 0
    /\ opened_at = "none"
    /\ cb_pc = [c \in Callers |-> "idle"]
---------------------------------------------------------------------------
(* allow_request *)

HalfOpenRefused(c) ==
    /\ cb_pc[c] = "idle"
    /\ Goto(c, CASE cb_state = "Closed" -> "granted"
                 [] cb_state = "HalfOpen" -> "idle"
                 [] cb_state = "Open" -> "open_seen")
    /\ UNCHANGED <<cb_state, failures, successes, opened_at>>

\* allow_request copies the state: closed and half-open circuits let the request
\* through, an open one is examined further.
AllowRequest(c) ==
    /\ cb_pc[c] = "idle"
    /\ Goto(c, IF cb_state = "Open" THEN "open_seen" ELSE "granted")
    /\ UNCHANGED <<cb_state, failures, successes, opened_at>>

\* should_attempt_reset reads opened_at under its own lock; FALSE refuses the request.
ShouldAttemptReset(c) ==
    /\ cb_pc[c] = "open_seen"
    /\ Goto(c, IF opened_at = "due" THEN "to_half_open" ELSE "idle")
    /\ UNCHANGED <<cb_state, failures, successes, opened_at>>

\* transition_to_half_open, then allow_request answers true whether or not it moved.
TransitionToHalfOpen(c) ==
    /\ cb_pc[c] = "to_half_open"
    /\ IF cb_state = "Open"
       THEN cb_state' = "HalfOpen" /\ successes' = 0
       ELSE UNCHANGED <<cb_state, successes>>
    /\ Goto(c, "granted")
    /\ UNCHANGED <<failures, opened_at>>
---------------------------------------------------------------------------
(* record_success and record_failure *)

\* record_success copies the state.
RecordSuccess(c) ==
    /\ cb_pc[c] = "granted"
    /\ Goto(c, CASE cb_state = "Closed" -> "reset_failures"
                 [] cb_state = "HalfOpen" -> "add_success"
                 [] cb_state = "Open" -> "idle")
    /\ UNCHANGED <<cb_state, failures, successes, opened_at>>

\* record_failure copies the state.
RecordFailure(c) ==
    /\ cb_pc[c] = "granted"
    /\ Goto(c, CASE cb_state = "Closed" -> "add_failure"
                 [] cb_state = "HalfOpen" -> "to_open"
                 [] cb_state = "Open" -> "idle")
    /\ UNCHANGED <<cb_state, failures, successes, opened_at>>

\* record_success, Closed arm: failures.store(0).
ResetFailures(c) ==
    /\ cb_pc[c] = "reset_failures"
    /\ failures' = 0
    /\ Goto(c, "idle")
    /\ UNCHANGED <<cb_state, successes, opened_at>>

SuccessOffByOne(c) ==
    /\ cb_pc[c] = "add_success"
    /\ successes' = successes + 1
    /\ Goto(c, IF successes' > SuccessThreshold THEN "to_closed" ELSE "idle")
    /\ UNCHANGED <<cb_state, failures, opened_at>>

\* record_success, HalfOpen arm: successes.fetch_add(1) and the threshold test.
AddSuccess(c) ==
    /\ cb_pc[c] = "add_success"
    /\ successes' = successes + 1
    /\ Goto(c, IF successes' >= SuccessThreshold THEN "to_closed" ELSE "idle")
    /\ UNCHANGED <<cb_state, failures, opened_at>>

FailureOffByOne(c) ==
    /\ cb_pc[c] = "add_failure"
    /\ failures' = failures + 1
    /\ Goto(c, IF failures' > FailureThreshold THEN "to_open" ELSE "idle")
    /\ UNCHANGED <<cb_state, successes, opened_at>>

\* record_failure, Closed arm: failures.fetch_add(1) and the threshold test.
AddFailure(c) ==
    /\ cb_pc[c] = "add_failure"
    /\ failures' = failures + 1
    /\ Goto(c, IF failures' >= FailureThreshold THEN "to_open" ELSE "idle")
    /\ UNCHANGED <<cb_state, successes, opened_at>>

\* transition_to_closed: its only test is that the circuit is not closed yet.
TransitionToClosed(c) ==
    /\ cb_pc[c] = "to_closed"
    /\ IF cb_state # "Closed"
       THEN cb_state' = "Closed" /\ failures' = 0 /\ successes' = 0 /\ opened_at' = "none"
       ELSE UNCHANGED <<cb_state, failures, successes, opened_at>>
    /\ Goto(c, "idle")

OpenForgetsInstant(c) ==
    /\ cb_pc[c] = "to_open"
    /\ cb_state' = "Open" /\ successes' = 0
    /\ Goto(c, "idle")
    /\ UNCHANGED <<failures, opened_at>>

\* transition_to_open.
TransitionToOpen(c) ==
    /\ cb_pc[c] = "to_open"
    /\ IF cb_state # "Open"
       THEN cb_state' = "Open" /\ successes' = 0 /\ opened_at' = "fresh"
       ELSE UNCHANGED <<cb_state, successes, opened_at>>
    /\ Goto(c, "idle")
    /\ UNCHANGED failures
---------------------------------------------------------------------------
\* open_timeout passes since the circuit opened.
OpenTimeoutPasses ==
    /\ opened_at = "fresh"
    /\ opened_at' = "due"
    /\ UNCHANGED <<cb_state, failures, successes, cb_pc>>

Ask(c) == AllowRequest(c) \/ ShouldAttemptReset(c) \/ TransitionToHalfOpen(c)

\* The outcome of the request is the upstream's choice.
Record(c) ==
    \/ RecordSuccess(c) \/ RecordFailure(c)
    \/ ResetFailures(c) \/ AddSuccess(c) \/ AddFailure(c)
    \/ TransitionToClosed(c) \/ TransitionToOpen(c)

CallerNext(c) == Ask(c) \/ Record(c)

Next == OpenTimeoutPasses \/ \E c \in Callers : CallerNext(c)

Spec == with_config /\ [][Next]_cb_vars

\* Requests keep arriving, every request ends (sends are bounded by a timeout) and
\* clocks advance.
FairSpec ==
    /\ Spec
    /\ WF_cb_vars(OpenTimeoutPasses)
    /\ \A c \in Callers : WF_cb_vars(CallerNext(c))
---------------------------------------------------------------------------
TypeOK ==
    /\ cb_state \in CircuitState
    /\ failures \in Nat
    /\ successes \in Nat
    /\ opened_at \in OpenedAt
    /\ cb_pc \in [Callers -> CallerStep]

\* The circuit has an opening instant exactly while it is not closed: an open circuit
\* without one would refuse requests for ever (should_attempt_reset answers false).
OpenedAtWhileNotClosed == (opened_at = "none") <=> (cb_state = "Closed")

\* No opening is missed: a closed circuit whose failure count has reached the threshold
\* is about to be opened by some caller, however the counting, resetting and closing of
\* other callers interleave (record_failure, record_success, transition_to_closed).
NoMissedOpening ==
    (cb_state = "Closed" /\ failures >= FailureThreshold)
        => \E c \in Callers : cb_pc[c] = "to_open"

\* No closing is missed: a half-open circuit with enough successes is about to be closed
\* by some caller, although the successes are counted outside the lock and reset by
\* every transition (record_success, transition_to_open, transition_to_half_open).
NoMissedClosing ==
    (cb_state = "HalfOpen" /\ successes >= SuccessThreshold)
        => \E c \in Callers : cb_pc[c] = "to_closed"

\* An open circuit is eventually probed or closed again (allow_request after
\* open_timeout), as long as callers keep asking.
OpenIsProbed == (cb_state = "Open") ~> (cb_state # "Open")

\* Probing ends: outcomes recorded in the half-open state close or reopen the circuit
\* (record_success, record_failure).
ProbingEnds == (cb_state = "HalfOpen") ~> (cb_state # "HalfOpen")
===========================================================================
