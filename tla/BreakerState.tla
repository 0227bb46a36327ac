---------------------------- MODULE BreakerState ----------------------------
(***************************************************************************)
(* The state of one circuit breaker and what each method of the class      *)
(* CircuitBreaker (layer2_risk/circuit_breaker.py) does to it, as          *)
(* operators on a record.  CircuitBreaker.tla drives one breaker through   *)
(* every sequence of calls; AutonomousTrader.tla embeds the order circuit  *)
(* in the trading loop.                                                    *)
(*                                                                         *)
(* The code reads the wall clock only to compute time.time() - opened_at   *)
(* and to compare it with timeout_duration.  The record therefore keeps    *)
(* that difference: "age" is the number of ticks since the last trip,      *)
(* saturating at TimeoutDuration, and NotOpened stands for                 *)
(* opened_at = None.  failure_count and success_count are compared only    *)
(* with their thresholds, so they saturate at CountCap.                    *)
(***************************************************************************)
EXTENDS Integers

CONSTANTS FailureThreshold,  \* failures that trip the breaker
          SuccessThreshold,  \* successes that close a half-open breaker
          TimeoutDuration,   \* ticks an open breaker waits before a probe
          CountCap           \* where the two counters saturate

ASSUME BreakerAssumption ==
    /\ FailureThreshold \in Nat \ {0}
    /\ SuccessThreshold \in Nat \ {0}
    /\ TimeoutDuration \in Nat \ {0}
    /\ CountCap \in Nat
    /\ FailureThreshold <= CountCap
    /\ SuccessThreshold <= CountCap

NotOpened == -1

Breakers == [state     : {"closed", "open", "half_open"},
             failures  : 0..CountCap,
             successes : 0..CountCap,
             age       : {NotOpened} \cup 0..TimeoutDuration]

Closed == [state |-> "closed", failures |-> 0, successes |-> 0, age |-> NotOpened]

Bump(n) == IF n < CountCap THEN n + 1 ELSE n

\* Mutant of Trip: opened_at is set only by the first trip.
TripKeepsAge(b) == [b EXCEPT !.state = "open", !.age = IF @ = NotOpened THEN 0 ELSE @]

\* _trip_circuit: opened_at restarts at every trip, also when already open.
Trip(b) == [b EXCEPT !.state = "open", !.age = 0]

\* record_failure: the count is tested in every state.
Failed(b) ==
    LET counted == [b EXCEPT !.failures = Bump(@)]
    IN  IF counted.failures >= FailureThreshold THEN Trip(counted) ELSE counted

\* record_success: counted in every state, acted upon only when half open.
Succeeded(b) ==
    LET counted == [b EXCEPT !.successes = Bump(@)]
    IN  IF b.state = "half_open" /\ counted.successes >= SuccessThreshold
        THEN Closed
        ELSE counted

ShouldAttemptReset(b) == b.age # NotOpened /\ b.age >= TimeoutDuration

\* What can_execute answers ...
Permits(b) == b.state # "open" \/ ShouldAttemptReset(b)

\* Mutants of Asked: the half-open breaker starts without failures; it keeps the
\* successes of the time before; every refusal restarts the wait.
AskedForgivesFailures(b) ==
    IF b.state = "open" /\ ShouldAttemptReset(b)
    THEN [b EXCEPT !.state = "half_open", !.successes = 0, !.failures = 0]
    ELSE b

AskedKeepsSuccesses(b) ==
    IF b.state = "open" /\ ShouldAttemptReset(b)
    THEN [b EXCEPT !.state = "half_open"]
    ELSE b

AskedRestartsWait(b) ==
    IF b.state = "open"
    THEN IF ShouldAttemptReset(b) THEN [b EXCEPT !.state = "half_open", !.successes = 0]
         ELSE [b EXCEPT !.age = 0]
    ELSE b

\* ... and what asking it does: an open breaker that waited long enough becomes
\* half open.  failure_count is kept, success_count starts again.
Asked(b) ==
    IF b.state = "open" /\ ShouldAttemptReset(b)
    THEN [b EXCEPT !.state = "half_open", !.successes = 0]
    ELSE b

\* d ticks of wall-clock time.
Aged(b, d) ==
    IF b.age = NotOpened THEN b
    ELSE [b EXCEPT !.age = IF @ + d < TimeoutDuration THEN @ + d ELSE TimeoutDuration]
=============================================================================
