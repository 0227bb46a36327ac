---------------------------- MODULE GuardsProofs ----------------------------
(***************************************************************************)
(* What CircuitBreaker promises of the breaker of the orders, and MCModels *)
(* of the models, of the books and of the guards beside the loops: for all *)
(* thresholds, windows, sizes and limits and all numbers of threads, an    *)
(* inductive invariant for every part, and that it stands still while      *)
(* another part moves.                                                     *)
(***************************************************************************)
EXTENDS CircuitBreaker, MCModels, FiniteSetTheorems, SequenceTheorems, TLAPS
-----------------------------------------------------------------------------
(* The circuit breaker. The first lemmas say what each operator of          *)
(* BreakerState does to the fields that the invariants relate, and the      *)
(* proofs about the component do not look into the operators again. Its     *)
(* inductive invariant adds two facts to the checked ones: an open breaker  *)
(* has an opening time, and a half-open one has counted no success that was *)
(* not reported since.                                                      *)
(* What each operator of BreakerState does to a breaker, for every breaker. *)

\* A count stays in its range, never falls, and reaches a threshold when its true
\* value does.
LEMMA BumpBounds ==
    ASSUME NEW n \in 0..CountCap
    PROVE  /\ Bump(n) \in 0..CountCap
           /\ Bump(n) >= n
           /\ \A k \in 0..CountCap : n + 1 >= k <=> Bump(n) >= k
BY BreakerAssumption DEF Bump

\* A breaker stays one when its state is replaced together with its opening time
\* or its successes.
LEMMA Updated ==
    ASSUME NEW b \in Breakers, NEW s \in {"closed", "open", "half_open"}
    PROVE  /\ [b EXCEPT !.state = s, !.age = 0] \in Breakers
           /\ [b EXCEPT !.state = s, !.successes = 0] \in Breakers
<1>1. 0 \in 0..TimeoutDuration /\ 0 \in 0..CountCap
  BY BreakerAssumption
<1>2. 0 \in {NotOpened} \cup 0..TimeoutDuration
  BY <1>1
<1> QED BY <1>1, <1>2, Zenon DEF Breakers

\* _reset_circuit makes a breaker.
LEMMA ClosedType == Closed \in Breakers
BY BreakerAssumption DEF Closed, Breakers

\* record_failure: the count rises, and the breaker is open afterwards if and only
\* if it has reached the threshold or was open before.
LEMMA FailedEffect ==
    ASSUME NEW b \in Breakers
    PROVE  /\ Failed(b) \in Breakers
           /\ Failed(b).failures = Bump(b.failures)
           /\ Bump(b.failures) >= FailureThreshold =>
                 Failed(b).state = "open" /\ Failed(b).age = 0
           /\ Bump(b.failures) < FailureThreshold =>
                 /\ Failed(b).state = b.state /\ Failed(b).age = b.age
                 /\ Failed(b).successes = b.successes
<1> DEFINE counted == [b EXCEPT !.failures = Bump(@)]
<1>1. Bump(b.failures) \in 0..CountCap
  BY BumpBounds DEF Breakers
<1>2. /\ counted \in Breakers
      /\ counted.failures = Bump(b.failures) /\ counted.state = b.state
      /\ counted.age = b.age /\ counted.successes = b.successes
  BY <1>1 DEF Breakers
<1>3. CASE Bump(b.failures) >= FailureThreshold
  <2>1. Failed(b) = [counted EXCEPT !.state = "open", !.age = 0]
    BY <1>2, <1>3 DEF Failed, Trip
  <2> HIDE DEF counted
  <2>2. Failed(b) \in Breakers
    BY <1>2, <2>1, Updated
  <2>3. /\ Failed(b).state = "open" /\ Failed(b).age = 0
        /\ Failed(b).failures = counted.failures
    BY <1>2, <2>1 DEF Breakers
  <2> QED BY <1>1, <1>2, <1>3, <2>2, <2>3, BreakerAssumption
<1>4. CASE Bump(b.failures) < FailureThreshold
  <2>1. Failed(b) = counted
    BY <1>1, <1>2, <1>4, BreakerAssumption DEF Failed
  <2> QED BY <1>1, <1>2, <1>4, <2>1, BreakerAssumption
<1> QED BY <1>1, <1>3, <1>4, BreakerAssumption

\* record_success: only a half-open breaker closes, and only at the threshold.
LEMMA SucceededEffect ==
    ASSUME NEW b \in Breakers
    PROVE  /\ Succeeded(b) \in Breakers
           /\ \/ /\ b.state = "half_open" /\ Bump(b.successes) >= SuccessThreshold
                 /\ Succeeded(b) = Closed
              \/ /\ Succeeded(b).state = b.state /\ Succeeded(b).age = b.age
                 /\ Succeeded(b).failures = b.failures
                 /\ Succeeded(b).successes = Bump(b.successes)
<1> DEFINE counted == [b EXCEPT !.successes = Bump(@)]
<1>1. Bump(b.successes) \in 0..CountCap
  BY BumpBounds DEF Breakers
<1>2. /\ counted \in Breakers
      /\ counted.successes = Bump(b.successes) /\ counted.state = b.state
      /\ counted.age = b.age /\ counted.failures = b.failures
  BY <1>1 DEF Breakers
<1>3. CASE b.state = "half_open" /\ Bump(b.successes) >= SuccessThreshold
  <2>1. Succeeded(b) = Closed
    BY <1>2, <1>3 DEF Succeeded
  <2> QED BY <1>3, <2>1, ClosedType
<1>4. CASE ~(b.state = "half_open" /\ Bump(b.successes) >= SuccessThreshold)
  <2>1. Succeeded(b) = counted
    BY <1>2, <1>4 DEF Succeeded
  <2> QED BY <1>2, <2>1
<1> QED BY <1>3, <1>4

\* can_execute: an open breaker whose wait is over becomes half open, and nothing
\* else changes.
LEMMA AskedEffect ==
    ASSUME NEW b \in Breakers
    PROVE  /\ Asked(b) \in Breakers
           /\ Asked(b).failures = b.failures /\ Asked(b).age = b.age
           /\ \/ /\ b.state = "open" /\ b.age = TimeoutDuration
                 /\ Asked(b).state = "half_open" /\ Asked(b).successes = 0
              \/ /\ b.state = "open" => b.age = NotOpened \/ b.age < TimeoutDuration
                 /\ Asked(b) = b
<1>1. CASE b.state = "open" /\ ShouldAttemptReset(b)
  <2>1. Asked(b) = [b EXCEPT !.state = "half_open", !.successes = 0]
    BY <1>1 DEF Asked
  <2>2. b.age = TimeoutDuration
    BY <1>1, BreakerAssumption DEF ShouldAttemptReset, Breakers, NotOpened
  <2>3. Asked(b) \in Breakers
    BY <2>1, Updated
  <2>4. /\ Asked(b).failures = b.failures /\ Asked(b).age = b.age
        /\ Asked(b).state = "half_open" /\ Asked(b).successes = 0
    BY <2>1 DEF Breakers
  <2> QED BY <1>1, <2>2, <2>3, <2>4
<1>2. CASE ~(b.state = "open" /\ ShouldAttemptReset(b))
  <2>1. Asked(b) = b
    BY <1>2 DEF Asked
  <2>2. b.state = "open" => b.age = NotOpened \/ b.age < TimeoutDuration
    BY <1>2, BreakerAssumption DEF ShouldAttemptReset, Breakers, NotOpened
  <2> QED BY <2>1, <2>2
<1> QED BY <1>1, <1>2

\* Time touches the age only, and only of a breaker that was opened.
LEMMA AgedEffect ==
    ASSUME NEW b \in Breakers, NEW d \in Nat
    PROVE  /\ Aged(b, d) \in Breakers
           /\ Aged(b, d).state = b.state /\ Aged(b, d).failures = b.failures
           /\ Aged(b, d).successes = b.successes
           /\ b.age = NotOpened => Aged(b, d).age = NotOpened
           /\ b.age # NotOpened =>
                 Aged(b, d).age = IF b.age + d < TimeoutDuration THEN b.age + d
                                  ELSE TimeoutDuration
<1>1. CASE b.age = NotOpened
  BY <1>1 DEF Aged
<1>2. CASE b.age # NotOpened
  <2> DEFINE older == IF b.age + d < TimeoutDuration THEN b.age + d ELSE TimeoutDuration
  <2>1. b.age \in 0..TimeoutDuration
    BY <1>2 DEF Breakers
  <2>2. older \in 0..TimeoutDuration
    BY <2>1, BreakerAssumption
  <2>3. Aged(b, d) = [b EXCEPT !.age = older]
    BY <1>2 DEF Aged
  <2> HIDE DEF older
  <2>4. Aged(b, d).age = older
    BY <2>3 DEF Breakers
  <2>5. /\ Aged(b, d) \in Breakers
        /\ Aged(b, d).state = b.state /\ Aged(b, d).failures = b.failures
        /\ Aged(b, d).successes = b.successes
    BY <2>2, <2>3 DEF Breakers
  <2> QED BY <1>2, <2>4, <2>5 DEF older
<1> QED BY <1>1, <1>2

\* force_open and a trip.
LEMMA TripEffect ==
    ASSUME NEW b \in Breakers
    PROVE  /\ Trip(b) \in Breakers
           /\ Trip(b).state = "open" /\ Trip(b).age = 0
           /\ Trip(b).failures = b.failures
<1>1. Trip(b) \in Breakers
  BY Updated DEF Trip
<1>2. Trip(b).state = "open" /\ Trip(b).age = 0 /\ Trip(b).failures = b.failures
  BY DEF Trip, Breakers
<1> QED BY <1>1, <1>2
-----------------------------------------------------------------------------
(* The inductive invariant.                                                *)

\* _should_attempt_reset never meets an open breaker without opened_at.
OpenHasAge == breaker.state = "open" => breaker.age # NotOpened

\* success_count of a half-open breaker holds no success from before.
HalfOpenCounts == breaker.state = "half_open" => breaker.successes <= probes

IInv == /\ TypeOK
        /\ ClosedBelowThreshold
        /\ OneStrike
        /\ OpenHasAge
        /\ HalfOpenCounts
-----------------------------------------------------------------------------
\* __init__ establishes the invariant.
LEMMA InitInv == Init => IInv
<1> SUFFICES ASSUME Init PROVE IInv
  OBVIOUS
<1>1. breaker \in Breakers
  BY ClosedType DEF Init
<1>2. TypeOK
  <2>1. probes \in 0..CountCap
    BY BreakerAssumption DEF Init
  <2> QED BY <1>1, <2>1, Zenon DEF Init, TypeOK, Events
<1>3. breaker.state = "closed" /\ breaker.failures = 0
  BY DEF Init, Closed
<1> QED BY <1>2, <1>3, BreakerAssumption
        DEF IInv, ClosedBelowThreshold, OneStrike, OpenHasAge, HalfOpenCounts

\* Every method, and time, preserves it.
LEMMA StepInv == IInv /\ [Next]_vars => IInv'
<1> SUFFICES ASSUME IInv, [Next]_vars PROVE IInv'
  OBVIOUS
<1> USE BreakerAssumption
<1>0. /\ breaker \in Breakers /\ probes \in 0..CountCap /\ forced \in BOOLEAN
      /\ breaker.failures \in 0..CountCap /\ breaker.successes \in 0..CountCap
  BY DEF IInv, TypeOK, Breakers
<1>1. CASE RecordFailure
  <2>1. breaker' \in Breakers /\ breaker'.failures = Bump(breaker.failures)
    BY <1>0, <1>1, FailedEffect DEF RecordFailure
  <2>2. TypeOK'
    BY <1>0, <1>1, <2>1 DEF RecordFailure, TypeOK, Events
  <2>3. CASE Bump(breaker.failures) >= FailureThreshold
    <3>1. breaker'.state = "open" /\ breaker'.age = 0
      BY <1>0, <1>1, <2>3, FailedEffect DEF RecordFailure
    <3> QED BY <2>1, <2>2, <2>3, <3>1
            DEF IInv, ClosedBelowThreshold, OneStrike, OpenHasAge, HalfOpenCounts, NotOpened
  <2>4. CASE Bump(breaker.failures) < FailureThreshold
    <3>1. /\ breaker'.state = breaker.state /\ breaker'.age = breaker.age
          /\ breaker'.successes = breaker.successes
      BY <1>0, <1>1, <2>4, FailedEffect DEF RecordFailure
    <3>2. breaker.failures + 1 < FailureThreshold /\ breaker.failures < FailureThreshold
      BY <1>0, <2>4, BumpBounds
    <3>3. forced' = forced /\ probes' = probes
      BY <1>0, <1>1, <3>2 DEF RecordFailure
    <3> QED BY <1>0, <2>1, <2>2, <2>4, <3>1, <3>2, <3>3
            DEF IInv, ClosedBelowThreshold, OneStrike, OpenHasAge, HalfOpenCounts
  <2>5. Bump(breaker.failures) \in 0..CountCap
    BY <1>0, BumpBounds
  <2> QED BY <2>3, <2>4, <2>5
<1>2. CASE RecordSuccess
  <2>1. breaker' \in Breakers /\ breaker' = Succeeded(breaker)
    BY <1>0, <1>2, SucceededEffect DEF RecordSuccess
  <2>2. probes' \in 0..CountCap /\ probes' = Bump(probes) /\ probes' >= probes
    BY <1>0, <1>2, BumpBounds DEF RecordSuccess
  <2>3. forced' = (forced /\ breaker'.state # "closed")
    BY <1>2 DEF RecordSuccess
  <2>4. TypeOK'
    BY <1>2, <2>1, <2>2, <2>3 DEF RecordSuccess, TypeOK, Events
  <2>5. CASE breaker' = Closed
    BY <2>4, <2>5
       DEF IInv, Closed, ClosedBelowThreshold, OneStrike, OpenHasAge, HalfOpenCounts
  <2>6. CASE /\ breaker'.state = breaker.state /\ breaker'.age = breaker.age
             /\ breaker'.failures = breaker.failures
             /\ breaker'.successes = Bump(breaker.successes)
    <3>1. breaker.successes <= probes => breaker'.successes <= probes'
      BY <1>0, <2>2, <2>6 DEF Bump
    <3> QED BY <2>3, <2>4, <2>6, <3>1
            DEF IInv, ClosedBelowThreshold, OneStrike, OpenHasAge, HalfOpenCounts
  <2> QED BY <1>0, <2>1, <2>5, <2>6, SucceededEffect
<1>3. CASE CanExecute
  <2>1. /\ breaker' \in Breakers /\ breaker' = Asked(breaker)
        /\ breaker'.failures = breaker.failures /\ breaker'.age = breaker.age
    BY <1>0, <1>3, AskedEffect DEF CanExecute
  <2>2. TypeOK'
    BY <1>0, <1>3, <2>1 DEF CanExecute, TypeOK, Events
  <2>3. CASE breaker.state = "open" /\ breaker'.state = "half_open" /\ breaker'.successes = 0
    BY <1>0, <1>3, <2>1, <2>2, <2>3
       DEF CanExecute, IInv, ClosedBelowThreshold, OneStrike, OpenHasAge, HalfOpenCounts
  <2>4. CASE breaker' = breaker
    BY <1>3, <2>2, <2>4
       DEF CanExecute, IInv, ClosedBelowThreshold, OneStrike, OpenHasAge, HalfOpenCounts
  <2> QED BY <1>0, <2>1, <2>3, <2>4, AskedEffect
<1>4. CASE GetState
  BY <1>3, <1>4 DEF GetState
<1>5. CASE ForceOpen
  <2>1. /\ breaker' \in Breakers /\ breaker'.state = "open" /\ breaker'.age = 0
        /\ breaker'.failures = breaker.failures
    BY <1>0, <1>5, TripEffect DEF ForceOpen
  <2>2. TypeOK'
    BY <1>0, <1>5, <2>1 DEF ForceOpen, TypeOK, Events
  <2>3. ~forced' => breaker'.failures >= FailureThreshold
    <3>1. forced' <=> breaker.failures < FailureThreshold
      BY <1>5, Zenon DEF ForceOpen
    <3> QED BY <1>0, <2>1, <3>1
  <2> QED BY <2>1, <2>2, <2>3
          DEF IInv, ClosedBelowThreshold, OneStrike, OpenHasAge,
              HalfOpenCounts, NotOpened
<1>6. CASE ForceClose
  <2>1. breaker' \in Breakers /\ TypeOK'
    BY <1>0, <1>6, ClosedType DEF ForceClose, TypeOK, Events
  <2> QED BY <1>6, <2>1
          DEF ForceClose, Closed, IInv, ClosedBelowThreshold, OneStrike, OpenHasAge,
              HalfOpenCounts
<1>7. CASE Tick
  <2>1. /\ breaker' \in Breakers /\ breaker'.state = breaker.state
        /\ breaker'.failures = breaker.failures /\ breaker'.successes = breaker.successes
        /\ breaker.age # NotOpened =>
              breaker'.age = IF breaker.age + 1 < TimeoutDuration THEN breaker.age + 1
                             ELSE TimeoutDuration
    BY <1>0, <1>7, AgedEffect DEF Tick
  <2>2. breaker.age # NotOpened => breaker'.age # NotOpened
    BY <1>0, <2>1 DEF Breakers, NotOpened
  <2>3. TypeOK'
    BY <1>0, <1>7, <2>1 DEF Tick, TypeOK, Events
  <2> QED BY <1>7, <2>1, <2>2, <2>3
          DEF Tick, IInv, ClosedBelowThreshold, OneStrike, OpenHasAge, HalfOpenCounts
<1>8. CASE UNCHANGED vars
  BY <1>8 DEF vars, IInv, TypeOK, ClosedBelowThreshold, OneStrike, OpenHasAge, HalfOpenCounts
<1> QED BY <1>1, <1>2, <1>3, <1>4, <1>5, <1>6, <1>7, <1>8 DEF Next

\* Every invariant holds for every value of the constants.
THEOREM Invariance == Spec => []IInv
<1>1. Init => IInv
  BY InitInv
<1>2. IInv /\ [Next]_vars => IInv'
  BY StepInv
<1> QED BY <1>1, <1>2, PTL DEF Spec

\* The fields keep their ranges.
THEOREM TypeCorrect == Spec => []TypeOK
BY Invariance, PTL DEF IInv

\* record_failure never leaves a breaker closed with a full failure count.
THEOREM ClosedHasRoom == Spec => []ClosedBelowThreshold
BY Invariance, PTL DEF IInv

\* One failed probe opens a half-open breaker that failures had opened.
THEOREM OneStrikeOpens == Spec => []OneStrike
BY Invariance, PTL DEF IInv
-----------------------------------------------------------------------------
\* Only successes reported since the breaker became half open close it.
THEOREM ClosesAfterProbes == Spec => ProbedBeforeClosing
<1> DEFINE Probed == breaker.state # "closed" /\ breaker'.state = "closed"
                        /\ last' # "forced_closed"
                     => breaker.state = "half_open" /\ probes' >= SuccessThreshold
<1>1. IInv /\ [Next]_vars => [Probed]_vars
  <2> SUFFICES ASSUME IInv, Next PROVE Probed
    OBVIOUS
  <2> USE BreakerAssumption
  <2>0. breaker \in Breakers /\ probes \in 0..CountCap /\ breaker.failures \in 0..CountCap
    BY DEF IInv, TypeOK, Breakers
  <2>1. CASE RecordFailure
    <3>1. breaker'.state = breaker.state \/ breaker'.state = "open"
      BY <2>0, <2>1, FailedEffect, BumpBounds DEF RecordFailure
    <3> QED BY <3>1
  <2>2. CASE RecordSuccess
    <3>1. \/ breaker'.state = breaker.state
          \/ breaker.state = "half_open" /\ Bump(breaker.successes) >= SuccessThreshold
      BY <2>0, <2>2, SucceededEffect DEF RecordSuccess
    <3>2. breaker.state = "half_open" => Bump(breaker.successes) <= Bump(probes)
      BY <2>0 DEF IInv, HalfOpenCounts, Bump, Breakers
    <3>3. Bump(breaker.successes) \in Int /\ Bump(probes) \in Int
      BY <2>0 DEF Bump, Breakers
    <3> QED BY <2>2, <3>1, <3>2, <3>3 DEF RecordSuccess
  <2>3. CASE CanExecute
    BY <2>0, <2>3, AskedEffect DEF CanExecute
  <2>4. CASE GetState
    BY <2>3, <2>4 DEF GetState
  <2>5. CASE ForceOpen
    BY <2>0, <2>5, TripEffect DEF ForceOpen
  <2>6. CASE ForceClose
    BY <2>6 DEF ForceClose
  <2>7. CASE Tick
    BY <2>0, <2>7, AgedEffect DEF Tick
  <2> QED BY <2>1, <2>2, <2>3, <2>4, <2>5, <2>6, <2>7 DEF Next
<1> QED BY <1>1, Invariance, PTL DEF Spec, ProbedBeforeClosing
-----------------------------------------------------------------------------
(* The refinement.                                                         *)

\* A new breaker is an untripped gate.
LEMMA GateInit == Init => Gate!Init
BY DEF Init, Closed, Gate!Init

\* Every method is a step of the gate, or leaves it alone.
LEMMA GateStep == IInv /\ [Next]_vars => [Gate!Next]_(Gate!vars)
<1> SUFFICES ASSUME IInv, [Next]_vars PROVE [Gate!Next]_(Gate!vars)
  OBVIOUS
<1> USE BreakerAssumption
<1>0. /\ breaker \in Breakers /\ breaker.failures \in 0..CountCap
      /\ breaker.state = "open" => breaker.age \in 0..TimeoutDuration
  BY DEF IInv, TypeOK, Breakers, OpenHasAge
<1>1. CASE RecordFailure
  <2>1. \/ breaker'.state = "open" /\ breaker'.age = 0
        \/ breaker'.state = breaker.state /\ breaker'.age = breaker.age
    <3>1. Bump(breaker.failures) \in 0..CountCap
      BY <1>0, BumpBounds
    <3> QED BY <1>0, <1>1, <3>1, FailedEffect DEF RecordFailure
  <2>2. last' = "failure"
    BY <1>1 DEF RecordFailure
  <2>3. CASE breaker'.state = "open" /\ breaker'.age = 0
    <3>1. Gate!Trip
      BY <2>2, <2>3 DEF Gate!Trip, NotOpened
    <3> QED BY <3>1 DEF Gate!Next
  <2>4. CASE breaker'.state = breaker.state /\ breaker'.age = breaker.age
    <3>1. Gate!Tolerate
      BY <2>2, <2>4 DEF Gate!Tolerate
    <3> QED BY <3>1 DEF Gate!Next
  <2> QED BY <2>1, <2>3, <2>4
<1>2. CASE RecordSuccess
  <2>1. \/ breaker.state = "half_open" /\ breaker' = Closed
        \/ breaker'.state = breaker.state /\ breaker'.age = breaker.age
    BY <1>0, <1>2, SucceededEffect DEF RecordSuccess
  <2>2. last' = "success"
    BY <1>2 DEF RecordSuccess
  <2>3. Gate!Settle
    BY <2>1, <2>2 DEF Gate!Settle, Closed
  <2> QED BY <2>3 DEF Gate!Next
<1>3. CASE CanExecute
  <2>1. CASE breaker.state = "open" /\ ~ShouldAttemptReset(breaker)
    <3>1. breaker' = breaker /\ last' = "denied"
      BY <1>3, <2>1 DEF CanExecute, Asked, Permits
    <3>2. breaker.age # NotOpened /\ breaker.age < TimeoutDuration
      BY <1>0, <2>1 DEF ShouldAttemptReset, NotOpened
    <3>3. Gate!Deny
      BY <2>1, <3>1, <3>2 DEF Gate!Deny
    <3> QED BY <3>3 DEF Gate!Next
  <2>2. CASE breaker.state # "open" \/ ShouldAttemptReset(breaker)
    <3>1. last' = "granted" /\ breaker'.age = breaker.age /\ breaker'.state # "open"
      BY <1>0, <1>3, <2>2 DEF CanExecute, Permits, Asked, Breakers
    <3>2. breaker.state = "open" => breaker.age = TimeoutDuration
      BY <1>0, <2>2 DEF ShouldAttemptReset
    <3>3. Gate!Grant
      BY <3>1, <3>2 DEF Gate!Grant
    <3> QED BY <3>3 DEF Gate!Next
  <2> QED BY <2>1, <2>2
<1>4. CASE GetState
  BY <1>3, <1>4 DEF GetState
<1>5. CASE ForceOpen
  <2>1. breaker'.state = "open" /\ breaker'.age = 0 /\ last' = "forced_open"
    BY <1>0, <1>5, TripEffect DEF ForceOpen
  <2>2. Gate!Trip
    BY <2>1 DEF Gate!Trip, NotOpened
  <2> QED BY <2>2 DEF Gate!Next
<1>6. CASE ForceClose
  <2>1. Gate!Override
    BY <1>6 DEF ForceClose, Closed, Gate!Override
  <2> QED BY <2>1 DEF Gate!Next
<1>7. CASE Tick
  <2>1. last' = "tick" /\ breaker'.state = breaker.state
    BY <1>0, <1>7, AgedEffect DEF Tick
  <2>2. CASE breaker.age = NotOpened
    <3>1. breaker'.age = NotOpened
      BY <1>0, <1>7, <2>2, AgedEffect DEF Tick
    <3>2. Gate!Wait
      BY <2>1, <2>2, <3>1 DEF Gate!Wait
    <3> QED BY <3>2 DEF Gate!Next
  <2>3. CASE breaker.age # NotOpened
    <3>1. breaker'.age = IF breaker.age + 1 < TimeoutDuration THEN breaker.age + 1
                         ELSE TimeoutDuration
      BY <1>0, <1>7, <2>3, AgedEffect DEF Tick
    <3>2. breaker.age \in 0..TimeoutDuration /\ breaker'.age # NotOpened
      BY <1>0, <2>3, <3>1 DEF Breakers, NotOpened
    <3>3. Gate!Wait
      BY <2>1, <2>3, <3>1, <3>2 DEF Gate!Wait
    <3> QED BY <3>3 DEF Gate!Next
  <2> QED BY <2>2, <2>3
<1>8. CASE UNCHANGED vars
  BY <1>8 DEF vars, Gate!vars
<1> QED BY <1>1, <1>2, <1>3, <1>4, <1>5, <1>6, <1>7, <1>8 DEF Next

\* The breaker implements the gate: no sequence of reports lets a caller through
\* before the cool-down after the latest trip is over.
THEOREM Refinement == Spec => ImplementsGate
<1>1. Init => Gate!Init
  BY GateInit
<1>2. IInv /\ [Next]_vars => [Gate!Next]_(Gate!vars)
  BY GateStep
<1> QED BY <1>1, <1>2, Invariance, PTL DEF Spec, ImplementsGate, Gate!Spec
-----------------------------------------------------------------------------
(* The ensemble: the prices of the strategies, and the last crossing told. *)

Given == TickPrices \cup {0}

EnsembleInv ==
  /\ history \in Seq(Given) /\ Len(history) <= slow_window + period
  /\ told # Vote!None => Len(history) >= slow_window
  /\ Vote!TrendWasTold /\ Vote!HoldUnlessRaised

\* The last elements of a sequence, if it has as many.
LEMMA LastOfIs ==
    ASSUME NEW S, NEW s \in Seq(S), NEW n \in Nat \ {0}, n <= Len(s)
    PROVE  /\ Vote!LastOf(s, n) \in Seq(S) /\ Len(Vote!LastOf(s, n)) = n
           /\ \A i \in 1..n : Vote!LastOf(s, n)[i] = s[Len(s) - n + i]
<1>1. Len(s) \in Nat /\ \A i \in 1..Len(s) : s[i] \in S
  BY LenProperties
<1> DEFINE m == Len(s) - n + 1
<1>2. (IF Len(s) > n THEN Len(s) - n + 1 ELSE 1) = m
  BY <1>1
<1>3. Vote!LastOf(s, n) = SubSeq(s, m, Len(s))
  BY <1>2, Zenon DEF Vote!LastOf
<1>4. m \in 1..Len(s) /\ m \in Int /\ Len(s) \in Int /\ (\A i \in m..Len(s) : s[i] \in S)
  BY <1>1
<1>5. Len(s) - m + 1 = n /\ \A i \in 1..n : m + i - 1 = Len(s) - n + i
  BY <1>1
<1> HIDE DEF m
<1>6. /\ SubSeq(s, m, Len(s)) \in Seq(S)
      /\ Len(SubSeq(s, m, Len(s))) = IF m <= Len(s) THEN Len(s) - m + 1 ELSE 0
      /\ \A i \in 1..Len(s) - m + 1 : SubSeq(s, m, Len(s))[i] = s[m + i - 1]
  BY <1>4, SubSeqProperties
<1> QED BY <1>3, <1>4, <1>5, <1>6

\* A sequence that has fewer elements stays whole.
LEMMA LastOfWhole ==
    ASSUME NEW S, NEW s \in Seq(S), NEW n \in Nat, Len(s) <= n
    PROVE  Vote!LastOf(s, n) = s
<1>1. Len(s) \in Nat /\ \A i \in 1..Len(s) : s[i] \in S
  BY LenProperties
<1>2. Vote!LastOf(s, n) = SubSeq(s, 1, Len(s))
  <2>1. (IF Len(s) > n THEN Len(s) - n + 1 ELSE 1) = 1
    BY <1>1
  <2> QED BY <2>1, Zenon DEF Vote!LastOf
<1>3. /\ SubSeq(s, 1, Len(s)) \in Seq(S) /\ Len(SubSeq(s, 1, Len(s))) = Len(s)
      /\ \A i \in 1..Len(s) : SubSeq(s, 1, Len(s))[i] = s[i]
  <2>1. /\ SubSeq(s, 1, Len(s)) \in Seq(S)
        /\ Len(SubSeq(s, 1, Len(s))) = IF 1 <= Len(s) THEN Len(s) - 1 + 1 ELSE 0
        /\ \A i \in 1..Len(s) - 1 + 1 : SubSeq(s, 1, Len(s))[i] = s[1 + i - 1]
    BY <1>1, SubSeqProperties
  <2> QED BY <1>1, <2>1
<1>4. SubSeq(s, 1, Len(s)) = s
  BY <1>3, SeqEqual
<1> QED BY <1>2, <1>4

\* All but the last element.
LEMMA FrontIs ==
    ASSUME NEW S, NEW s \in Seq(S), Len(s) >= 1
    PROVE  /\ Vote!Front(s) \in Seq(S) /\ Len(Vote!Front(s)) = Len(s) - 1
           /\ \A i \in 1..Len(s) - 1 : Vote!Front(s)[i] = s[i]
<1> DEFINE n == Len(s) - 1
           front == SubSeq(s, 1, n)
<1>1. Len(s) \in Nat /\ \A i \in 1..Len(s) : s[i] \in S
  BY LenProperties
<1>2. n \in Nat /\ 1 \in Int /\ n \in Int /\ \A i \in 1..n : s[i] \in S
  BY <1>1
<1>3. Vote!Front(s) = front
  BY DEF Vote!Front
<1> HIDE DEF n
<1>4. /\ front \in Seq(S) /\ Len(front) = IF 1 <= n THEN n - 1 + 1 ELSE 0
      /\ \A i \in 1..n - 1 + 1 : front[i] = s[1 + i - 1]
  BY <1>2, SubSeqProperties
<1> HIDE DEF front
<1>5. n - 1 + 1 = n /\ (IF 1 <= n THEN n - 1 + 1 ELSE 0) = n /\ \A i \in 1..n : 1 + i - 1 = i
  BY <1>2
<1> QED BY <1>3, <1>4, <1>5 DEF n

\* What the strategies are given next is one price more, and at most as many as they keep.
LEMMA FedIs ==
    ASSUME NEW s \in Seq(Given), Len(s) <= slow_window + period, NEW price \in Given
    PROVE  LET fed == Vote!LastOf(Append(s, price), slow_window + period)
           IN  /\ fed \in Seq(Given) /\ Len(fed) >= 1 /\ Len(fed) <= slow_window + period
               /\ Len(fed) = Len(s) + 1 \/ (Len(fed) = Len(s) /\ Len(s) = slow_window + period)
               /\ \A i \in 1..Len(fed) - 1 : fed[i] = s[i + Len(s) + 1 - Len(fed)]
<1> DEFINE fuller == Append(s, price)
           most == slow_window + period
           fed == Vote!LastOf(fuller, most)
<1>1. /\ fuller \in Seq(Given) /\ Len(fuller) = Len(s) + 1 /\ Len(s) \in Nat
      /\ \A i \in 1..Len(s) : fuller[i] = s[i]
  BY AppendProperties, LenProperties
<1>2. most \in Nat \ {0} /\ Len(s) <= most
  BY ModelsAssumption
<1> HIDE DEF fuller, most
<1>3. /\ fed \in Seq(Given) /\ Len(fed) >= 1 /\ Len(fed) <= most
      /\ Len(fed) = Len(s) + 1 \/ (Len(fed) = Len(s) /\ Len(s) = most)
      /\ \A i \in 1..Len(fed) - 1 : fed[i] = s[i + Len(s) + 1 - Len(fed)]
  <2>1. CASE Len(s) < most
    <3>1. fed = fuller
      BY <1>1, <1>2, <2>1, LastOfWhole
    <3> QED BY <1>1, <1>2, <2>1, <3>1
  <2>2. CASE Len(s) = most
    <3>0. most <= Len(fuller)
      BY <1>1, <1>2, <2>2
    <3>1. /\ fed \in Seq(Given) /\ Len(fed) = most
          /\ \A i \in 1..most : fed[i] = fuller[Len(fuller) - most + i]
      <4>1. most \in Nat \ {0} /\ fuller \in Seq(Given)
        BY <1>1, <1>2
      <4> QED BY <3>0, <4>1, LastOfIs, Zenon
    <3> HIDE DEF fed
    <3>2. \A i \in 1..Len(fed) - 1 : fed[i] = s[i + Len(s) + 1 - Len(fed)]
      <4> SUFFICES ASSUME NEW i \in 1..Len(fed) - 1 PROVE fed[i] = s[i + Len(s) + 1 - Len(fed)]
        OBVIOUS
      <4>1. fed[i] = fuller[i + 1] /\ i + 1 \in 1..Len(s)
        BY <1>1, <1>2, <2>2, <3>1
      <4>2. i + Len(s) + 1 - Len(fed) = i + 1
        BY <1>1, <1>2, <2>2, <3>1
      <4> QED BY <1>1, <4>1, <4>2
    <3> QED BY <1>1, <1>2, <2>2, <3>1, <3>2
  <2> QED BY <1>1, <1>2, <2>1, <2>2
<1> QED BY <1>3 DEF fuller, most

\* The averages before a price are those that were taken with the one before it.
LEMMA LastsStay ==
    ASSUME NEW s \in Seq(Given), Len(s) <= slow_window + period, NEW price \in Given,
           NEW n \in 1..slow_window, slow_window <= Len(s)
    PROVE  Vote!LastOf(Vote!Front(Vote!LastOf(Append(s, price), slow_window + period)), n) = Vote!LastOf(s, n)
<1> DEFINE fed == Vote!LastOf(Append(s, price), slow_window + period)
           before == Vote!Front(fed)
<1>0. /\ slow_window \in Nat \ {0} /\ period \in Nat \ {0} /\ n \in Nat \ {0} /\ Len(s) \in Nat
      /\ n <= Len(s)
  BY ModelsAssumption, LenProperties
<1>1. /\ fed \in Seq(Given) /\ Len(fed) >= 1 /\ Len(fed) <= slow_window + period
      /\ Len(fed) = Len(s) + 1 \/ (Len(fed) = Len(s) /\ Len(s) = slow_window + period)
      /\ \A i \in 1..Len(fed) - 1 : fed[i] = s[i + Len(s) + 1 - Len(fed)]
  BY FedIs
<1> HIDE DEF fed
<1>2. /\ before \in Seq(Given) /\ Len(before) = Len(fed) - 1
      /\ \A i \in 1..Len(fed) - 1 : before[i] = fed[i]
  BY <1>1, FrontIs
<1> HIDE DEF before
<1>3. n <= Len(before)
  BY <1>0, <1>1, <1>2
<1>4. /\ Vote!LastOf(before, n) \in Seq(Given) /\ Len(Vote!LastOf(before, n)) = n
      /\ \A i \in 1..n : Vote!LastOf(before, n)[i] = before[Len(before) - n + i]
  BY <1>0, <1>2, <1>3, LastOfIs
<1>5. /\ Vote!LastOf(s, n) \in Seq(Given) /\ Len(Vote!LastOf(s, n)) = n
      /\ \A i \in 1..n : Vote!LastOf(s, n)[i] = s[Len(s) - n + i]
  BY <1>0, LastOfIs
<1>6. ASSUME NEW i \in 1..n PROVE before[Len(before) - n + i] = s[Len(s) - n + i]
  <2>1. Len(before) - n + i \in 1..Len(fed) - 1
    BY <1>0, <1>1, <1>2, <1>3
  <2>2. before[Len(before) - n + i] = s[Len(before) - n + i + Len(s) + 1 - Len(fed)]
    BY <1>1, <1>2, <2>1
  <2>3. Len(before) - n + i + Len(s) + 1 - Len(fed) = Len(s) - n + i
    BY <1>0, <1>1, <1>2
  <2> QED BY <2>2, <2>3
<1>7. Vote!LastOf(before, n) = Vote!LastOf(s, n)
  BY <1>4, <1>5, <1>6, SeqEqual
<1> QED BY <1>7 DEF before, fed

\* The side before a price is the one that was told, or not, with the price before it.
LEMMA SideStays ==
    ASSUME NEW s \in Seq(Given), Len(s) <= slow_window + period, NEW price \in Given,
           slow_window <= Len(s)
    PROVE  Vote!Side(Vote!Front(Vote!LastOf(Append(s, price), slow_window + period))) = Vote!Side(s)
<1>1. fast_window \in 1..slow_window /\ slow_window \in 1..slow_window
  BY ModelsAssumption
<1> QED BY <1>1, LastsStay DEF Vote!Side, Vote!Above, Vote!Below, Vote!Fast, Vote!Slow

\* Two votes can be counted.
LEMMA VotesIs ==
    ASSUME NEW vote, NEW i \in {1, 2}
    PROVE  Vote!Votes(<<"hold", vote>>, i) \in Nat
<1> DEFINE two == <<"hold", vote>>
           same == {j \in DOMAIN two : two[j] = two[i]}
<1>1. DOMAIN two = 1..2
  OBVIOUS
<1>2. IsFiniteSet(1..2)
  <2>1. 1 \in Int /\ 2 \in Int
    OBVIOUS
  <2> QED BY <2>1, FS_Interval, Zenon
<1>3. Cardinality(same) \in Nat
  BY <1>1, <1>2, FS_Subset, FS_CardinalityType
<1> QED BY <1>3, Zenon DEF Vote!Votes, Vote!Cardinality, Cardinality

\* The tree's vote comes first, and one other has no more votes than it.
LEMMA TreeWins ==
    ASSUME NEW vote
    PROVE  Vote!Combined(<<"hold">>) = "hold" /\ Vote!Combined(<<"hold", vote>>) = "hold"
<1> DEFINE first1 == CHOOSE i \in DOMAIN <<"hold">> : \A j \in DOMAIN <<"hold">> :
          Vote!Votes(<<"hold">>, j) < Vote!Votes(<<"hold">>, i)
            \/ (Vote!Votes(<<"hold">>, j) = Vote!Votes(<<"hold">>, i) /\ i <= j)
           two == <<"hold", vote>>
           Best(i) == \A j \in DOMAIN two :
             Vote!Votes(two, j) < Vote!Votes(two, i) \/ (Vote!Votes(two, j) = Vote!Votes(two, i) /\ i <= j)
<1>1. Vote!Combined(<<"hold">>) = "hold"
  <2>1. DOMAIN <<"hold">> = {1} /\ <<"hold">>[1] = "hold"
    OBVIOUS
  <2>2. \A j \in {1} : Vote!Votes(<<"hold">>, j) = Vote!Votes(<<"hold">>, 1) /\ 1 <= j
    OBVIOUS
  <2>3. \E i \in {1} : \A j \in {1} : Vote!Votes(<<"hold">>, j) < Vote!Votes(<<"hold">>, i)
            \/ (Vote!Votes(<<"hold">>, j) = Vote!Votes(<<"hold">>, i) /\ i <= j)
    BY <2>2
  <2>4. first1 \in {1}
    BY <2>1, <2>3
  <2> QED BY <2>1, <2>4 DEF Vote!Combined
<1>2. Vote!Combined(two) = "hold"
  <2>1. DOMAIN two = {1, 2} /\ two[1] = "hold" /\ two[2] = vote
    OBVIOUS
  <2>2. Best(1)
    <3>1. Vote!Votes(two, 1) = Vote!Votes(two, 1) /\ 1 <= 1
      OBVIOUS
    <3>2. CASE vote = "hold"
      BY <2>1, <3>2 DEF Vote!Votes
    <3>3. CASE vote # "hold"
      <4>1. {j \in DOMAIN two : two[j] = two[1]} = {1} /\ {j \in DOMAIN two : two[j] = two[2]} = {2}
        BY <2>1, <3>3
      <4>2. Vote!Votes(two, 1) = Cardinality({1}) /\ Vote!Votes(two, 2) = Cardinality({2})
        BY <4>1, Zenon DEF Vote!Votes, Vote!Cardinality, Cardinality, Vote!IsFiniteSet, IsFiniteSet
      <4>3. Vote!Votes(two, 1) = 1 /\ Vote!Votes(two, 2) = 1
        BY <4>2, FS_Singleton
      <4> QED BY <2>1, <4>3
    <3> QED BY <3>2, <3>3
  <2>3. \A i \in DOMAIN two : Best(i) => i = 1
    <3> SUFFICES ASSUME Best(2) PROVE FALSE
      BY <2>1
    <3>1. Vote!Votes(two, 1) < Vote!Votes(two, 2)
      BY <2>1
    <3>2. Vote!Votes(two, 2) < Vote!Votes(two, 1) \/ Vote!Votes(two, 2) = Vote!Votes(two, 1)
      BY <2>1, <2>2
    <3>3. Vote!Votes(two, 1) \in Int /\ Vote!Votes(two, 2) \in Int
      BY VotesIs
    <3> QED BY <3>1, <3>2, <3>3
  <2> QED BY <2>1, <2>2, <2>3 DEF Vote!Combined
<1> QED BY <1>1, <1>2

\* A vote that was held is to hold.
LEMMA VoteHolds ==
    ASSUME NEW price, NEW window, NEW collects, Vote!Signal(price, window, collects)
    PROVE  Vote!HoldUnlessRaised'
<1> HIDE DEF Vote!Combined
<1>1. \A vote : Vote!Combined(<<"hold">>) = "hold" /\ Vote!Combined(<<"hold", vote>>) = "hold"
  BY TreeWins
<1> DEFINE updates == price > 0 /\ Vote!Least(seen + 1, RegimeWindow) = RegimeWindow
           raised == updates /\ Vote!Divides(Vote!Observed(window, price))
<1>2. \E proposed, vote : answer' = [action |-> IF raised THEN proposed
            ELSE Vote!Combined(IF model = {} THEN <<Vote!TreeVote>> ELSE <<Vote!TreeVote, vote>>), voted |-> ~raised]
  BY Zenon DEF Vote!Signal
<1> HIDE DEF raised
<1>3. \E action : answer' = [action |-> action, voted |-> ~raised] /\ (~raised => action = "hold")
  BY <1>1, <1>2 DEF Vote!TreeVote
<1>4. PICK action : answer' = [action |-> action, voted |-> ~raised] /\ (~raised => action = "hold")
  BY <1>3, Zenon
<1>5. answer'.action = action /\ answer'.voted = ~raised
  BY <1>4, Zenon
<1>6. raised \in BOOLEAN
  BY DEF raised
<1> QED BY <1>4, <1>5, <1>6, Zenon DEF Vote!HoldUnlessRaised

\* What a signal tells keeps the crossing that was told true.
LEMMA SignalTells ==
    ASSUME EnsembleInv, NEW price \in Given, NEW window, NEW collects, Vote!Signal(price, window, collects)
    PROVE  EnsembleInv'
<1>0. Vote!HoldUnlessRaised'
  BY VoteHolds
<1>1. /\ history \in Seq(Given) /\ Len(history) \in Nat /\ Len(history) <= slow_window + period
      /\ slow_window \in Nat /\ period \in Nat \ {0} /\ fast_window \in 1..slow_window
  BY LenProperties, ModelsAssumption DEF EnsembleInv
<1>2. CASE ~Vote!Usable(price)
  <2>1. history' = history /\ told' = told
    BY <1>2 DEF Vote!Signal, Vote!Fed
  <2>2. Vote!Side(history)' = Vote!Side(history)
    BY <2>1
  <2> QED BY <1>0, <2>1, <2>2 DEF EnsembleInv, Vote!TrendWasTold
<1>3. CASE Vote!Usable(price)
  <2>1. /\ history' = Vote!LastOf(Append(history, price), slow_window + period)
        /\ told' = IF Vote!Crossing(history') # Vote!None THEN Vote!Crossing(history') ELSE told
    BY <1>3 DEF Vote!Signal, Vote!Fed
  <2>2. /\ history' \in Seq(Given) /\ Len(history') <= slow_window + period
        /\ Len(history') = Len(history) + 1 \/ (Len(history') = Len(history) /\ Len(history) = slow_window + period)
    BY <1>1, <2>1, FedIs
  <2>3. Len(history) >= slow_window => Len(history') >= slow_window
    BY <1>1, <2>2
  <2>4. Vote!Crossing(history') # Vote!None => Len(history') >= slow_window /\ Vote!Crossing(history') = Vote!Side(history')
    BY DEF Vote!Crossing
  <2>5. told' # Vote!None => Len(history') >= slow_window
    BY <2>1, <2>3, <2>4 DEF EnsembleInv
  <2>6. ASSUME told' # Vote!None, Vote!Side(history') # Vote!None
        PROVE  told' = Vote!Side(history')
    <3>1. CASE Vote!Crossing(history') # Vote!None
      BY <2>1, <2>4, <3>1
    <3>2. CASE Vote!Crossing(history') = Vote!None
      <4>1. told' = told /\ Len(history) >= slow_window /\ Len(history') >= slow_window
        BY <2>1, <2>3, <2>6, <3>2 DEF EnsembleInv
      <4>2. Vote!Side(Vote!Front(history')) = Vote!Side(history')
        BY <2>6, <3>2, <4>1 DEF Vote!Crossing
      <4>3. Vote!Side(Vote!Front(history')) = Vote!Side(history)
        BY <1>1, <2>1, <4>1, SideStays
      <4> QED BY <2>6, <4>1, <4>2, <4>3 DEF EnsembleInv, Vote!TrendWasTold
    <3> QED BY <3>1, <3>2
  <2>7. Vote!TrendWasTold'
    BY <2>6 DEF Vote!TrendWasTold
  <2> QED BY <1>0, <2>2, <2>5, <2>7 DEF EnsembleInv
<1> QED BY <1>2, <1>3

\* Nothing was told of no prices.
LEMMA EnsembleInit == Vote!Init => EnsembleInv
<1> SUFFICES ASSUME Vote!Init PROVE EnsembleInv
  OBVIOUS
<1>1. history = <<>> /\ told = Vote!None /\ answer = [action |-> "hold", voted |-> TRUE]
  BY DEF Vote!Init
<1>2. <<>> \in Seq(Given) /\ Len(<<>>) = 0 /\ 0 <= slow_window + period
  BY ModelsAssumption
<1> QED BY <1>1, <1>2 DEF EnsembleInv, Vote!TrendWasTold, Vote!HoldUnlessRaised

\* Prices, answers and what is told stay as they are.
LEMMA EnsembleSame == EnsembleInv /\ UNCHANGED <<history, told, answer>> => EnsembleInv'
<1> SUFFICES ASSUME EnsembleInv, UNCHANGED <<history, told, answer>> PROVE EnsembleInv'
  OBVIOUS
<1>1. Vote!Side(history)' = Vote!Side(history)
  OBVIOUS
<1> QED BY <1>1 DEF EnsembleInv, Vote!TrendWasTold, Vote!HoldUnlessRaised

\* Whoever asks, the ensemble keeps its invariant.
LEMMA EnsembleStep == EnsembleInv /\ Vote!Next => EnsembleInv'
<1> SUFFICES ASSUME EnsembleInv, NEW price \in Given,
                    Vote!Bar(price) \/ Vote!Dashboard(price) \/ Vote!Report(price)
             PROVE  EnsembleInv'
  BY DEF Vote!Next, Given
<1>1. UNCHANGED <<history, told, answer>> \/ \E window, collects : Vote!Signal(price, window, collects)
  BY Zenon DEF Vote!Bar, Vote!Dashboard, Vote!Report
<1> QED BY <1>1, SignalTells, EnsembleSame

\* Where the ensemble stands still, nothing changes for it.
LEMMA EnsembleStays == EnsembleInv /\ UNCHANGED ensembleVars => EnsembleInv'
BY EnsembleSame DEF ensembleVars
-----------------------------------------------------------------------------
(* The learning: the model that was saved.                                 *)

\* A number counts the retrainings of a model there is.
Counted(number, exists) == number \in Nat /\ (number > 0 => exists = TRUE)

\* What the last save that succeeded wrote is in the file, if there was one, unless it was
\* spoiled or is being replaced.
FileIsSaved ==
  \/ spoiled \/ at = "dump"
  \/ Learn!Whole /\ file.retrain_count = saved.retrain_count /\ file.model = saved.model
  \/ saved.retrain_count = 0 /\ saved.model = FALSE

LearningInv ==
  /\ Counted(retrain_count, learned) /\ learned \in BOOLEAN
  /\ Counted(file.retrain_count, file.model) /\ file.model \in BOOLEAN
  /\ Counted(saved.retrain_count, saved.model) /\ saved.model \in BOOLEAN
  /\ spoiled \in BOOLEAN /\ FileIsSaved
  /\ Learn!SavedIsKept

\* An emptied file holds nothing.
LEMMA EmptiedIs == Learn!Emptied.model = FALSE /\ Learn!Emptied.retrain_count = 0
BY DEF Learn!Emptied, Learn!NoFile

\* A bar, a trade or an order never lowers the number, nor takes the model away, and the file stays.
LEMMA LearnsOnly ==
    ASSUME LearningInv, at # "down", at # "dump", at' # "dump", UNCHANGED <<file, saved, spoiled>>,
           UNCHANGED <<learned, retrain_count>>
             \/ (learned' = TRUE /\ retrain_count' \in {retrain_count, retrain_count + 1})
    PROVE  LearningInv'
<1>1. /\ Counted(retrain_count, learned)' /\ learned' \in BOOLEAN
      /\ retrain_count' >= retrain_count /\ (learned = TRUE => learned' = TRUE)
  <2>0. retrain_count \in Nat
    BY DEF LearningInv, Counted
  <2>1. CASE UNCHANGED <<learned, retrain_count>>
    BY <2>0, <2>1 DEF LearningInv, Counted
  <2>2. CASE learned' = TRUE /\ retrain_count' \in {retrain_count, retrain_count + 1}
    BY <2>0, <2>2 DEF Counted
  <2> QED BY <2>1, <2>2
<1>2. saved.retrain_count \in Nat /\ retrain_count \in Nat /\ retrain_count' \in Nat
  BY <1>1 DEF LearningInv, Counted
<1>3. spoiled \/ (retrain_count' >= saved.retrain_count /\ (saved.model => learned' = TRUE))
  BY <1>1, <1>2 DEF LearningInv, Learn!SavedIsKept
<1>4. Learn!SavedIsKept'
  BY <1>3 DEF Learn!SavedIsKept
<1>5. FileIsSaved'
  BY DEF LearningInv, FileIsSaved, Learn!Whole
<1> QED BY <1>1, <1>4, <1>5 DEF LearningInv, Counted

\* There is neither a model nor a file.
LEMMA LearningInit == Learn!Init => LearningInv
<1> SUFFICES ASSUME Learn!Init PROVE LearningInv
  OBVIOUS
<1>1. /\ retrain_count = 0 /\ learned = FALSE /\ spoiled = FALSE
      /\ file.retrain_count = 0 /\ file.model = FALSE
      /\ saved.retrain_count = 0 /\ saved.model = FALSE
  BY DEF Learn!Init, Learn!NoFile, Learn!Knowledge
<1>2. /\ Counted(retrain_count, learned) /\ Counted(file.retrain_count, file.model)
      /\ Counted(saved.retrain_count, saved.model)
  BY <1>1 DEF Counted
<1>3. Learn!SavedIsKept /\ FileIsSaved
  BY <1>1 DEF Learn!SavedIsKept, FileIsSaved
<1>4. learned \in BOOLEAN /\ file.model \in BOOLEAN /\ saved.model \in BOOLEAN /\ spoiled \in BOOLEAN
  BY <1>1, Zenon
<1> QED BY <1>2, <1>3, <1>4, Zenon DEF LearningInv

\* Retraining only adds to what is known.
LEMMA RetrainAdds ==
    ASSUME NEW experiences, Learn!Retrain(experiences)
    PROVE  UNCHANGED <<learned, retrain_count>>
             \/ (learned' = TRUE /\ retrain_count' \in {retrain_count, retrain_count + 1})
BY DEF Learn!Retrain, Learn!learned

\* A vote, which may retrain, only adds to what is known.
LEMMA VoteAdds ==
    ASSUME Learn!Vote
    PROVE  UNCHANGED <<learned, retrain_count>>
             \/ (learned' = TRUE /\ retrain_count' \in {retrain_count, retrain_count + 1})
BY RetrainAdds, Zenon DEF Learn!Vote, Learn!learned

\* The learning keeps its invariant.
LEMMA LearningStep == LearningInv /\ Learn!Next => LearningInv'
<1> SUFFICES ASSUME LearningInv, Learn!Next PROVE LearningInv'
  OBVIOUS
<1>1. CASE Learn!Bar
  <2>1. at = "bar" /\ (at' = at \/ at' = "trade") /\ UNCHANGED <<file, saved, spoiled>>
    BY <1>1 DEF Learn!Bar, Learn!saves
  <2>2. UNCHANGED <<learned, retrain_count>>
          \/ (learned' = TRUE /\ retrain_count' \in {retrain_count, retrain_count + 1})
    BY <1>1, VoteAdds, Zenon DEF Learn!Bar, Learn!learned
  <2> QED BY <2>1, <2>2, LearnsOnly
<1>2. CASE Learn!Open
  BY <1>2, LearnsOnly DEF Learn!Open, Learn!learned, Learn!saves
<1>3. CASE Learn!Close
  <2>1. at = "trade" /\ (at' = "collect" \/ at' = "save") /\ UNCHANGED <<file, saved, spoiled>>
    BY <1>3 DEF Learn!Close, Learn!saves
  <2>2. UNCHANGED <<learned, retrain_count>>
          \/ (learned' = TRUE /\ retrain_count' \in {retrain_count, retrain_count + 1})
    BY <1>3, RetrainAdds, Zenon DEF Learn!Close, Learn!learned
  <2> QED BY <2>1, <2>2, LearnsOnly
<1>4. CASE Learn!NoTrade
  BY <1>4, LearnsOnly DEF Learn!NoTrade, Learn!learned, Learn!saves
<1>5. CASE Learn!Truncate
  <2>0. at = "save" /\ UNCHANGED <<learned, retrain_count, saved, spoiled>>
    BY <1>5 DEF Learn!Truncate, Learn!learned
  <2>1. CASE at' = "collect" /\ UNCHANGED file
    BY <2>0, <2>1, LearnsOnly
  <2>2. CASE at' = "dump" /\ file' = Learn!Emptied
    <3>1. file'.model = FALSE /\ file'.retrain_count = 0
      BY <2>2, EmptiedIs
    <3>2. /\ Counted(retrain_count, learned)' /\ Counted(file.retrain_count, file.model)'
          /\ Counted(saved.retrain_count, saved.model)'
      BY <2>0, <3>1 DEF LearningInv, Counted
    <3>3. Learn!SavedIsKept' /\ FileIsSaved'
      BY <2>0, <2>2 DEF LearningInv, Learn!SavedIsKept, FileIsSaved
    <3>4. learned' \in BOOLEAN /\ file'.model \in BOOLEAN /\ saved'.model \in BOOLEAN /\ spoiled' \in BOOLEAN
      BY <2>0, <3>1, Zenon DEF LearningInv
    <3> QED BY <3>2, <3>3, <3>4, Zenon DEF LearningInv
  <2> QED BY <1>5, <2>1, <2>2 DEF Learn!Truncate
<1>6. CASE Learn!Dump
  <2>0. at = "dump" /\ at' = "collect" /\ UNCHANGED <<learned, retrain_count>>
    BY <1>6 DEF Learn!Dump, Learn!learned
  <2>1. CASE file' = Learn!Contents /\ saved' = Learn!Knowledge /\ spoiled' = FALSE
    <3>1. /\ file'.state = "whole" /\ file'.model = learned /\ file'.retrain_count = retrain_count
          /\ saved'.model = learned /\ saved'.retrain_count = retrain_count
      BY <2>1 DEF Learn!Contents, Learn!Knowledge
    <3>2. /\ Counted(retrain_count, learned)' /\ Counted(file.retrain_count, file.model)'
          /\ Counted(saved.retrain_count, saved.model)'
      BY <2>0, <3>1, Zenon DEF LearningInv
    <3>3. retrain_count \in Nat /\ retrain_count' >= saved'.retrain_count
      BY <2>0, <3>1 DEF LearningInv, Counted
    <3>4. Learn!SavedIsKept' /\ FileIsSaved'
      BY <2>0, <3>1, <3>3, Zenon DEF Learn!SavedIsKept, FileIsSaved, Learn!Whole
    <3>5. learned' \in BOOLEAN /\ file'.model \in BOOLEAN /\ saved'.model \in BOOLEAN /\ spoiled' \in BOOLEAN
      BY <2>0, <2>1, <3>1, Zenon DEF LearningInv
    <3> QED BY <3>2, <3>4, <3>5, Zenon DEF LearningInv
  <2>2. CASE spoiled' = TRUE /\ UNCHANGED <<file, saved>>
    BY <2>0, <2>2 DEF LearningInv, Counted, Learn!SavedIsKept, FileIsSaved
  <2> QED BY <1>6, <2>1, <2>2 DEF Learn!Dump
<1>7. CASE Learn!Collect
  BY <1>7, LearnsOnly DEF Learn!Collect, Learn!learned, Learn!saves
<1>8. CASE Learn!Dashboard
  <2>1. at = "dashboard" /\ at' = "bar" /\ UNCHANGED <<file, saved, spoiled>>
    BY <1>8 DEF Learn!Dashboard, Learn!saves
  <2> QED BY <1>8, <2>1, VoteAdds, LearnsOnly DEF Learn!Dashboard
<1>9. CASE Learn!End
  <2>1. /\ at' = "down" /\ learned' = FALSE /\ retrain_count' = 0 /\ UNCHANGED <<file, saved>>
        /\ spoiled' = (spoiled \/ at = "dump")
    BY <1>9 DEF Learn!End
  <2>2. /\ Counted(retrain_count, learned)' /\ Counted(file.retrain_count, file.model)'
        /\ Counted(saved.retrain_count, saved.model)'
    BY <2>1 DEF LearningInv, Counted
  <2>3. Learn!SavedIsKept' /\ FileIsSaved'
    BY <2>1 DEF LearningInv, Learn!SavedIsKept, FileIsSaved, Learn!Whole
  <2>4. learned' \in BOOLEAN /\ file'.model \in BOOLEAN /\ saved'.model \in BOOLEAN /\ spoiled' \in BOOLEAN
    BY <2>1, Zenon DEF LearningInv
  <2> QED BY <2>2, <2>3, <2>4, Zenon DEF LearningInv
<1>10. CASE Learn!Start
  <2>1. at = "down" /\ at' = "bar" /\ UNCHANGED <<file, saved>>
    BY <1>10 DEF Learn!Start
  <2>2. CASE Learn!Whole /\ Learn!Loaded /\ UNCHANGED spoiled
    <3>1. learned' = file.model /\ retrain_count' = IF file.model THEN file.retrain_count ELSE 0
      BY <2>2 DEF Learn!Loaded
    <3>2. Counted(retrain_count, learned)' /\ learned' \in BOOLEAN
      BY <3>1 DEF LearningInv, Counted
    <3>3. Learn!SavedIsKept' /\ FileIsSaved'
      BY <2>1, <2>2, <3>1 DEF LearningInv, Counted, Learn!SavedIsKept, FileIsSaved, Learn!Whole
    <3> QED BY <2>1, <2>2, <3>2, <3>3 DEF LearningInv, Counted
  <2>3. CASE spoiled' = (spoiled \/ Learn!Whole) /\ UNCHANGED <<learned, retrain_count>>
    <3>1. spoiled' \in BOOLEAN
      BY <2>3, Zenon
    <3>2. retrain_count \in Nat /\ saved.retrain_count \in Nat
      BY DEF LearningInv, Counted
    <3>3. spoiled' \/ (saved.retrain_count = 0 /\ saved.model = FALSE)
      BY <2>1, <2>3, Zenon DEF LearningInv, FileIsSaved
    <3>4. Learn!SavedIsKept' /\ FileIsSaved'
      BY <2>1, <2>3, <3>2, <3>3 DEF Learn!SavedIsKept, FileIsSaved
    <3> QED BY <2>1, <2>3, <3>1, <3>4 DEF LearningInv, Counted
  <2> QED BY <1>10, <2>2, <2>3, Zenon DEF Learn!Start, Learn!learned
<1> QED BY <1>1, <1>2, <1>3, <1>4, <1>5, <1>6, <1>7, <1>8, <1>9, <1>10 DEF Learn!Next, Learn!Step

\* Where the learning stands still, nothing changes for it.
LEMMA LearningStays == LearningInv /\ UNCHANGED learningVars => LearningInv'
BY DEF LearningInv, learningVars, Counted, FileIsSaved, Learn!SavedIsKept, Learn!Whole
-----------------------------------------------------------------------------
(* Exploration, validation and evolution.                                  *)

\* A genome that no trade was counted for, and which is not the one the results are for.
Unproved(genome) == genome.id # Explore!Known /\ genome.trades = 0 /\ genome.total = 0

Unchosen(p) == DOMAIN p = 1..population_size /\ \A k \in 1..population_size : Unproved(p[k])

ExplorationInv ==
  /\ Explore!ValidationIsCurrent /\ Explore!BestIsFirst
  /\ generation \in Nat /\ Unchosen(population)

\* What is left of a confidence while the trader explores is never enough.
LEMMA ExploringIsUnsure ==
    ASSUME NEW confidence \in {50, 60, 100}, NEW decision \in Explore!Decisions,
           Explore!Confident(confidence, decision[2])
    PROVE  decision[1] = "exploit" /\ ~Explore!Degraded
<1>1. \/ decision = <<"explore", 30>> \/ decision = <<"random", 30>> \/ decision = <<"explore", 45>>
      \/ decision = <<"exploit", 100>> /\ ~Explore!Degraded
  BY DEF Explore!Decisions
<1>2. confidence * decision[2] >= 6000
  BY DEF Explore!Confident
<1>3. CASE decision[2] = 30
  BY <1>2, <1>3
<1>4. CASE decision[2] = 45
  BY <1>2, <1>4
<1> QED BY <1>1, <1>3, <1>4

\* Of unproved genomes each one is as fit as the others, and keeps its place.
LEMMA RankedIs ==
    ASSUME NEW p, Unchosen(p), NEW k \in 1..population_size
    PROVE  Explore!Ranked(p, k) = k
<1>0. population_size \in Nat
  BY ModelsAssumption
<1>1. \A j \in 1..population_size : Explore!Fitness(p[j]) = 0
  BY DEF Unchosen, Unproved, Explore!Fitness
<1>2. ASSUME NEW i \in 1..population_size
      PROVE  Explore!Cardinality({j \in DOMAIN p : Explore!Fitter(p, j, i)}) = i - 1
  <2>1. {j \in DOMAIN p : Explore!Fitter(p, j, i)} = 1..i - 1
    <3>1. \A j \in 1..population_size : Explore!Fitter(p, j, i) <=> j < i
      BY <1>1 DEF Explore!Fitter
    <3>2. DOMAIN p = 1..population_size
      BY DEF Unchosen
    <3>3. {j \in 1..population_size : j < i} = 1..i - 1
      BY <1>0
    <3> QED BY <3>1, <3>2, <3>3
  <2>2. Cardinality(1..i - 1) = i - 1
    <3>1. 1 \in Int /\ i - 1 \in Int
      OBVIOUS
    <3>2. Cardinality(1..i - 1) = IF 1 > i - 1 THEN 0 ELSE i - 1 - 1 + 1
      BY <3>1, FS_Interval, Zenon
    <3> QED BY <3>2
  <2>3. Explore!Cardinality(1..i - 1) = Cardinality(1..i - 1)
    BY Zenon DEF Explore!Cardinality, Cardinality
  <2> QED BY <2>1, <2>2, <2>3
<1> DEFINE Fits(i) == Explore!Cardinality({j \in DOMAIN p : Explore!Fitter(p, j, i)}) = k - 1
<1>3. \A i \in 1..population_size : Fits(i) <=> i = k
  BY <1>2
<1>4. DOMAIN p = 1..population_size
  BY DEF Unchosen
<1> HIDE DEF Fits
<1>5. (CHOOSE i \in DOMAIN p : Fits(i)) = k
  BY <1>3, <1>4
<1> QED BY <1>5 DEF Fits, Explore!Ranked

\* Evolution leaves the first genome where it is, and proves none.
LEMMA EvolveKeeps ==
    ASSUME NEW p, Unchosen(p), generation' \in Nat, Explore!Evolve(p)
    PROVE  Unchosen(population') /\ population'[1] = p[1]
<1>0. /\ population_size \in Nat \ {0} /\ elite_count \in Nat \ {0} /\ elite_count <= population_size
      /\ elite_count + 1 \in Nat
  BY ModelsAssumption
<1> DEFINE none == [trades |-> 0, total |-> 0]
           kept == {[trades |-> g.trades, total |-> g.total] : g \in Explore!ToSet(p)}
<1>1. kept \subseteq {none}
  <2>1. \A g \in Explore!ToSet(p) : g.trades = 0 /\ g.total = 0
    BY DEF Explore!ToSet, Unchosen, Unproved
  <2> QED BY <2>1
<1>2. PICK parents \in [elite_count + 1..population_size -> kept \cup {none}] :
        population' = [k \in 1..population_size |->
          IF k <= elite_count THEN p[Explore!Ranked(p, k)]
          ELSE [id |-> <<generation', k>>, trades |-> parents[k].trades, total |-> parents[k].total]]
  BY Zenon DEF Explore!Evolve
<1> HIDE DEF kept
<1>3. \A k \in elite_count + 1..population_size : parents[k] = none
  BY <1>1, <1>2
<1> HIDE DEF none
<1>4. ASSUME NEW k \in 1..population_size, k <= elite_count PROVE population'[k] = p[k]
  BY <1>2, <1>4, RankedIs
<1>5. ASSUME NEW k \in 1..population_size, ~(k <= elite_count) PROVE Unproved(population'[k])
  <2>1. k \in elite_count + 1..population_size
    BY <1>0, <1>5
  <2>2. parents[k].trades = 0 /\ parents[k].total = 0
    BY <1>3, <2>1 DEF none
  <2>3. population'[k] = [id |-> <<generation', k>>, trades |-> 0, total |-> 0]
    BY <1>2, <1>5, <2>2
  <2>4. <<generation', k>> # <<-1, 0>>
    OBVIOUS
  <2> QED BY <2>3, <2>4 DEF Unproved, Explore!Known
<1>6. ASSUME NEW k \in 1..population_size PROVE Unproved(population'[k])
  <2>1. CASE k <= elite_count
    BY <1>4, <2>1 DEF Unchosen
  <2> QED BY <1>5, <2>1
<1>7. DOMAIN population' = 1..population_size
  BY <1>2
<1>8. 1 \in 1..population_size /\ 1 <= elite_count
  BY <1>0
<1> QED BY <1>4, <1>6, <1>7, <1>8 DEF Unchosen

\* At the end of an iteration the validation is current, and the genomes are as they were.
LEMMA FinishKeeps ==
    ASSUME ExplorationInv, NEW p, Unchosen(p), p[1] = population[1], Explore!Finish(p)
    PROVE  /\ Explore!ValidationIsCurrent' /\ Explore!BestIsFirst'
           /\ generation' \in Nat /\ Unchosen(population)'
<1>1. Explore!ValidationIsCurrent'
  <2>1. CASE Explore!Validates /\ validated' = Explore!Validated
    BY <2>1 DEF Explore!Validated, Explore!ValidationIsCurrent
  <2>2. CASE failing' = Explore!Validates
    BY <2>2, Zenon DEF Explore!Validates, Explore!ValidationIsCurrent
  <2> QED BY <2>1, <2>2, Zenon DEF Explore!Finish
<1>2. generation' \in Nat
  BY DEF Explore!Finish, ExplorationInv
<1>3. Unchosen(population') /\ population'[1] = p[1]
  <2>1. CASE Explore!Evolve(p)
    BY <1>2, <2>1, EvolveKeeps
  <2>2. CASE population' = p
    BY <2>2
  <2> QED BY <2>1, <2>2, Zenon DEF Explore!Finish
<1>4. Explore!BestIsFirst'
  BY <1>3 DEF ExplorationInv, Explore!BestIsFirst, Explore!Genome
<1> QED BY <1>1, <1>2, <1>3, <1>4

\* The results of a trade are recorded for none of the genomes.
LEMMA RecordedIs ==
    ASSUME ExplorationInv, NEW outcome
    PROVE  Unchosen(Explore!Recorded(outcome)) /\ Explore!Recorded(outcome)[1] = population[1]
<1>0. 1 \in 1..population_size
  BY ModelsAssumption
<1>1. DOMAIN population = 1..population_size /\ \A k \in 1..population_size : Unproved(population[k])
  BY DEF ExplorationInv, Unchosen
<1>2. Explore!Recorded(outcome) = [k \in 1..population_size |-> population[k]]
  BY <1>1 DEF Unproved, Explore!Recorded
<1> QED BY <1>0, <1>1, <1>2 DEF Unchosen

\* The genomes a process starts with.
LEMMA FirstIs == Unchosen(Explore!First) /\ Explore!First[1] = Explore!Genome(0, 1)
<1>1. 1 \in 1..population_size
  BY ModelsAssumption
<1>2. \A k \in 1..population_size : Unproved(Explore!Genome(0, k))
  <2> SUFFICES ASSUME NEW k \in 1..population_size PROVE Unproved(Explore!Genome(0, k))
    OBVIOUS
  <2>1. <<0, k>> # <<-1, 0>>
    OBVIOUS
  <2> QED BY <2>1 DEF Unproved, Explore!Genome, Explore!Known
<1> QED BY <1>1, <1>2, Zenon DEF Unchosen, Explore!First

\* Nothing was opened, closed or validated.
LEMMA ExplorationInit == Explore!Init => ExplorationInv
<1> SUFFICES ASSUME Explore!Init PROVE ExplorationInv
  OBVIOUS
<1>1. total = 0 /\ population = Explore!First /\ generation = 0
  BY DEF Explore!Init
<1> QED BY <1>1, FirstIs DEF ExplorationInv, Explore!ValidationIsCurrent, Explore!BestIsFirst

\* The exploration keeps its invariant.
LEMMA ExplorationStep == ExplorationInv /\ Explore!Next => ExplorationInv'
<1> SUFFICES ASSUME ExplorationInv, Explore!Next PROVE ExplorationInv'
  OBVIOUS
<1>0. Unchosen(population)
  BY DEF ExplorationInv
<1>1. ASSUME NEW confidence \in {50, 60, 100}, Explore!Open(confidence) PROVE ExplorationInv'
  <2>1. Explore!Finish(population)
    BY <1>1, Zenon DEF Explore!Open
  <2> QED BY <1>0, <2>1, FinishKeeps DEF ExplorationInv
<1>2. ASSUME NEW outcome \in Outcomes, Explore!Close(outcome) PROVE ExplorationInv'
  <2>1. Explore!Finish(Explore!Recorded(outcome))
    BY <1>2, Zenon DEF Explore!Close
  <2> QED BY <2>1, RecordedIs, FinishKeeps DEF ExplorationInv
<1>3. CASE Explore!Wait
  <2>1. Explore!Finish(population)
    BY <1>3, Zenon DEF Explore!Wait
  <2> QED BY <1>0, <2>1, FinishKeeps DEF ExplorationInv
<1>4. CASE Explore!Person
  <2>1. UNCHANGED <<total, closed, validated, failing, population, generation>>
    BY <1>4 DEF Explore!Person, Explore!models, Explore!counts
  <2> QED BY <2>1 DEF ExplorationInv, Explore!ValidationIsCurrent, Explore!BestIsFirst
<1>5. CASE Explore!Restart
  <2>1. total' = 0 /\ population' = Explore!First /\ generation' = 0
    BY <1>5 DEF Explore!Restart
  <2> QED BY <2>1, FirstIs DEF ExplorationInv, Explore!ValidationIsCurrent, Explore!BestIsFirst
<1> QED BY <1>1, <1>2, <1>3, <1>4, <1>5 DEF Explore!Next

\* Where the exploration stands still, nothing changes for it.
LEMMA ExplorationStays == ExplorationInv /\ UNCHANGED explorationVars => ExplorationInv'
BY DEF ExplorationInv, explorationVars, Explore!ValidationIsCurrent, Explore!BestIsFirst

\* A trader whose last outcomes were bad opens nothing, and they stay the last.
LEMMA DegradedStep ==
    ASSUME Explore!Next, Explore!Degraded, opened = Explore!None, ~Explore!Restart
    PROVE  Explore!Degraded' /\ opened' # "trader"
<1>1. ASSUME outcomes' = outcomes PROVE Explore!Degraded'
  BY <1>1 DEF Explore!Degraded
<1>2. ASSUME NEW confidence \in {50, 60, 100}, Explore!Open(confidence) PROVE FALSE
  <2>1. PICK decision \in Explore!Decisions : Explore!Confident(confidence, decision[2])
    BY <1>2, Zenon DEF Explore!Open
  <2> QED BY <2>1, ExploringIsUnsure
<1>3. ASSUME NEW outcome \in Outcomes, Explore!Close(outcome) PROVE FALSE
  BY <1>3, Zenon DEF Explore!Close
<1>4. CASE Explore!Wait
  <2>1. opened' = opened /\ outcomes' = outcomes
    BY <1>4, Zenon DEF Explore!Wait, Explore!counts
  <2> QED BY <1>1, <2>1 DEF Explore!None
<1>5. CASE Explore!Person
  <2>1. opened' \in {Explore!None, "person"} /\ outcomes' = outcomes
    BY <1>5 DEF Explore!Person, Explore!models, Explore!counts
  <2> QED BY <1>1, <2>1 DEF Explore!None
<1> QED BY <1>2, <1>3, <1>4, <1>5 DEF Explore!Next
-----------------------------------------------------------------------------
(* The book: the position and the money.                                   *)

BookType ==
  /\ size \in Int /\ entry_price \in Int /\ realised \in Int /\ cash \in Int /\ net \in Int
  /\ mark \in Int

\* What is realised, and what the position has cost.
Balanced == size = net /\ realised - entry_price * size = cash

BookInv ==
  /\ BookType
  /\ Book!PositionIsSum
  /\ deviations = {} => Balanced

\* The profit of a position, whatever its side.
LEMMA PnlIs ==
    ASSUME size \in Int, entry_price \in Int, NEW price \in Int
    PROVE  Book!Pnl(Book!Abs(size), price) = price * size - entry_price * size
<1>1. CASE size > 0
  <2>1. Book!Abs(size) = size
    BY <1>1 DEF Book!Abs
  <2>2. Book!Pnl(size, price) = (price - entry_price) * size
    BY <1>1 DEF Book!Pnl
  <2> QED BY <2>1, <2>2
<1>2. CASE size < 0
  <2>1. Book!Abs(size) = -size
    BY <1>2 DEF Book!Abs
  <2>2. Book!Pnl(-size, price) = (entry_price - price) * (-size)
    BY <1>2 DEF Book!Pnl
  <2>3. (entry_price - price) * (-size) = price * size - entry_price * size
    OBVIOUS
  <2> QED BY <2>1, <2>2, <2>3
<1>3. CASE size = 0
  <2>1. Book!Abs(size) = 0
    BY <1>3 DEF Book!Abs
  <2>2. Book!Pnl(0, price) = (entry_price - price) * 0
    BY <1>3 DEF Book!Pnl
  <2> QED BY <1>3, <2>1, <2>2
<1> QED BY <1>1, <1>2, <1>3

\* A division without a remainder.
LEMMA DivisionIs ==
    ASSUME NEW a \in Int, NEW b \in Nat \ {0}
    PROVE  a \div b \in Int /\ (a % b = 0 => (a \div b) * b = a)
OBVIOUS

\* What the balance comes to at a price.
LEMMA BookHolds == BookInv => Book!PositionIsSum /\ Book!MoneyIsKept
<1> SUFFICES ASSUME BookInv, deviations = {}
             PROVE  realised + Book!Pnl(Book!Abs(size), mark) = cash + net * mark
  BY DEF BookInv, Book!MoneyIsKept
<1>1. Book!Pnl(Book!Abs(size), mark) = mark * size - entry_price * size
  BY PnlIs DEF BookInv, BookType
<1>2. size = net /\ realised - entry_price * size = cash
  BY DEF BookInv, Balanced
<1> DEFINE cost == entry_price * size
           worth == mark * size
<1>3. cost \in Int /\ worth \in Int /\ net * mark = worth /\ realised \in Int /\ cash \in Int
  BY <1>2 DEF BookInv, BookType
<1> HIDE DEF cost, worth
<1>4. realised - cost = cash /\ Book!Pnl(Book!Abs(size), mark) = worth - cost
  BY <1>1, <1>2 DEF cost, worth
<1> QED BY <1>3, <1>4

\* There is neither a position nor money.
LEMMA BookInit == Book!Init => BookInv
BY ModelsAssumption DEF Book!Init, BookInv, BookType, Book!PositionIsSum, Balanced

\* An order that opens.
LEMMA BookOpens ==
    ASSUME BookInv, NEW amount \in Int, amount # 0, NEW price \in Nat, Book!Open(amount, price)
    PROVE  BookInv'
<1> DEFINE same == Book!Sign(amount) = Book!Sign(size)
           other == Book!Sign(amount) = -Book!Sign(size)
<1>0. /\ size \in Int /\ entry_price \in Int /\ realised \in Int /\ cash \in Int /\ net \in Int
  BY DEF BookInv, BookType
<1>1. cash' = cash - amount * price /\ net' = net + amount /\ mark' = price /\ realised' = realised
  BY DEF Book!Open, Book!Filled
<1>10. size' = Book!Updated(amount)
  BY DEF Book!Open, Book!UpdatePosition
<1>11. entry_price' = IF size = 0 THEN price
                        ELSE IF Book!Sign(amount) = Book!Sign(size) THEN Book!Averaged(amount, price)
                        ELSE IF size' = 0 THEN 0
                        ELSE IF Book!Abs(amount) <= Book!Abs(size) THEN entry_price
                        ELSE price
  BY DEF Book!Open, Book!UpdatePosition
<1>12. deviations' = deviations \cup {d \in {"not realised"} : other}
            \cup {d \in {"turned"} : other /\ Book!Abs(amount) > Book!Abs(size)}
            \cup {d \in {"rounded"} : Book!Rounded(amount, price)}
  BY DEF Book!Open, Book!UpdatePosition
<1>2. size = 0 \/ same \/ other
  BY <1>0 DEF Book!Sign
<1>3. size' \in Int
  <2>1. size + amount \in Int
    BY <1>0
  <2> QED BY <1>10, <2>1 DEF Book!Updated
<1>4. ASSUME same, size # 0
      PROVE  /\ Book!Abs(size + amount) \in Nat \ {0} /\ Book!Paid(amount, price) \in Int
             /\ Book!Averaged(amount, price) \in Int /\ size' = size + amount
             /\ ~Book!Rounded(amount, price) => Book!Averaged(amount, price) * (size + amount) = entry_price * size + price * amount
  <2>1. (size > 0 /\ amount > 0) \/ (size < 0 /\ amount < 0)
    BY <1>0, <1>4 DEF Book!Sign
  <2>2. Book!Abs(size + amount) \in Nat \ {0} /\ Book!Abs(size) \in Int /\ Book!Abs(amount) \in Int
    BY <1>0, <2>1 DEF Book!Abs
  <2>3. Book!Paid(amount, price) \in Int
    BY <1>0, <2>2 DEF Book!Paid
  <2>4. /\ Book!Averaged(amount, price) \in Int
        /\ Book!Paid(amount, price) % Book!Abs(size + amount) = 0
             => Book!Averaged(amount, price) * Book!Abs(size + amount) = Book!Paid(amount, price)
    BY <2>2, <2>3, DivisionIs DEF Book!Averaged
  <2>5. size' = size + amount
    <3>1. Book!Sign(amount) # -Book!Sign(size)
      BY <1>0, <2>1 DEF Book!Sign
    <3> QED BY <1>10, <3>1 DEF Book!Updated
  <2>6. ASSUME ~Book!Rounded(amount, price)
        PROVE  Book!Averaged(amount, price) * (size + amount) = entry_price * size + price * amount
    <3>1. Book!Averaged(amount, price) * Book!Abs(size + amount) = Book!Paid(amount, price)
      BY <1>4, <2>4, <2>6 DEF Book!Rounded
    <3> DEFINE average == Book!Averaged(amount, price)
    <3>2. average \in Int
      BY <2>4
    <3>3. CASE size > 0
      <4>1. Book!Abs(size + amount) = size + amount /\ Book!Abs(size) = size /\ Book!Abs(amount) = amount
        BY <1>0, <2>1, <3>3 DEF Book!Abs
      <4> QED BY <3>1, <4>1 DEF Book!Paid
    <3>4. CASE size < 0
      <4>1. /\ Book!Abs(size + amount) = -(size + amount)
            /\ Book!Abs(size) = -size /\ Book!Abs(amount) = -amount
        BY <1>0, <2>1, <3>4 DEF Book!Abs
      <4>2. average * (-(size + amount)) = entry_price * (-size) + price * (-amount)
        BY <3>1, <4>1 DEF Book!Paid
      <4> HIDE DEF average
      <4>3. average * (size + amount) = entry_price * size + price * amount
        BY <1>0, <3>2, <4>2
      <4> QED BY <4>3 DEF average
    <3> QED BY <2>1, <3>3, <3>4
  <2> QED BY <2>2, <2>3, <2>4, <2>5, <2>6
<1>5. entry_price' \in Int
  <2>1. Book!Sign(amount) = Book!Sign(size) /\ size # 0 => Book!Averaged(amount, price) \in Int
    BY <1>4
  <2> QED BY <1>0, <1>11, <2>1
<1>6. BookType'
  <2>1. amount * price \in Int
    BY <1>0
  <2>2. cash' \in Int /\ net' \in Int /\ realised' \in Int /\ mark' \in Int
    BY <1>0, <1>1, <2>1
  <2> QED BY <1>3, <1>5, <2>2 DEF BookType
<1>7. ASSUME "turned" \notin deviations' PROVE size' = size + amount
  <2>1. ~(other /\ Book!Abs(amount) > Book!Abs(size))
    BY <1>7, <1>12
  <2>2. ~other \/ Book!Abs(amount) <= Book!Abs(size)
    BY <1>0, <2>1 DEF Book!Abs
  <2> QED BY <1>10, <2>2 DEF Book!Updated
<1>8. Book!PositionIsSum'
  <2> SUFFICES ASSUME deviations' \subseteq {"not realised", "rounded"} PROVE size' = net'
    BY DEF Book!PositionIsSum
  <2>1. "turned" \notin deviations' /\ deviations \subseteq {"not realised", "rounded"}
    BY <1>12
  <2> QED BY <1>0, <1>1, <1>7, <2>1 DEF BookInv, Book!PositionIsSum
<1>9. ASSUME deviations' = {} PROVE Balanced'
  <2>1. deviations = {} /\ ~other /\ ~Book!Rounded(amount, price) /\ size' = size + amount
    BY <1>7, <1>9, <1>12
  <2>2. size = net /\ realised - entry_price * size = cash
    BY <2>1 DEF BookInv, Balanced
  <2>3. entry_price' * (size + amount) = entry_price * size + price * amount
    <3>1. CASE size = 0
      <4>1. entry_price' = price
        BY <1>11, <3>1
      <4>2. price * (0 + amount) = entry_price * 0 + price * amount
        BY <1>0
      <4> QED BY <3>1, <4>1, <4>2
    <3>2. CASE size # 0
      <4>1. same
        BY <1>2, <2>1, <3>2
      <4>2. entry_price' = Book!Averaged(amount, price)
        BY <1>11, <3>2, <4>1
      <4> QED BY <1>4, <2>1, <3>2, <4>1, <4>2
    <3> QED BY <3>1, <3>2
  <2>4. realised' - entry_price' * size' = cash'
    <3> DEFINE cost == entry_price * size
               added == price * amount
    <3>1. cost \in Int /\ added \in Int /\ amount * price = added
      BY <1>0
    <3>2. entry_price' * size' = cost + added
      BY <2>1, <2>3
    <3>3. realised - cost = cash /\ cash' = cash - added /\ realised' = realised
      BY <1>1, <2>2, <3>1
    <3> HIDE DEF cost, added
    <3> QED BY <1>0, <3>1, <3>2, <3>3
  <2> QED BY <1>1, <2>1, <2>2, <2>4 DEF Balanced
<1> QED BY <1>6, <1>8, <1>9 DEF BookInv

\* An order that closes.
LEMMA BookCloses ==
    ASSUME BookInv, NEW requested \in Nat, NEW price \in Nat, Book!Close(requested, price)
    PROVE  BookInv'
<1> DEFINE amount == IF requested = Book!All THEN Book!Abs(size) ELSE requested
<1>0. /\ size \in Int /\ entry_price \in Int /\ realised \in Int /\ cash \in Int /\ net \in Int
      /\ size # 0
  BY DEF BookInv, BookType, Book!Close
<1>1. amount \in Nat
  BY <1>0 DEF Book!Abs
<1> DEFINE change == -Book!Sign(size) * amount
<1>2. /\ cash' = cash - change * price /\ net' = net + change
      /\ mark' = price /\ realised' = realised + Book!Pnl(amount, price)
      /\ size' = size - amount
      /\ entry_price' = IF size' = 0 THEN 0 ELSE entry_price
  BY DEF Book!Close, Book!Filled
<1>8. deviations' = deviations \cup {d \in {"short closed"} : size < 0}
            \cup {d \in {"closed beyond"} : amount > Book!Abs(size)}
  BY DEF Book!Close, Book!Filled
<1> HIDE DEF amount
<1>3. Book!Sign(size) \in Int /\ Book!Pnl(amount, price) \in Int
  BY <1>0, <1>1 DEF Book!Sign, Book!Pnl
<1>4. BookType'
  <2>1. change \in Int /\ change * price \in Int
    BY <1>1, <1>3
  <2> HIDE DEF change
  <2>2. cash' \in Int /\ net' \in Int /\ realised' \in Int /\ mark' \in Int /\ size' \in Int
    BY <1>0, <1>1, <1>2, <1>3, <2>1
  <2>3. entry_price' \in Int
    BY <1>0, <1>2
  <2> QED BY <2>2, <2>3 DEF BookType
<1>5. ASSUME "short closed" \notin deviations'
      PROVE  /\ size > 0 /\ net' = net - amount /\ cash' = cash + amount * price
             /\ Book!Pnl(amount, price) = (price - entry_price) * amount
  <2>1. size > 0
    <3>1. ~(size < 0)
      BY <1>5, <1>8
    <3> QED BY <1>0, <3>1
  <2>2. Book!Sign(size) = 1
    BY <2>1 DEF Book!Sign
  <2>3. change = -amount
    BY <1>1, <2>2
  <2> HIDE DEF change
  <2>4. (-amount) * price = -(amount * price) /\ amount * price \in Int
    BY <1>1
  <2>5. net' = net - amount /\ cash' = cash + amount * price
    <3>1. net + -amount = net - amount /\ cash - -(amount * price) = cash + amount * price
      BY <1>0, <1>1, <2>4
    <3> QED BY <1>2, <2>3, <2>4, <3>1
  <2> QED BY <2>1, <2>5 DEF Book!Pnl
<1>6. Book!PositionIsSum'
  <2> SUFFICES ASSUME deviations' \subseteq {"not realised", "rounded"} PROVE size' = net'
    BY DEF Book!PositionIsSum
  <2>1. "short closed" \notin deviations' /\ deviations \subseteq {"not realised", "rounded"}
    BY <1>8
  <2> QED BY <1>0, <1>1, <1>2, <1>5, <2>1 DEF BookInv, Book!PositionIsSum
<1>7. ASSUME deviations' = {} PROVE Balanced'
  <2>1. deviations = {} /\ "short closed" \notin deviations'
    BY <1>7, <1>8
  <2>2. size = net /\ realised - entry_price * size = cash
    BY <2>1 DEF BookInv, Balanced
  <2> DEFINE cost == entry_price * size
             bought == entry_price * amount
             got == price * amount
  <2>3. /\ cost \in Int /\ bought \in Int /\ got \in Int
        /\ (price - entry_price) * amount = got - bought /\ amount * price = got
    BY <1>0, <1>1
  <2>4. entry_price' * size' = cost - bought
    <3>1. entry_price * (size - amount) = cost - bought
      BY <1>0, <1>1
    <3>2. CASE size' = 0
      <4>1. size - amount = 0
        BY <1>2, <3>2
      <4>2. entry_price * 0 = cost - bought
        BY <3>1, <4>1
      <4>3. entry_price * 0 = 0 /\ 0 * 0 = 0
        BY <1>0
      <4>4. entry_price' = 0
        BY <1>2, <3>2
      <4> QED BY <3>2, <4>2, <4>3, <4>4
    <3>3. CASE size' # 0
      BY <1>2, <3>1, <3>3
    <3> QED BY <3>2, <3>3
  <2>5. realised' = realised + (got - bought) /\ cash' = cash + got /\ realised - cost = cash
    BY <1>2, <1>5, <2>1, <2>2, <2>3
  <2> HIDE DEF cost, bought, got
  <2>6. realised' - entry_price' * size' = cash'
    BY <1>0, <2>3, <2>4, <2>5
  <2> QED BY <1>2, <1>5, <2>1, <2>2, <2>6 DEF Balanced
<1> QED BY <1>4, <1>6, <1>7 DEF BookInv

\* The book keeps its invariant.
LEMMA BookStep == BookInv /\ Book!Next => BookInv'
<1> SUFFICES ASSUME BookInv, NEW price \in FillPrices,
                    \/ \E s \in Sizes, side \in {-1, 1} : Book!Open(side * s, price)
                    \/ \E s \in Sizes \cup {Book!All} : Book!Close(s, price)
                    \/ Book!Mark(price)
             PROVE  BookInv'
  BY DEF Book!Next
<1>0. price \in Nat /\ Sizes \subseteq Nat \ {0}
  BY ModelsAssumption
<1>1. ASSUME NEW s \in Sizes, NEW side \in {-1, 1}, Book!Open(side * s, price) PROVE BookInv'
  <2>1. side * s \in Int /\ side * s # 0
    BY <1>0
  <2> QED BY <1>0, <1>1, <2>1, BookOpens
<1>2. ASSUME NEW s \in Sizes \cup {Book!All}, Book!Close(s, price) PROVE BookInv'
  <2>1. s \in Nat
    BY <1>0 DEF Book!All
  <2> QED BY <1>0, <1>2, <2>1, BookCloses
<1>3. CASE Book!Mark(price)
  <2>1. mark' \in Int /\ UNCHANGED <<size, entry_price, realised, cash, net, deviations>>
    BY <1>0, <1>3 DEF Book!Mark
  <2> QED BY <2>1 DEF BookInv, BookType, Book!PositionIsSum, Balanced
<1> QED BY <1>1, <1>2, <1>3

\* Where the book stands still, nothing changes for it.
LEMMA BookStays == BookInv /\ UNCHANGED bookVars => BookInv'
BY DEF BookInv, bookVars, BookType, Book!PositionIsSum, Balanced
-----------------------------------------------------------------------------
(* The strategies: one order at a time.                                    *)

CtaType == strategy \in Cta!Kinds /\ pos \in Int /\ resting \in Seq(Int) /\ crowded \in BOOLEAN

\* A position that is no larger than an entry, on a side that is traded.
OneEntry(p) == p <= fixed_size /\ -fixed_size <= p /\ (strategy = "reversion" => p >= 0)

\* While no order was sent before another was filled, at most one rests, and what it
\* leaves, filled whole or in part, is one entry.
CtaInv ==
  /\ CtaType
  /\ \/ crowded
     \/ /\ OneEntry(pos) /\ Len(resting) <= 1
        /\ \A i \in 1..Len(resting) : resting[i] # 0 /\ OneEntry(pos + resting[i])

\* The size of an amount.
LEMMA AbsIs ==
    ASSUME NEW n \in Int
    PROVE  /\ Cta!Abs(n) \in Nat /\ (Cta!Abs(n) = n \/ Cta!Abs(n) = -n)
           /\ \A k \in Nat : Cta!Abs(n) <= k <=> n <= k /\ -k <= n
BY DEF Cta!Abs

\* An order towards a side leaves one entry or nothing.
LEMMA TowardsIs ==
    ASSUME NEW p \in Int, NEW side \in {-1, 0, 1}
    PROVE  /\ Cta!Towards(side, p) \in Int
           /\ OneEntry(p) /\ strategy # "reversion" => OneEntry(p + Cta!Towards(side, p))
<1>0. fixed_size \in Nat
  BY ModelsAssumption
<1>1. CASE p = 0
  <2>1. Cta!Towards(side, p) = side * fixed_size
    BY <1>1 DEF Cta!Towards
  <2>2. side * fixed_size \in {-fixed_size, 0, fixed_size}
    BY <1>0
  <2> QED BY <1>0, <1>1, <2>1, <2>2 DEF OneEntry
<1>2. CASE p # 0
  <2>1. Cta!Towards(side, p) \in {-p, 0}
    BY <1>2 DEF Cta!Towards, Cta!Exit
  <2> QED BY <1>0, <2>1 DEF OneEntry
<1> QED BY <1>1, <1>2

\* What a bar of the strategy's kind shows.
LEMMA BarIs ==
    ASSUME NEW bar \in Cta!Bars(strategy), strategy \in Cta!Kinds
    PROVE  /\ strategy \in {"momentum", "rl"} => bar \in Cta!Averages
           /\ strategy = "reversion" => bar \in Cta!Bands
           /\ strategy = "breakout" => bar \in Cta!Channel
BY DEF Cta!Bars, Cta!Kinds

\* What the averages show.
LEMMA AverageIs ==
    ASSUME NEW bar \in Cta!Averages
    PROVE  /\ bar[2] \in {-1, 0, 1} /\ bar[1] \in {"over", "under", "none"}
           /\ bar[1] = "over" => bar[2] = 1
           /\ bar[1] = "under" => bar[2] = -1
BY DEF Cta!Averages

\* A crossing is followed as the averages are that it leaves.
LEMMA MomentumIs ==
    ASSUME NEW bar \in Cta!Averages, NEW p, NEW approved
    PROVE  /\ Cta!Momentum(bar, p) = Cta!Towards(bar[2], p)
           /\ Cta!Enhanced(bar, p, approved) = Cta!Momentum(bar, p)
<1>1. Cta!Momentum(bar, p) = Cta!Towards(bar[2], p)
  <2>1. CASE bar[1] = "over"
    BY <2>1, AverageIs DEF Cta!Momentum
  <2>2. CASE bar[1] = "under"
    BY <2>2, AverageIs DEF Cta!Momentum
  <2>3. CASE bar[1] = "none"
    BY <2>3 DEF Cta!Momentum, Cta!Trend
  <2> QED BY <2>1, <2>2, <2>3, AverageIs
<1> QED BY <1>1 DEF Cta!Enhanced, Cta!Rejected, Cta!Trend

\* What a strategy decides leaves one entry or nothing.
LEMMA DecidedIs ==
    ASSUME strategy \in Cta!Kinds, NEW bar \in Cta!Bars(strategy), NEW approved,
           NEW p \in Int
    PROVE  /\ Cta!Decided(bar, p, approved) \in Int
           /\ OneEntry(p) => OneEntry(p + Cta!Decided(bar, p, approved))
<1>0. fixed_size \in Nat
  BY ModelsAssumption
<1>1. CASE strategy \in {"momentum", "rl"}
  <2>1. bar \in Cta!Averages /\ bar[2] \in {-1, 0, 1} /\ strategy # "reversion"
    BY <1>1, BarIs, AverageIs
  <2>2. Cta!Decided(bar, p, approved) = Cta!Towards(bar[2], p)
    BY <1>1, <2>1, MomentumIs DEF Cta!Decided
  <2> QED BY <2>1, <2>2, TowardsIs
<1>2. CASE strategy = "reversion"
  <2>1. OneEntry(p) => p >= 0 /\ p <= fixed_size
    BY <1>2 DEF OneEntry
  <2>2. Cta!Decided(bar, p, approved) = Cta!Reversion(bar, p)
    BY <1>2 DEF Cta!Decided
  <2>3. Cta!Reversion(bar, p) \in {0, -p, -(p \div 2)} \/ (p = 0 /\ Cta!Reversion(bar, p) = fixed_size)
    BY DEF Cta!Reversion, Cta!Exit
  <2>4. p \div 2 \in Int /\ (p >= 0 => p - (p \div 2) >= 0 /\ p - (p \div 2) <= p)
    OBVIOUS
  <2> QED BY <1>0, <2>1, <2>2, <2>3, <2>4 DEF OneEntry
<1>3. CASE strategy = "breakout"
  <2>1. Cta!Decided(bar, p, approved) = Cta!Breakout(bar, p)
    BY <1>3 DEF Cta!Decided
  <2>2. Cta!Breakout(bar, p) = 0 \/ \E side \in {-1, 1} : Cta!Breakout(bar, p) = Cta!Towards(side, p)
    BY DEF Cta!Breakout
  <2>3. \A side \in {-1, 1} : Cta!Towards(side, p) \in Int /\ (OneEntry(p) => OneEntry(p + Cta!Towards(side, p)))
    BY <1>3, TowardsIs
  <2>4. p + 0 = p
    OBVIOUS
  <2> QED BY <2>1, <2>2, <2>3, <2>4
<1> QED BY <1>1, <1>2, <1>3 DEF Cta!Kinds

\* There is neither a position nor an order.
LEMMA CtaInit == Cta!Init => CtaInv
<1> SUFFICES ASSUME Cta!Init PROVE CtaInv
  OBVIOUS
<1>1. strategy \in Cta!Kinds /\ pos = 0 /\ resting = <<>> /\ crowded = FALSE /\ fixed_size \in Nat
  BY ModelsAssumption DEF Cta!Init
<1>2. <<>> \in Seq(Int) /\ Len(<<>>) = 0 /\ 0 \in Int
  OBVIOUS
<1>3. CtaType
  BY <1>1, <1>2, Zenon DEF CtaType
<1>4. OneEntry(0)
  BY <1>1 DEF OneEntry
<1> QED BY <1>1, <1>2, <1>3, <1>4 DEF CtaInv

\* A strategy that decides by a bar.
LEMMA CtaDecides == ASSUME CtaInv, NEW bar \in Cta!Bars(strategy), Cta!OnBar(bar) PROVE CtaInv'
<1>0. /\ strategy \in Cta!Kinds /\ pos \in Int /\ resting \in Seq(Int) /\ crowded \in BOOLEAN
      /\ UNCHANGED <<strategy, pos>>
  BY DEF CtaInv, CtaType, Cta!OnBar
<1>1. PICK approved \in Cta!Answers(bar) :
        \/ UNCHANGED <<resting, crowded>>
        \/ /\ Cta!Decided(bar, pos, approved) # 0
           /\ resting' = Append(resting, Cta!Decided(bar, pos, approved))
           /\ crowded' = (crowded \/ resting # <<>>)
  BY Zenon DEF Cta!OnBar
<1>2. CASE UNCHANGED <<resting, crowded>>
  BY <1>0, <1>2 DEF CtaInv, CtaType, OneEntry
<1>3. CASE /\ Cta!Decided(bar, pos, approved) # 0
           /\ resting' = Append(resting, Cta!Decided(bar, pos, approved))
           /\ crowded' = (crowded \/ resting # <<>>)
  <2> DEFINE amount == Cta!Decided(bar, pos, approved)
  <2>1. amount \in Int /\ amount # 0 /\ (OneEntry(pos) => OneEntry(pos + amount))
    BY <1>0, <1>3, DecidedIs
  <2> HIDE DEF amount
  <2>2. resting' = Append(resting, amount)
    BY <1>3 DEF amount
  <2>3. CtaType'
    <3>1. crowded' \in BOOLEAN
      BY <1>3, Zenon
    <3>2. resting' \in Seq(Int)
      BY <1>0, <2>1, <2>2
    <3> QED BY <1>0, <3>1, <3>2 DEF CtaType
  <2>4. ASSUME ~crowded'
        PROVE  /\ OneEntry(pos)' /\ Len(resting') <= 1
               /\ \A i \in 1..Len(resting') : resting'[i] # 0 /\ OneEntry(pos + resting[i])'
    <3>1. ~crowded /\ resting = <<>>
      BY <1>3, <2>4, Zenon
    <3>2. OneEntry(pos)
      BY <3>1 DEF CtaInv
    <3>3. Len(resting') = 1 /\ resting'[1] = amount
      BY <2>1, <2>2, <3>1
    <3> QED BY <1>0, <2>1, <3>2, <3>3 DEF OneEntry
  <2> QED BY <2>3, <2>4 DEF CtaInv
<1> QED BY <1>1, <1>2, <1>3

\* What remains without one of the orders.
LEMMA RemovedIs ==
    ASSUME NEW s \in Seq(Int), NEW i \in 1..Len(s)
    PROVE  Cta!RemoveAt(s, i) \in Seq(Int) /\ Len(Cta!RemoveAt(s, i)) = Len(s) - 1
<1>0. Len(s) \in Nat /\ \A j \in 1..Len(s) : s[j] \in Int
  BY LenProperties
<1> DEFINE m == i - 1
           k == i + 1
           n == Len(s)
<1>1. /\ m \in Int /\ n \in Int /\ k \in Int /\ 1 \in Int /\ i \in Int
      /\ (\A j \in 1..m : s[j] \in Int) /\ (\A j \in k..n : s[j] \in Int)
      /\ m = i - 1 /\ k = i + 1 /\ 1 <= i /\ i <= n
  BY <1>0
<1>2. Cta!RemoveAt(s, i) = SubSeq(s, 1, m) \o SubSeq(s, k, n)
  BY DEF Cta!RemoveAt
<1> HIDE DEF m, k, n
<1>3. SubSeq(s, 1, m) \in Seq(Int) /\ Len(SubSeq(s, 1, m)) = IF 1 <= m THEN m - 1 + 1 ELSE 0
  BY <1>1, SubSeqProperties
<1>4. SubSeq(s, k, n) \in Seq(Int) /\ Len(SubSeq(s, k, n)) = IF k <= n THEN n - k + 1 ELSE 0
  BY <1>1, SubSeqProperties
<1> DEFINE front == SubSeq(s, 1, m)
           back == SubSeq(s, k, n)
<1>5. Len(front) = m /\ Len(back) = n - i
  BY <1>1, <1>3, <1>4
<1>6. front \o back \in Seq(Int) /\ Len(front \o back) = Len(front) + Len(back)
  BY <1>3, <1>4, ConcatProperties
<1> HIDE DEF front, back
<1>7. m + (n - i) = n - 1
  BY <1>1
<1> QED BY <1>2, <1>5, <1>6, <1>7 DEF front, back, n

\* An order that is filled, whole or in part.
LEMMA CtaFills == ASSUME CtaInv, NEW i, Cta!Trade(i) PROVE CtaInv'
<1>6. /\ strategy \in Cta!Kinds /\ pos \in Int /\ resting \in Seq(Int) /\ crowded \in BOOLEAN
      /\ strategy' = strategy /\ i \in DOMAIN resting
  BY DEF CtaInv, CtaType, Cta!Trade
<1>7. Len(resting) \in Nat /\ DOMAIN resting = 1..Len(resting) /\ fixed_size \in Nat
  BY <1>6, LenProperties, ModelsAssumption
<1>8. i \in 1..Len(resting) /\ resting[i] \in Int
  BY <1>6, <1>7, ElementOfSeq
<1>0. /\ strategy \in Cta!Kinds /\ pos \in Int /\ resting \in Seq(Int) /\ crowded \in BOOLEAN
      /\ strategy' = strategy /\ i \in 1..Len(resting) /\ resting[i] \in Int /\ Len(resting) \in Nat
      /\ fixed_size \in Nat
  BY <1>6, <1>7, <1>8
<1>1. PICK share \in 1..Cta!Abs(resting[i]), amount \in Int :
        /\ amount = IF resting[i] > 0 THEN share ELSE -share
        /\ pos' = pos + amount
        /\ resting' = IF amount = resting[i] THEN Cta!RemoveAt(resting, i)
                      ELSE [resting EXCEPT ![i] = resting[i] - amount]
  <2>1. \A share \in 1..Cta!Abs(resting[i]) : (IF resting[i] > 0 THEN share ELSE -share) \in Int
    OBVIOUS
  <2> QED BY <2>1, Zenon DEF Cta!Trade
<1>2. crowded' = (crowded /\ (pos' # 0 \/ resting' # <<>>))
  BY Zenon DEF Cta!Trade, Cta!Settled
<1>3. CtaType'
  <2>1. crowded' \in BOOLEAN
    BY <1>2, Zenon
  <2>2. [resting EXCEPT ![i] = resting[i] - amount] \in Seq(Int)
    BY <1>0
  <2>3. resting' \in Seq(Int)
    BY <1>0, <1>1, <2>2, RemovedIs
  <2> QED BY <1>0, <1>1, <2>1, <2>3 DEF CtaType
<1>4. CASE crowded
  <2>1. ASSUME ~crowded' PROVE pos' = 0 /\ resting' = <<>>
    BY <1>2, <1>4, <2>1, Zenon
  <2>2. OneEntry(0)' /\ Len(<<>>) = 0
    BY <1>0 DEF OneEntry
  <2> QED BY <1>3, <2>1, <2>2 DEF CtaInv
<1>5. CASE ~crowded
  <2>1. /\ OneEntry(pos) /\ Len(resting) = 1 /\ i = 1 /\ resting[1] # 0 /\ OneEntry(pos + resting[1])
    <3>1. /\ OneEntry(pos) /\ Len(resting) <= 1
          /\ \A j \in 1..Len(resting) : resting[j] # 0 /\ OneEntry(pos + resting[j])
      BY <1>5 DEF CtaInv
    <3>2. i = 1 /\ Len(resting) = 1
      <4>1. Len(resting) <= 1 /\ Len(resting) \in Nat /\ i \in 1..Len(resting)
        BY <1>0, <3>1, Zenon
      <4> QED BY <4>1
    <3> QED BY <1>0, <3>1, <3>2
  <2>2. /\ OneEntry(pos + amount)
        /\ amount # resting[1] => resting[1] - amount # 0
        /\ (pos + amount) + (resting[1] - amount) = pos + resting[1]
    <3>1. Cta!Abs(resting[1]) = resting[1] \/ Cta!Abs(resting[1]) = -resting[1]
      BY <1>0, <2>1, AbsIs
    <3>2. (0 <= amount /\ amount <= resting[1]) \/ (resting[1] <= amount /\ amount <= 0)
      BY <1>0, <1>1, <2>1, <3>1
    <3>3. resting[1] \in Int /\ pos \in Int /\ amount \in Int /\ fixed_size \in Nat
      BY <1>0, <1>1, <2>1
    <3>4. OneEntry(pos + amount)
      BY <2>1, <3>2, <3>3 DEF OneEntry
    <3> DEFINE order == resting[1]
    <3>5. order \in Int
      BY <3>3
    <3> HIDE DEF order
    <3>6. /\ amount # order => order - amount # 0
          /\ (pos + amount) + (order - amount) = pos + order
      BY <3>3, <3>5
    <3> QED BY <3>4, <3>6 DEF order
  <2>3. OneEntry(pos)'
    BY <1>0, <1>1, <2>2 DEF OneEntry
  <2>4. CASE amount = resting[i]
    <3>1. resting' = Cta!RemoveAt(resting, i)
      BY <1>1, <2>4
    <3>2. Len(resting') = 1 - 1
      BY <1>0, <2>1, <3>1, RemovedIs
    <3> QED BY <1>3, <2>3, <3>2 DEF CtaInv
  <2>5. CASE amount # resting[i]
    <3>1. resting' = [resting EXCEPT ![1] = resting[1] - amount]
      BY <1>1, <2>1, <2>5
    <3>2. Len(resting') = 1 /\ resting'[1] = resting[1] - amount
      BY <1>0, <2>1, <3>1
    <3>3. resting'[1] # 0 /\ OneEntry(pos' + resting'[1])
      BY <1>1, <2>1, <2>2, <2>5, <3>2
    <3> QED BY <1>0, <1>3, <2>3, <3>2, <3>3 DEF CtaInv, OneEntry
  <2> QED BY <2>4, <2>5
<1> QED BY <1>0, <1>4, <1>5

\* A strategy keeps its invariant.
LEMMA CtaStep == CtaInv /\ Cta!Next => CtaInv'
<1> SUFFICES ASSUME CtaInv, Cta!Next PROVE CtaInv'
  OBVIOUS
<1>1. CASE Cta!StartStrategy
  BY <1>1 DEF Cta!StartStrategy, CtaInv, CtaType, OneEntry
<1>2. CASE Cta!StopStrategy
  <2>1. /\ UNCHANGED <<strategy, pos>> /\ resting' \in {resting, <<>>}
        /\ crowded' = (crowded /\ (pos' # 0 \/ resting' # <<>>))
    BY <1>2, Zenon DEF Cta!StopStrategy, Cta!Settled
  <2>2. CtaType'
    <3>1. crowded' \in BOOLEAN
      BY <2>1, Zenon
    <3>2. <<>> \in Seq(Int)
      OBVIOUS
    <3> QED BY <2>1, <3>1, <3>2 DEF CtaInv, CtaType
  <2>3. OneEntry(0)' /\ Len(<<>>) = 0
    BY ModelsAssumption DEF OneEntry
  <2>4. CASE crowded
    <3>1. ASSUME ~crowded' PROVE pos' = 0 /\ resting' = <<>>
      BY <2>1, <2>4, <3>1, Zenon
    <3> QED BY <2>2, <2>3, <3>1 DEF CtaInv
  <2>5. CASE ~crowded
    <3>1. OneEntry(pos)' /\ (resting' = resting \/ resting' = <<>>)
      BY <2>1, <2>5 DEF CtaInv, OneEntry
    <3>2. CASE resting' = resting
      BY <2>1, <2>2, <2>5, <3>1, <3>2 DEF CtaInv, OneEntry
    <3>3. CASE resting' = <<>>
      BY <2>2, <2>3, <3>1, <3>3 DEF CtaInv
    <3> QED BY <3>1, <3>2, <3>3
  <2> QED BY <2>4, <2>5
<1> QED BY <1>1, <1>2, CtaDecides, CtaFills DEF Cta!Next

\* What a strategy promises of its position.
LEMMA CtaHolds == CtaInv => Cta!OneEntryAtATime
<1> SUFFICES ASSUME CtaInv PROVE Cta!OneEntryAtATime
  OBVIOUS
<1>1. pos \in Int /\ fixed_size \in Nat
  BY ModelsAssumption DEF CtaInv, CtaType
<1>2. Cta!Abs(pos) <= fixed_size <=> pos <= fixed_size /\ -fixed_size <= pos
  BY <1>1, AbsIs
<1> QED BY <1>2 DEF CtaInv, OneEntry, Cta!OneEntryAtATime

\* Where the strategy stands still, nothing changes for it.
LEMMA CtaStays == CtaInv /\ UNCHANGED ctaVars => CtaInv'
BY DEF CtaInv, ctaVars, CtaType, OneEntry
-----------------------------------------------------------------------------
(* The emergency stops: their locks, their reasons and who asks for them.  *)

StopSet == Stopping!ToSet(Stops)
OperatorPlaces == {"idle", "enter", "reason", "reset", "clear"}
AskerPlaces == {"idle", "any", "which", "name"}
Changes == {"calm", "trigger", "reset"}

StopType ==
  /\ triggered \in SUBSET StopSet
  /\ operator \in [Stopping!Callers -> OperatorPlaces \cup AskerPlaces]
  /\ \A c \in Operators : operator[c] \in OperatorPlaces
  /\ \A c \in Askers : operator[c] \in AskerPlaces
  /\ todo \in [Stopping!Callers -> Seq(StopSet)]
  /\ \A c \in Stopping!Callers : operator[c] # "idle" => todo[c] # <<>>
  /\ said \in [Askers -> {"none", "stopped", "clear", "unnamed"}]
  /\ since \in [Askers -> SUBSET Changes]

\* A thread has the lock of the stop it treats.
Locks(c) == operator[c] \in {"reason", "clear"}

\* No two threads have the lock of one stop.
Alone == \A c, d \in Stopping!Callers : c # d /\ Locks(c) /\ Locks(d) => Stopping!Stop(c) # Stopping!Stop(d)

\* The flag comes before the reason, and goes before it.
FlagFirst ==
  \A c \in Stopping!Callers :
    /\ operator[c] = "reason" => Stopping!Stop(c) \in triggered
    /\ operator[c] = "clear" => Stopping!Stop(c) \notin triggered

\* What is true of a thread that asks, and of the answer it was given last.
Hears(c) ==
  /\ said[c] = "clear" => since[c] \cap {"calm", "reset"} # {}
  /\ said[c] = "unnamed" => since[c] \cap {"trigger", "reset"} # {}

Sees(c) ==
  /\ operator[c] \in {"any", "which"} /\ since[c] \cap {"calm", "reset"} = {}
       => \E i \in 1..Len(todo[c]) : todo[c][i] \in triggered
  /\ Stopping!Asking(c) /\ since[c] \cap {"trigger", "reset"} = {}
       => /\ \A d \in Stopping!Callers : ~Locks(d)
          /\ operator[c] = "name" => Stopping!Stop(c) \in triggered

StopInv ==
  /\ StopType /\ Alone /\ FlagFirst
  /\ Stopping!ReasonsAreKept
  /\ \A c \in Askers : Hears(c) /\ Sees(c)

\* There are stops, and all of them are in the list.
LEMMA StopsAre == Stops \in Seq(StopSet) /\ Stops # <<>> /\ \A s \in StopSet : \E i \in 1..Len(Stops) : Stops[i] = s
<1>1. Stops \in Seq(StopNames) /\ Stops # <<>>
  BY ModelsAssumption
<1>2. /\ Len(Stops) \in Nat /\ DOMAIN Stops = 1..Len(Stops)
      /\ StopSet = {Stops[i] : i \in DOMAIN Stops}
  BY <1>1, LenProperties DEF StopSet, Stopping!ToSet
<1>3. \A i \in 1..Len(Stops) : Stops[i] \in StopSet
  BY <1>2
<1>4. Stops \in Seq(StopSet)
  BY <1>1, <1>2, <1>3
<1> QED BY <1>1, <1>2, <1>4

\* A thread that is not idle treats a stop.
LEMMA StopIs ==
    ASSUME StopType, NEW c \in Stopping!Callers, operator[c] # "idle"
    PROVE  todo[c] \in Seq(StopSet) /\ todo[c] # <<>> /\ Stopping!Stop(c) \in StopSet
<1>1. todo[c] \in Seq(StopSet) /\ todo[c] # <<>>
  BY DEF StopType
<1> QED BY <1>1, HeadTailProperties DEF Stopping!Stop

\* A thread moves: where it is, what it has to treat, and that the others stay.
LEMMA CallerMoves ==
    ASSUME StopType, NEW c \in Stopping!Callers, NEW place, NEW stops \in Seq(StopSet),
           operator' = [operator EXCEPT ![c] = place], todo' = [todo EXCEPT ![c] = stops],
           c \in Operators => place \in OperatorPlaces, c \in Askers => place \in AskerPlaces,
           place # "idle" => stops # <<>>,
           triggered' \in SUBSET StopSet,
           said' \in [Askers -> {"none", "stopped", "clear", "unnamed"}],
           since' \in [Askers -> SUBSET Changes]
    PROVE  /\ StopType' /\ operator'[c] = place /\ todo'[c] = stops
           /\ \A d \in Stopping!Callers \ {c} : operator'[d] = operator[d] /\ todo'[d] = todo[d]
<1>0. c \in Operators \/ c \in Askers
  BY DEF Stopping!Callers
<1>1. /\ operator'[c] = place /\ todo'[c] = stops
      /\ \A d \in Stopping!Callers \ {c} : operator'[d] = operator[d] /\ todo'[d] = todo[d]
  BY DEF StopType
<1>2. operator' \in [Stopping!Callers -> OperatorPlaces \cup AskerPlaces]
  BY <1>0 DEF StopType
<1>3. todo' \in [Stopping!Callers -> Seq(StopSet)]
  BY DEF StopType
<1>4. \A d \in Operators : operator'[d] \in OperatorPlaces
  BY <1>1 DEF StopType, Stopping!Callers
<1>5. \A d \in Askers : operator'[d] \in AskerPlaces
  BY <1>1 DEF StopType, Stopping!Callers
<1>6. \A d \in Stopping!Callers : operator'[d] # "idle" => todo'[d] # <<>>
  BY <1>1 DEF StopType
<1> QED BY <1>1, <1>2, <1>3, <1>4, <1>5, <1>6 DEF StopType

\* Those who ask are others than those who trigger and reset.
LEMMA AskerIs ==
    ASSUME NEW c \in Askers
    PROVE  c \in Stopping!Callers /\ c \notin Operators
BY ModelsAssumption DEF Stopping!Callers

\* A thread that asks has no lock.
LEMMA AskersLockNothing == ASSUME StopType, NEW c \in Askers PROVE ~Locks(c)
BY DEF StopType, Locks, AskerPlaces

\* No flag is up, nobody asks.
LEMMA StopInit == Stopping!Init => StopInv
<1> SUFFICES ASSUME Stopping!Init PROVE StopInv
  OBVIOUS
<1>1. /\ triggered = {} /\ reasons = {}
      /\ operator = [c \in Stopping!Callers |-> "idle"] /\ todo = [c \in Stopping!Callers |-> <<>>]
      /\ said = [c \in Askers |-> "none"] /\ since = [c \in Askers |-> {}]
  BY DEF Stopping!Init
<1>2. <<>> \in Seq(StopSet)
  OBVIOUS
<1>3. StopType
  BY <1>1, <1>2, AskerIs DEF StopType, OperatorPlaces, AskerPlaces, Stopping!Callers
<1>4. \A c \in Stopping!Callers : operator[c] = "idle"
  BY <1>1
<1>5. Alone /\ FlagFirst
  BY <1>4 DEF Alone, FlagFirst, Locks
<1>6. Stopping!ReasonsAreKept
  BY <1>1 DEF Stopping!ReasonsAreKept
<1>7. \A c \in Askers : Hears(c) /\ Sees(c)
  BY <1>1, <1>4, AskerIs DEF Hears, Sees, Stopping!Asking
<1> QED BY <1>3, <1>5, <1>6, <1>7 DEF StopInv

\* A thread that asks moves: the stops, their locks and the others who ask stay.
LEMMA AskerMoves ==
    ASSUME StopInv, NEW c \in Askers, NEW place \in AskerPlaces, NEW stops \in Seq(StopSet),
           operator' = [operator EXCEPT ![c] = place], todo' = [todo EXCEPT ![c] = stops],
           place # "idle" => stops # <<>>,
           UNCHANGED <<triggered, reasons>>,
           NEW reply \in {"none", "stopped", "clear", "unnamed"}, said' = [said EXCEPT ![c] = reply],
           NEW events \in SUBSET Changes, since' = [since EXCEPT ![c] = events],
           (Hears(c) /\ Sees(c))'
    PROVE  StopInv'
<1>0. StopType /\ Alone /\ FlagFirst /\ Stopping!ReasonsAreKept /\ c \in Stopping!Callers /\ c \notin Operators
  BY AskerIs DEF StopInv
<1>1. /\ said' \in [Askers -> {"none", "stopped", "clear", "unnamed"}] /\ since' \in [Askers -> SUBSET Changes]
      /\ triggered' \in SUBSET StopSet
      /\ \A d \in Askers \ {c} : said'[d] = said[d] /\ since'[d] = since[d]
  BY <1>0 DEF StopType
<1>2. /\ StopType' /\ operator'[c] = place /\ todo'[c] = stops
      /\ \A d \in Stopping!Callers \ {c} : operator'[d] = operator[d] /\ todo'[d] = todo[d]
  BY <1>0, <1>1, CallerMoves
<1>3. ~Locks(c) /\ ~Locks(c)'
  BY <1>0, <1>2, AskersLockNothing DEF StopType, Locks, AskerPlaces
<1>4. /\ \A d \in Stopping!Callers : Locks(d)' <=> Locks(d)
      /\ \A d \in Stopping!Callers \ {c} : Stopping!Stop(d)' = Stopping!Stop(d)
  BY <1>2, <1>3 DEF Locks, Stopping!Stop
<1>5. Alone'
  BY <1>0, <1>3, <1>4 DEF Alone
<1>6. FlagFirst'
  BY <1>0, <1>2, <1>3, <1>4 DEF FlagFirst, Locks
<1>7. Stopping!ReasonsAreKept'
  <2>1. \A s : Stopping!Held(s)' <=> Stopping!Held(s)
    BY <1>3, <1>4 DEF Stopping!Held, Locks
  <2> QED BY <1>0, <2>1 DEF Stopping!ReasonsAreKept
<1>8. ASSUME NEW d \in Askers, d # c PROVE (Hears(d) /\ Sees(d))'
  <2>1. d \in Stopping!Callers /\ Hears(d) /\ Sees(d)
    BY <1>8, AskerIs DEF StopInv
  <2>2. /\ said'[d] = said[d] /\ since'[d] = since[d] /\ operator'[d] = operator[d] /\ todo'[d] = todo[d]
        /\ Stopping!Stop(d)' = Stopping!Stop(d)
    BY <1>1, <1>2, <1>4, <1>8, <2>1
  <2>3. Hears(d)'
    BY <2>1, <2>2 DEF Hears
  <2>4. Sees(d)'
    BY <1>4, <2>1, <2>2 DEF Sees, Stopping!Asking
  <2> QED BY <2>3, <2>4
<1> QED BY <1>2, <1>5, <1>6, <1>7, <1>8 DEF StopInv

\* A thread asks.
LEMMA StopAsk == ASSUME StopInv, NEW c \in Askers, NEW step \in {"any", "which"}, Stopping!Ask(c, step) PROVE StopInv'
<1> DEFINE events == Stopping!Busy \cup (IF triggered = {} THEN {"calm"} ELSE {})
<1>1. /\ operator' = [operator EXCEPT ![c] = step] /\ todo' = [todo EXCEPT ![c] = Stops]
      /\ since' = [since EXCEPT ![c] = events] /\ said' = [said EXCEPT ![c] = "none"]
      /\ UNCHANGED <<triggered, reasons>>
      /\ operator[c] = "idle"
  BY DEF Stopping!Ask, Stopping!Call
<1>2. events \in SUBSET Changes
  BY DEF Stopping!Busy, Changes
<1>3. "calm" \in events \/ triggered # {}
  OBVIOUS
<1>4. events \cap {"trigger", "reset"} = {} => \A d \in Stopping!Callers : ~Locks(d)
  BY DEF Stopping!Busy, Locks
<1> HIDE DEF events
<1>5. step \in AskerPlaces /\ StopType /\ c \in Stopping!Callers /\ c \notin Operators
  BY AskerIs DEF AskerPlaces, StopInv
<1>6. /\ operator'[c] = step /\ todo'[c] = Stops /\ since'[c] = events /\ said'[c] = "none"
      /\ \A d \in Stopping!Callers \ {c} : operator'[d] = operator[d]
  BY <1>1, <1>5 DEF StopType
<1>7. Hears(c)'
  BY <1>6 DEF Hears
<1>8. Sees(c)'
  <2>1. ASSUME "calm" \notin events PROVE \E i \in 1..Len(todo'[c]) : todo'[c][i] \in triggered'
    <3>1. PICK s \in triggered : s \in StopSet
      BY <1>3, <1>5, <2>1 DEF StopType
    <3> QED BY <1>1, <1>6, <3>1, StopsAre
  <2>2. ~Locks(c)'
    BY <1>6 DEF Locks
  <2>3. events \cap {"trigger", "reset"} = {} => \A d \in Stopping!Callers : ~Locks(d)'
    BY <1>4, <1>6, <2>2 DEF Locks
  <2> QED BY <1>6, <2>1, <2>3 DEF Sees
<1> QED BY <1>1, <1>2, <1>5, <1>7, <1>8, StopsAre, AskerMoves

\* A thread that asks goes on, and whatever it hears, nothing happens to the stops.
LEMMA AskerGoes ==
    ASSUME StopInv, NEW c \in Askers, NEW place \in AskerPlaces, NEW stops \in Seq(StopSet),
           operator' = [operator EXCEPT ![c] = place], todo' = [todo EXCEPT ![c] = stops],
           place # "idle" => stops # <<>>,
           NEW reply \in {"none", "stopped", "clear", "unnamed"}, said' = [said EXCEPT ![c] = reply],
           UNCHANGED <<triggered, reasons, since>>,
           reply = "clear" => since[c] \cap {"calm", "reset"} # {},
           reply = "unnamed" => since[c] \cap {"trigger", "reset"} # {},
           place \in {"any", "which"} /\ since[c] \cap {"calm", "reset"} = {}
             => \E i \in 1..Len(stops) : stops[i] \in triggered,
           place # "idle" => operator[c] \in {"any", "which", "name"},
           place = "name" => Head(stops) \in triggered
    PROVE  StopInv'
<1>0. StopType /\ c \in Stopping!Callers /\ Sees(c)
  BY AskerIs DEF StopInv
<1>1. since[c] \in SUBSET Changes /\ since' = [since EXCEPT ![c] = since[c]] /\ since'[c] = since[c]
  BY <1>0 DEF StopType
<1>2. /\ operator'[c] = place /\ todo'[c] = stops /\ said'[c] = reply
      /\ \A d \in Stopping!Callers \ {c} : operator'[d] = operator[d]
  BY <1>0 DEF StopType
<1>3. Hears(c)'
  BY <1>1, <1>2 DEF Hears
<1>4. ~Locks(c)'
  BY <1>2 DEF Locks, AskerPlaces
<1>5. \A d \in Stopping!Callers : Locks(d)' => Locks(d)
  BY <1>2, <1>4 DEF Locks
<1>6. Stopping!Stop(c)' = Head(stops)
  BY <1>2 DEF Stopping!Stop
<1>7. Sees(c)'
  BY <1>0, <1>1, <1>2, <1>5, <1>6 DEF Sees, Stopping!Asking
<1> QED BY <1>1, <1>3, <1>7, AskerMoves

\* It reads a flag.
LEMMA StopRead == ASSUME StopInv, NEW c \in Askers, Stopping!Read(c) PROVE StopInv'
<1>0. /\ StopType /\ c \in Stopping!Callers /\ Sees(c) /\ Hears(c)
      /\ operator[c] \in {"any", "which"} /\ UNCHANGED <<triggered, reasons, since>>
  BY AskerIs DEF StopInv, Stopping!Read
<1>1. /\ todo[c] \in Seq(StopSet) /\ todo[c] # <<>> /\ Stopping!Stop(c) = Head(todo[c])
      /\ said[c] \in {"none", "stopped", "clear", "unnamed"}
      /\ said = [said EXCEPT ![c] = said[c]] /\ todo = [todo EXCEPT ![c] = todo[c]]
      /\ operator = [operator EXCEPT ![c] = operator[c]] /\ operator[c] \in AskerPlaces
  BY <1>0, StopIs DEF StopType, Stopping!Stop
<1>2. <<>> \in Seq(StopSet)
  OBVIOUS
<1>3. CASE Stopping!Stop(c) \in triggered /\ operator[c] = "any"
  <2>1. Stopping!Told(c, "stopped")
    BY <1>0, <1>3 DEF Stopping!Read
  <2> QED BY <1>0, <1>2, <2>1, AskerGoes DEF Stopping!Told, Stopping!Return, AskerPlaces
<1>4. CASE Stopping!Stop(c) \in triggered /\ operator[c] = "which"
  <2>1. operator' = [operator EXCEPT ![c] = "name"] /\ UNCHANGED <<todo, said>>
    BY <1>0, <1>4 DEF Stopping!Read
  <2>2. /\ said[c] = "clear" => since[c] \cap {"calm", "reset"} # {}
        /\ said[c] = "unnamed" => since[c] \cap {"trigger", "reset"} # {}
    BY <1>0 DEF Hears
  <2>3. said' = [said EXCEPT ![c] = said[c]] /\ todo' = [todo EXCEPT ![c] = todo[c]]
    BY <1>1, <2>1
  <2>4. "name" \in AskerPlaces /\ "name" \notin {"any", "which"} /\ Head(todo[c]) \in triggered
    BY <1>1, <1>4 DEF AskerPlaces
  <2>5. operator[c] \in {"any", "which", "name"} /\ UNCHANGED <<triggered, reasons, since>>
    BY <1>0
  <2> QED BY <1>1, <2>1, <2>2, <2>3, <2>4, <2>5, AskerGoes
<1>5. CASE Stopping!Stop(c) \notin triggered /\ Len(todo[c]) = 1
  <2>1. Stopping!Told(c, "clear")
    BY <1>0, <1>5 DEF Stopping!Read
  <2>2. since[c] \cap {"calm", "reset"} # {}
    <3> SUFFICES ASSUME since[c] \cap {"calm", "reset"} = {} PROVE FALSE
      OBVIOUS
    <3>1. PICK i \in 1..Len(todo[c]) : todo[c][i] \in triggered
      BY <1>0 DEF Sees
    <3>2. i = 1 /\ todo[c][1] = Head(todo[c])
      BY <1>1, <1>5, HeadTailProperties
    <3> QED BY <1>1, <1>5, <3>1, <3>2
  <2> QED BY <1>0, <1>2, <2>1, <2>2, AskerGoes DEF Stopping!Told, Stopping!Return, AskerPlaces
<1>6. CASE Stopping!Stop(c) \notin triggered /\ Len(todo[c]) # 1
  <2>1. todo' = [todo EXCEPT ![c] = Tail(todo[c])] /\ UNCHANGED <<operator, said>>
    BY <1>0, <1>6 DEF Stopping!Read
  <2>2. /\ Tail(todo[c]) \in Seq(StopSet) /\ Len(Tail(todo[c])) = Len(todo[c]) - 1
        /\ Len(todo[c]) \in Nat /\ Len(todo[c]) # 0
        /\ \A i \in 1..Len(todo[c]) - 1 : Tail(todo[c])[i] = todo[c][i + 1]
    BY <1>1, LenProperties, HeadTailProperties, EmptySeq
  <2>3. Tail(todo[c]) # <<>>
    <3>1. Len(todo[c]) - 1 # 0
      BY <1>6, <2>2
    <3>2. Len(<<>>) = 0
      OBVIOUS
    <3> QED BY <2>2, <3>1, <3>2, Zenon
  <2>4. ASSUME since[c] \cap {"calm", "reset"} = {}
        PROVE  \E i \in 1..Len(Tail(todo[c])) : Tail(todo[c])[i] \in triggered
    <3>1. PICK i \in 1..Len(todo[c]) : todo[c][i] \in triggered
      BY <1>0, <2>4 DEF Sees
    <3>2. todo[c][1] = Head(todo[c])
      BY <1>1
    <3>3. i # 1
      BY <1>1, <1>6, <3>1, <3>2
    <3>4. i - 1 \in 1..Len(todo[c]) - 1 /\ (i - 1) + 1 = i
      BY <2>2, <3>3
    <3> QED BY <2>2, <3>1, <3>4
  <2>5. /\ said[c] = "clear" => since[c] \cap {"calm", "reset"} # {}
        /\ said[c] = "unnamed" => since[c] \cap {"trigger", "reset"} # {}
    BY <1>0 DEF Hears
  <2>6. said' = [said EXCEPT ![c] = said[c]] /\ operator' = [operator EXCEPT ![c] = operator[c]]
    BY <1>1, <2>1
  <2> QED BY <1>0, <1>1, <2>1, <2>2, <2>3, <2>4, <2>5, <2>6, AskerGoes
<1> QED BY <1>0, <1>3, <1>4, <1>5, <1>6

\* It reads a reason.
LEMMA StopReadReason == ASSUME StopInv, NEW c \in Askers, Stopping!ReadReason(c) PROVE StopInv'
<1>0. /\ StopType /\ c \in Stopping!Callers /\ Sees(c) /\ Stopping!ReasonsAreKept
      /\ operator[c] = "name" /\ UNCHANGED <<triggered, reasons, since>>
      /\ Stopping!Told(c, IF Stopping!Stop(c) \in reasons THEN "stopped" ELSE "unnamed")
  BY AskerIs DEF StopInv, Stopping!ReadReason
<1>1. Stopping!Stop(c) \in StopSet /\ <<>> \in Seq(StopSet)
  BY <1>0, StopIs
<1>2. ASSUME Stopping!Stop(c) \notin reasons PROVE since[c] \cap {"trigger", "reset"} # {}
  <2> SUFFICES ASSUME since[c] \cap {"trigger", "reset"} = {} PROVE FALSE
    OBVIOUS
  <2>1. (\A d \in Stopping!Callers : ~Locks(d)) /\ Stopping!Stop(c) \in triggered
    BY <1>0 DEF Sees, Stopping!Asking
  <2>2. ~Stopping!Held(Stopping!Stop(c))
    BY <2>1 DEF Stopping!Held, Locks
  <2> QED BY <1>0, <1>1, <1>2, <2>1, <2>2 DEF Stopping!ReasonsAreKept, StopSet
<1> QED BY <1>0, <1>1, <1>2, AskerGoes DEF Stopping!Told, Stopping!Return, AskerPlaces

\* A thread that triggers or resets moves, and no flag changes: what it gives or takes is
\* the reason of the stop whose lock it had.
LEMMA OperatorGoes ==
    ASSUME StopInv, NEW c \in Operators, NEW place \in {"idle", "enter", "reset"}, NEW stops \in Seq(StopSet),
           operator' = [operator EXCEPT ![c] = place], todo' = [todo EXCEPT ![c] = stops],
           place # "idle" => stops # <<>>,
           UNCHANGED <<triggered, said, since>>,
           \/ ~Locks(c) /\ reasons' = reasons
           \/ operator[c] = "reason" /\ reasons' = reasons \cup {Stopping!Stop(c)}
           \/ operator[c] = "clear" /\ reasons' = reasons \ {Stopping!Stop(c)}
    PROVE  StopInv'
<1>0. StopType /\ Alone /\ FlagFirst /\ Stopping!ReasonsAreKept /\ c \in Stopping!Callers /\ c \notin Askers
  BY ModelsAssumption DEF StopInv, Stopping!Callers
<1>1. /\ triggered' \in SUBSET StopSet /\ said' \in [Askers -> {"none", "stopped", "clear", "unnamed"}]
      /\ since' \in [Askers -> SUBSET Changes] /\ place \in OperatorPlaces
  BY <1>0 DEF StopType, OperatorPlaces
<1>2. /\ StopType' /\ operator'[c] = place /\ todo'[c] = stops
      /\ \A d \in Stopping!Callers \ {c} : operator'[d] = operator[d] /\ todo'[d] = todo[d]
  BY <1>0, <1>1, CallerMoves
<1>3. ~Locks(c)'
  BY <1>2 DEF Locks
<1>4. /\ \A d \in Stopping!Callers \ {c} : (Locks(d)' <=> Locks(d)) /\ Stopping!Stop(d)' = Stopping!Stop(d)
  BY <1>2 DEF Locks, Stopping!Stop
<1>5. Alone'
  BY <1>0, <1>3, <1>4 DEF Alone
<1>6. FlagFirst'
  BY <1>0, <1>2, <1>3, <1>4 DEF FlagFirst, Locks
<1>7. Stopping!ReasonsAreKept'
  <2> SUFFICES ASSUME NEW s \in StopSet, ~Stopping!Held(s)' PROVE (s \in triggered <=> s \in reasons)'
    BY DEF Stopping!ReasonsAreKept, StopSet
  <2>1. \A d \in Stopping!Callers : Locks(d)' => Stopping!Stop(d)' # s
    BY DEF Stopping!Held, Locks
  <2>2. CASE Locks(c) /\ Stopping!Stop(c) = s
    BY <1>0, <2>2 DEF FlagFirst, Locks
  <2>3. CASE ~(Locks(c) /\ Stopping!Stop(c) = s)
    <3>1. ~Stopping!Held(s)
      BY <1>4, <2>1, <2>3 DEF Stopping!Held, Locks
    <3>2. s \in reasons' <=> s \in reasons
      BY <2>3 DEF Locks
    <3> QED BY <1>0, <3>1, <3>2 DEF Stopping!ReasonsAreKept, StopSet
  <2> QED BY <2>2, <2>3
<1>8. ASSUME NEW d \in Askers PROVE (Hears(d) /\ Sees(d))'
  <2>1. d \in Stopping!Callers \ {c} /\ Hears(d) /\ Sees(d)
    BY <1>0, AskerIs DEF StopInv
  <2>2. /\ said'[d] = said[d] /\ since'[d] = since[d] /\ operator'[d] = operator[d] /\ todo'[d] = todo[d]
        /\ Stopping!Stop(d)' = Stopping!Stop(d)
    BY <1>2, <1>4, <2>1
  <2>3. Hears(d)'
    BY <2>1, <2>2 DEF Hears
  <2>4. \A e \in Stopping!Callers : Locks(e)' => Locks(e)
    BY <1>3, <1>4
  <2>5. Sees(d)'
    BY <2>1, <2>2, <2>4 DEF Sees, Stopping!Asking
  <2> QED BY <2>3, <2>5
<1> QED BY <1>2, <1>5, <1>6, <1>7, <1>8 DEF StopInv

\* A thread takes the lock, and sets the flag or takes it down; those who ask witness it.
LEMMA OperatorLocks ==
    ASSUME StopInv, NEW c \in Operators, operator[c] \in {"enter", "reset"},
           ~Stopping!Held(Stopping!Stop(c)), UNCHANGED <<reasons, todo, said>>,
           NEW event \in {"trigger", "reset"}, Stopping!Witnessed(event),
           \/ event = "trigger" /\ operator' = [operator EXCEPT ![c] = "reason"]
              /\ triggered' = triggered \cup {Stopping!Stop(c)}
           \/ event = "reset" /\ operator' = [operator EXCEPT ![c] = "clear"]
              /\ triggered' = triggered \ {Stopping!Stop(c)}
    PROVE  StopInv'
<1> DEFINE stop == Stopping!Stop(c)
           place == IF event = "trigger" THEN "reason" ELSE "clear"
<1>0. StopType /\ Alone /\ FlagFirst /\ Stopping!ReasonsAreKept /\ c \in Stopping!Callers /\ c \notin Askers
  BY ModelsAssumption DEF StopInv, Stopping!Callers
<1>1. todo[c] \in Seq(StopSet) /\ todo[c] # <<>> /\ stop \in StopSet /\ todo' = [todo EXCEPT ![c] = todo[c]]
  BY <1>0, StopIs DEF StopType
<1>2. \A d \in Askers :
        since'[d] = IF Stopping!Asking(d) THEN since[d] \cup {event} \cup (IF triggered' = {} THEN {"calm"} ELSE {})
                    ELSE since[d]
  BY DEF Stopping!Witnessed
<1>3. since' \in [Askers -> SUBSET Changes]
  <2>1. since' = [d \in Askers |-> since'[d]]
    BY DEF Stopping!Witnessed
  <2>2. \A d \in Askers : since'[d] \in SUBSET Changes
    <3> SUFFICES ASSUME NEW d \in Askers PROVE since'[d] \in SUBSET Changes
      OBVIOUS
    <3>1. since[d] \in SUBSET Changes
      BY <1>0 DEF StopType
    <3>2. event \in Changes /\ "calm" \in Changes
      BY DEF Changes
    <3>3. since'[d] \subseteq since[d] \cup {event} \cup {"calm"}
      BY <1>2
    <3> QED BY <3>1, <3>2, <3>3
  <2> QED BY <2>1, <2>2
<1>4. /\ operator' = [operator EXCEPT ![c] = place] /\ place \in OperatorPlaces
      /\ triggered' \in SUBSET StopSet /\ said' \in [Askers -> {"none", "stopped", "clear", "unnamed"}]
  BY <1>0, <1>1 DEF OperatorPlaces, StopType
<1>5. /\ StopType' /\ operator'[c] = place /\ todo'[c] = todo[c]
      /\ \A d \in Stopping!Callers \ {c} : operator'[d] = operator[d] /\ todo'[d] = todo[d]
  BY <1>0, <1>1, <1>3, <1>4, CallerMoves
<1>6. /\ \A d \in Stopping!Callers : Stopping!Stop(d)' = Stopping!Stop(d)
      /\ \A d \in Stopping!Callers \ {c} : Locks(d)' <=> Locks(d)
  BY <1>5 DEF Locks, Stopping!Stop
<1>7. \A d \in Stopping!Callers : Locks(d) => Stopping!Stop(d) # stop
  BY DEF Stopping!Held, Locks
<1>8. Alone'
  BY <1>0, <1>6, <1>7 DEF Alone
<1>9. FlagFirst'
  <2>1. (operator'[c] = "reason" => stop \in triggered') /\ (operator'[c] = "clear" => stop \notin triggered')
    BY <1>5
  <2>2. ASSUME NEW d \in Stopping!Callers \ {c}, Locks(d)
        PROVE  Stopping!Stop(d) \in triggered' <=> Stopping!Stop(d) \in triggered
    BY <1>7, <2>2
  <2> QED BY <1>0, <1>5, <1>6, <2>1, <2>2 DEF FlagFirst, Locks
<1>10. Stopping!ReasonsAreKept'
  <2> SUFFICES ASSUME NEW s \in StopSet, ~Stopping!Held(s)' PROVE (s \in triggered <=> s \in reasons)'
    BY DEF Stopping!ReasonsAreKept, StopSet
  <2>1. \A d \in Stopping!Callers : Locks(d)' => Stopping!Stop(d)' # s
    BY DEF Stopping!Held, Locks
  <2>2. s # stop
    BY <1>0, <1>5, <1>6, <2>1 DEF Locks
  <2>3. ~Stopping!Held(s)
    BY <1>6, <2>1, <2>2 DEF Stopping!Held, Locks
  <2> QED BY <1>0, <2>2, <2>3 DEF Stopping!ReasonsAreKept, StopSet
<1>11. ASSUME NEW d \in Askers PROVE (Hears(d) /\ Sees(d))'
  <2>1. d \in Stopping!Callers \ {c} /\ Hears(d) /\ Sees(d)
    BY <1>0, AskerIs DEF StopInv
  <2>2. /\ said'[d] = said[d] /\ operator'[d] = operator[d] /\ todo'[d] = todo[d]
        /\ Stopping!Asking(d)' <=> Stopping!Asking(d)
    BY <1>5, <2>1 DEF Stopping!Asking
  <2>3. since[d] \subseteq since'[d] /\ (Stopping!Asking(d) => event \in since'[d])
    BY <1>2
  <2>4. Hears(d)'
    BY <2>1, <2>2, <2>3 DEF Hears
  <2>5. Sees(d)'
    <3>1. ASSUME operator'[d] \in {"any", "which"}, since'[d] \cap {"calm", "reset"} = {}
          PROVE  \E i \in 1..Len(todo'[d]) : todo'[d][i] \in triggered'
      <4>1. event = "trigger" /\ since[d] \cap {"calm", "reset"} = {}
        BY <2>2, <2>3, <3>1 DEF Stopping!Asking
      <4> QED BY <2>1, <2>2, <3>1, <4>1 DEF Sees
    <3>2. ~(Stopping!Asking(d)' /\ since'[d] \cap {"trigger", "reset"} = {})
      BY <2>2, <2>3
    <3> QED BY <3>1, <3>2 DEF Sees
  <2> QED BY <2>4, <2>5
<1> QED BY <1>5, <1>8, <1>9, <1>10, <1>11 DEF StopInv

\* A thread that triggers or resets keeps the invariant.
LEMMA StopOperate ==
    ASSUME StopInv, NEW c \in Operators,
           \/ Stopping!Enter(c) \/ Stopping!GiveReason(c) \/ Stopping!Unset(c) \/ Stopping!Clear(c)
           \/ Stopping!ResetAll(c)
           \/ \E s \in StopSet : Stopping!Trigger(c, s) \/ Stopping!Reset(c, s)
    PROVE  StopInv'
<1>0. /\ StopType /\ c \in Stopping!Callers /\ <<>> \in Seq(StopSet)
      /\ \A s \in StopSet : <<s>> \in Seq(StopSet) /\ <<s>> # <<>>
  BY DEF StopInv, Stopping!Callers
<1>1. ASSUME NEW s \in StopSet, Stopping!Trigger(c, s) \/ Stopping!Reset(c, s) PROVE StopInv'
  <2>1. PICK place \in {"enter", "reset"} :
          /\ operator' = [operator EXCEPT ![c] = place] /\ todo' = [todo EXCEPT ![c] = <<s>>]
          /\ operator[c] = "idle" /\ UNCHANGED <<triggered, reasons, said, since>>
    BY <1>1 DEF Stopping!Trigger, Stopping!Reset, Stopping!Call
  <2>2. ~Locks(c)
    BY <2>1 DEF Locks
  <2> QED BY <1>0, <2>1, <2>2, OperatorGoes
<1>2. CASE Stopping!ResetAll(c)
  <2>1. /\ operator' = [operator EXCEPT ![c] = "reset"] /\ todo' = [todo EXCEPT ![c] = Stops]
        /\ operator[c] = "idle" /\ UNCHANGED <<triggered, reasons, said, since>>
    BY <1>2 DEF Stopping!ResetAll, Stopping!Call
  <2>2. ~Locks(c)
    BY <2>1 DEF Locks
  <2> QED BY <2>1, <2>2, StopsAre, OperatorGoes
<1>3. CASE Stopping!Enter(c)
  <2>1. operator[c] = "enter" /\ ~Stopping!Held(Stopping!Stop(c)) /\ UNCHANGED <<reasons, said>>
    BY <1>3 DEF Stopping!Enter
  <2>2. CASE Stopping!Stop(c) \in triggered
    <3>1. Stopping!Return(c) /\ UNCHANGED <<triggered, since>> /\ ~Locks(c)
      BY <1>3, <2>1, <2>2 DEF Stopping!Enter, Locks
    <3> QED BY <1>0, <2>1, <3>1, OperatorGoes DEF Stopping!Return
  <2>3. CASE Stopping!Stop(c) \notin triggered
    <3>1. /\ operator' = [operator EXCEPT ![c] = "reason"] /\ todo' = todo
          /\ triggered' = triggered \cup {Stopping!Stop(c)} /\ Stopping!Witnessed("trigger")
      BY <1>3, <2>3 DEF Stopping!Enter
    <3> QED BY <2>1, <3>1, OperatorLocks
  <2> QED BY <2>2, <2>3
<1>4. CASE Stopping!GiveReason(c)
  <2>1. /\ operator[c] = "reason" /\ reasons' = reasons \cup {Stopping!Stop(c)} /\ Stopping!Return(c)
        /\ UNCHANGED <<triggered, said, since>>
    BY <1>4 DEF Stopping!GiveReason
  <2> QED BY <1>0, <2>1, OperatorGoes DEF Stopping!Return
<1>5. CASE Stopping!Unset(c)
  <2>1. /\ operator[c] = "reset" /\ ~Stopping!Held(Stopping!Stop(c)) /\ UNCHANGED <<reasons, todo, said>>
        /\ operator' = [operator EXCEPT ![c] = "clear"]
        /\ triggered' = triggered \ {Stopping!Stop(c)} /\ Stopping!Witnessed("reset")
    BY <1>5 DEF Stopping!Unset
  <2> QED BY <2>1, OperatorLocks
<1>6. CASE Stopping!Clear(c)
  <2>1. /\ operator[c] = "clear" /\ reasons' = reasons \ {Stopping!Stop(c)}
        /\ UNCHANGED <<triggered, said, since>>
    BY <1>6 DEF Stopping!Clear
  <2>2. CASE Len(todo[c]) = 1
    <3>1. Stopping!Return(c)
      BY <1>6, <2>2 DEF Stopping!Clear
    <3> QED BY <1>0, <2>1, <3>1, OperatorGoes DEF Stopping!Return
  <2>3. CASE Len(todo[c]) # 1
    <3>1. operator' = [operator EXCEPT ![c] = "reset"] /\ todo' = [todo EXCEPT ![c] = Tail(todo[c])]
      BY <1>6, <2>3 DEF Stopping!Clear
    <3>2. todo[c] \in Seq(StopSet) /\ todo[c] # <<>>
      BY <1>0, <2>1, StopIs
    <3>3. Tail(todo[c]) \in Seq(StopSet) /\ Len(Tail(todo[c])) = Len(todo[c]) - 1 /\ Len(todo[c]) \in Nat
      BY <3>2, LenProperties, HeadTailProperties
    <3>4. Tail(todo[c]) # <<>>
      <4>1. Len(todo[c]) - 1 # 0
        BY <2>3, <3>3
      <4>2. Len(<<>>) = 0
        OBVIOUS
      <4> QED BY <3>3, <4>1, <4>2, Zenon
    <3> QED BY <2>1, <3>1, <3>3, <3>4, OperatorGoes
  <2> QED BY <2>2, <2>3
<1> QED BY <1>1, <1>2, <1>3, <1>4, <1>5, <1>6

\* The stops keep their invariant.
LEMMA StopStep == StopInv /\ Stopping!Next => StopInv'
BY StopOperate, StopRead, StopReadReason, StopAsk DEF Stopping!Next, StopSet

\* What the stops promise to everybody.
LEMMA StopHolds == StopInv => Stopping!ReasonsAreKept /\ Stopping!AskedIsTrue
BY DEF StopInv, Hears, Stopping!AskedIsTrue

\* Where the stops stand still, nothing changes for them.
LEMMA StopStays == StopInv /\ UNCHANGED stopVars => StopInv'
BY DEF StopInv, stopVars, StopType, Alone, FlagFirst, Locks, Hears, Sees,
       Stopping!ReasonsAreKept, Stopping!Held, Stopping!Stop, Stopping!Asking
-----------------------------------------------------------------------------
(* The alerts about full streams: the handler that is made once.           *)

PublisherPlaces == {"idle", "mark", "look", "fill", "check", "stamp"}

PressureType ==
  /\ now \in Nat /\ handler \in {"absent", "bare", "made", "ready"}
  /\ stamped \in [Streams -> Nat] /\ alerted \in [Streams -> Nat]
  /\ enabled \in BOOLEAN /\ asked \in BOOLEAN /\ filled \in BOOLEAN
  /\ publisher \in [Publishers -> PublisherPlaces] /\ about \in [Publishers -> Streams]

\* One thread makes the handler, and those that use it find it made.
MadeOnce ==
  /\ \A t \in Publishers :
       /\ publisher[t] = "mark" => handler = "bare"
       /\ publisher[t] = "look" => handler # "absent"
       /\ publisher[t] = "fill" => handler \in {"made", "ready"}
       /\ publisher[t] \in {"check", "stamp"} => handler = "ready"
  /\ \A t, u \in Publishers : publisher[t] = "mark" /\ publisher[u] = "mark" => t = u

\* Who is about to stamp an alert comes late enough after the last one, or has overlapped.
Due(t) == about[t] \in alike \/ now - stamped[about[t]] >= Cooldown

\* Of a handler that nobody filled in a second time: it has the alerts there were, and
\* none before it is ready.
Filled ==
  /\ enabled = asked /\ hurried \subseteq alike /\ stamped = alerted
  /\ handler # "ready" => asked = TRUE /\ \A s \in Streams : alerted[s] = 0
  /\ \A t \in Publishers : publisher[t] = "stamp" => Due(t)

PressureInv == PressureType /\ MadeOnce /\ (filled \/ Filled)

\* There is no handler.
LEMMA PressureInit == Pressure!Init => PressureInv
<1> SUFFICES ASSUME Pressure!Init PROVE PressureInv
  OBVIOUS
<1>1. /\ now = Cooldown /\ handler = "absent" /\ stamped = [s \in Streams |-> 0] /\ alerted = stamped
      /\ enabled = TRUE /\ asked = TRUE /\ filled = FALSE /\ hurried = {} /\ alike = {}
      /\ publisher = [t \in Publishers |-> "idle"]
      /\ about = [t \in Publishers |-> CHOOSE s \in Streams : TRUE]
  BY DEF Pressure!Init
<1>2. Cooldown \in Nat /\ (CHOOSE s \in Streams : TRUE) \in Streams /\ 0 \in Nat
  BY ModelsAssumption
<1>3. PressureType
  <2>1. publisher \in [Publishers -> PublisherPlaces] /\ about \in [Publishers -> Streams]
    BY <1>1, <1>2 DEF PublisherPlaces
  <2>2. stamped \in [Streams -> Nat] /\ alerted \in [Streams -> Nat]
    BY <1>1, <1>2
  <2>3. enabled \in BOOLEAN /\ asked \in BOOLEAN /\ filled \in BOOLEAN
    BY <1>1, Zenon
  <2> QED BY <1>1, <1>2, <2>1, <2>2, <2>3 DEF PressureType
<1>4. MadeOnce
  BY <1>1 DEF MadeOnce
<1>5. Filled
  <2>1. enabled = asked
    BY <1>1, Zenon
  <2> QED BY <1>1, <2>1 DEF Filled
<1> QED BY <1>3, <1>4, <1>5 DEF PressureInv

\* A thread moves to another place, and the others stay.
LEMMA PublisherMoves ==
    ASSUME PressureType, NEW t \in Publishers, NEW place \in PublisherPlaces, Pressure!Goes(t, place)
    PROVE  /\ publisher' \in [Publishers -> PublisherPlaces] /\ publisher'[t] = place
           /\ \A u \in Publishers \ {t} : publisher'[u] = publisher[u]
BY DEF PressureType, Pressure!Goes

\* Alerts, switches and the handler stay as they are, and a thread moves that is not about
\* to stamp, or one that found its alert due.
LEMMA PressureMoves ==
    ASSUME PressureInv, NEW t \in Publishers, NEW place \in PublisherPlaces, Pressure!Goes(t, place),
           UNCHANGED <<now, stamped, enabled, asked, filled, alerted, hurried, alike>>,
           handler' \in {"absent", "bare", "made", "ready"}, handler' = "ready" <=> handler = "ready",
           about' \in [Publishers -> Streams], \A u \in Publishers \ {t} : about'[u] = about[u],
           place = "stamp" => about'[t] = about[t] /\ Due(t), MadeOnce'
    PROVE  PressureInv'
<1>1. /\ publisher' \in [Publishers -> PublisherPlaces] /\ publisher'[t] = place
      /\ \A u \in Publishers \ {t} : publisher'[u] = publisher[u]
  BY PublisherMoves DEF PressureInv
<1>2. PressureType'
  BY <1>1 DEF PressureInv, PressureType
<1>3. ASSUME Filled PROVE Filled'
  <2>1. /\ enabled' = asked' /\ hurried' \subseteq alike' /\ stamped' = alerted'
        /\ handler' # "ready" => asked' = TRUE /\ \A s \in Streams : alerted'[s] = 0
    BY <1>3 DEF Filled
  <2>2. ASSUME NEW u \in Publishers, publisher'[u] = "stamp" PROVE Due(u)'
    <3>1. CASE u = t
      BY <1>1, <2>2, <3>1 DEF Due
    <3>2. CASE u # t
      BY <1>1, <1>3, <2>2, <3>2 DEF Filled, Due
    <3> QED BY <3>1, <3>2
  <2> QED BY <2>1, <2>2 DEF Filled
<1> QED BY <1>2, <1>3 DEF PressureInv

\* A thread asks for the handler.
LEMMA PressureNew == ASSUME PressureInv, NEW t \in Publishers, NEW s \in Streams, Pressure!New(t, s) PROVE PressureInv'
<1>0. /\ publisher[t] = "idle" /\ about' = [about EXCEPT ![t] = s]
      /\ UNCHANGED <<now, stamped, enabled, asked, filled, alerted, hurried, alike>>
      /\ PressureType /\ MadeOnce
  BY DEF Pressure!New, PressureInv
<1>1. about' \in [Publishers -> Streams] /\ \A u \in Publishers \ {t} : about'[u] = about[u]
  BY <1>0 DEF PressureType
<1>2. CASE handler = "absent"
  <2>1. handler' = "bare" /\ Pressure!Goes(t, "mark")
    BY <1>2 DEF Pressure!New
  <2>2. "mark" \in PublisherPlaces
    BY DEF PublisherPlaces
  <2>3. publisher'[t] = "mark" /\ \A u \in Publishers \ {t} : publisher'[u] = publisher[u]
    BY <1>0, <2>1, <2>2, PublisherMoves
  <2>4. MadeOnce'
    BY <1>0, <1>2, <2>1, <2>3 DEF MadeOnce
  <2> QED BY <1>0, <1>1, <1>2, <2>1, <2>2, <2>4, PressureMoves
<1>3. CASE handler # "absent"
  <2>1. handler' = handler /\ Pressure!Goes(t, "look")
    BY <1>3 DEF Pressure!New
  <2>2. "look" \in PublisherPlaces
    BY DEF PublisherPlaces
  <2>3. publisher'[t] = "look" /\ \A u \in Publishers \ {t} : publisher'[u] = publisher[u]
    BY <1>0, <2>1, <2>2, PublisherMoves
  <2>4. MadeOnce'
    BY <1>0, <1>3, <2>1, <2>3 DEF MadeOnce
  <2> QED BY <1>0, <1>1, <2>1, <2>2, <2>4, PressureMoves DEF PressureType
<1> QED BY <1>2, <1>3

\* It marks the handler as made.
LEMMA PressureMark == ASSUME PressureInv, NEW t \in Publishers, Pressure!Mark(t) PROVE PressureInv'
<1>0. /\ publisher[t] = "mark" /\ handler' = "made" /\ Pressure!Goes(t, "look")
      /\ UNCHANGED <<now, stamped, enabled, about, asked, filled, alerted, hurried, alike>>
      /\ PressureType /\ MadeOnce /\ "look" \in PublisherPlaces
  BY DEF Pressure!Mark, PressureInv, PublisherPlaces
<1>1. publisher'[t] = "look" /\ \A u \in Publishers \ {t} : publisher'[u] = publisher[u]
  BY <1>0, PublisherMoves
<1>2. handler = "bare"
  BY <1>0 DEF MadeOnce
<1>3. MadeOnce'
  BY <1>0, <1>1, <1>2 DEF MadeOnce
<1>4. about' \in [Publishers -> Streams]
  BY <1>0 DEF PressureType
<1> QED BY <1>0, <1>2, <1>3, <1>4, PressureMoves

\* It looks whether the handler is initialized.
LEMMA PressureLook == ASSUME PressureInv, NEW t \in Publishers, Pressure!Look(t) PROVE PressureInv'
<1>0. /\ publisher[t] = "look" /\ PressureType /\ MadeOnce
      /\ UNCHANGED <<now, handler, stamped, enabled, about, asked, filled, alerted, hurried, alike>>
  BY DEF Pressure!Look, PressureInv
<1>1. PICK place \in {"idle", "fill", "check"} :
        /\ Pressure!Goes(t, place)
        /\ place = "fill" => handler = "made"
        /\ place = "check" => handler \notin {"bare", "made"}
  BY Zenon DEF Pressure!Look
<1>2. place \in PublisherPlaces /\ about' \in [Publishers -> Streams]
  BY <1>0 DEF PublisherPlaces, PressureType
<1>3. publisher'[t] = place /\ \A u \in Publishers \ {t} : publisher'[u] = publisher[u]
  BY <1>0, <1>1, <1>2, PublisherMoves
<1>4. place = "check" => handler = "ready"
  BY <1>0, <1>1 DEF PressureType, MadeOnce
<1>5. MadeOnce'
  BY <1>0, <1>1, <1>3, <1>4 DEF MadeOnce
<1> QED BY <1>0, <1>1, <1>2, <1>5, PressureMoves DEF PressureType

\* It looks whether an alert is due.
LEMMA PressureCheck == ASSUME PressureInv, NEW t \in Publishers, Pressure!Check(t) PROVE PressureInv'
<1>0. /\ publisher[t] = "check" /\ PressureType /\ MadeOnce
      /\ UNCHANGED <<now, handler, stamped, enabled, about, asked, filled, alerted, hurried, alike>>
  BY DEF Pressure!Check, PressureInv
<1>1. PICK place \in {"idle", "stamp"} : Pressure!Goes(t, place) /\ (place = "stamp" => Pressure!ShouldAlert(about[t]))
  BY Zenon DEF Pressure!Check
<1>2. place \in PublisherPlaces /\ about' \in [Publishers -> Streams]
  BY <1>0 DEF PublisherPlaces, PressureType
<1>3. publisher'[t] = place /\ \A u \in Publishers \ {t} : publisher'[u] = publisher[u]
  BY <1>0, <1>1, <1>2, PublisherMoves
<1>4. MadeOnce'
  BY <1>0, <1>3 DEF MadeOnce
<1>5. place = "stamp" => Due(t)
  BY <1>1 DEF Due, Pressure!ShouldAlert
<1> QED BY <1>0, <1>1, <1>2, <1>4, <1>5, PressureMoves DEF PressureType

\* It fills in the handler.
LEMMA PressureFill == ASSUME PressureInv, NEW t \in Publishers, Pressure!Fill(t) PROVE PressureInv'
<1>0. /\ publisher[t] = "fill" /\ PressureType /\ MadeOnce /\ "check" \in PublisherPlaces
      /\ stamped' = [s \in Streams |-> 0] /\ enabled' = TRUE /\ handler' = "ready"
      /\ Pressure!Goes(t, "check")
      /\ UNCHANGED <<now, about, asked, alerted, hurried, alike>>
  BY DEF Pressure!Fill, PressureInv, PublisherPlaces
<1>1. filled' = (filled \/ handler = "ready")
  BY DEF Pressure!Fill
<1>2. /\ publisher' \in [Publishers -> PublisherPlaces] /\ publisher'[t] = "check"
      /\ \A u \in Publishers \ {t} : publisher'[u] = publisher[u]
  BY <1>0, PublisherMoves
<1>3. PressureType'
  <2>1. stamped' \in [Streams -> Nat]
    BY <1>0
  <2>2. enabled' \in BOOLEAN /\ filled' \in BOOLEAN
    BY <1>0, <1>1, Zenon
  <2> QED BY <1>0, <1>2, <2>1, <2>2 DEF PressureType
<1>4. handler \in {"made", "ready"}
  BY <1>0 DEF MadeOnce
<1>5. MadeOnce'
  BY <1>0, <1>2, <1>4 DEF MadeOnce
<1>6. ASSUME ~filled' PROVE Filled'
  <2>1. ~filled /\ handler = "made"
    BY <1>1, <1>4, <1>6, Zenon
  <2>2. Filled
    BY <2>1 DEF PressureInv
  <2>3. \A u \in Publishers : publisher'[u] # "stamp"
    BY <1>0, <1>2, <2>1 DEF MadeOnce
  <2>4. asked = TRUE /\ (\A s \in Streams : alerted[s] = 0) /\ hurried \subseteq alike
    BY <2>1, <2>2 DEF Filled
  <2>5. enabled' = asked'
    BY <1>0, <2>4, Zenon
  <2>6. stamped' = alerted'
    BY <1>0, <2>4 DEF PressureType
  <2> QED BY <1>0, <2>3, <2>4, <2>5, <2>6 DEF Filled
<1> QED BY <1>3, <1>5, <1>6 DEF PressureInv

\* It stamps an alert.
LEMMA PressureStamp == ASSUME PressureInv, NEW t \in Publishers, Pressure!Stamp(t) PROVE PressureInv'
<1> DEFINE s == about[t]
<1>0. /\ publisher[t] = "stamp" /\ PressureType /\ MadeOnce /\ "idle" \in PublisherPlaces
      /\ stamped' = [stamped EXCEPT ![s] = now] /\ alerted' = [alerted EXCEPT ![s] = now]
      /\ hurried' = IF alerted[s] # 0 /\ now - alerted[s] < Cooldown THEN hurried \cup {s} ELSE hurried
      /\ alike' = IF \E u \in Publishers \ {t} : publisher[u] = "stamp" /\ about[u] = s THEN alike \cup {s} ELSE alike
      /\ Pressure!Goes(t, "idle")
      /\ UNCHANGED <<now, handler, enabled, about, asked, filled>>
  BY DEF Pressure!Stamp, PressureInv, PublisherPlaces
<1>1. s \in Streams /\ now \in Nat /\ Cooldown \in Nat
  BY <1>0, ModelsAssumption DEF PressureType
<1>2. /\ publisher' \in [Publishers -> PublisherPlaces] /\ publisher'[t] = "idle"
      /\ \A u \in Publishers \ {t} : publisher'[u] = publisher[u]
  BY <1>0, PublisherMoves
<1>3. PressureType'
  BY <1>0, <1>1, <1>2 DEF PressureType
<1>4. handler = "ready" /\ MadeOnce'
  BY <1>0, <1>2 DEF MadeOnce
<1>5. ASSUME Filled PROVE Filled'
  <2>1. Due(t) /\ stamped[s] \in Nat /\ stamped = alerted /\ hurried \subseteq alike /\ alike \subseteq alike'
    BY <1>0, <1>1, <1>5 DEF Filled, PressureType
  <2>2. hurried' \subseteq alike'
    <3>1. CASE s \in alike
      BY <1>0, <2>1, <3>1
    <3>2. CASE s \notin alike
      <4>1. ~(now - alerted[s] < Cooldown)
        BY <1>1, <2>1, <3>2 DEF Due
      <4> QED BY <1>0, <2>1, <4>1
    <3> QED BY <3>1, <3>2
  <2>3. stamped' = alerted'
    BY <1>0, <2>1
  <2>4. ASSUME NEW u \in Publishers, publisher'[u] = "stamp" PROVE Due(u)'
    <3>1. u \in Publishers \ {t} /\ publisher[u] = "stamp" /\ about'[u] = about[u] /\ about[u] \in Streams
      BY <1>0, <1>2, <2>4 DEF PressureType
    <3>2. CASE about[u] = s
      BY <1>0, <3>1, <3>2 DEF Due
    <3>3. CASE about[u] # s
      <4>1. stamped'[about[u]] = stamped[about[u]] /\ Due(u)
        BY <1>0, <1>5, <3>1, <3>3 DEF Filled, PressureType
      <4> QED BY <1>0, <2>1, <3>1, <4>1 DEF Due
    <3> QED BY <3>2, <3>3
  <2>5. enabled' = asked'
    BY <1>0, <1>5 DEF Filled
  <2> QED BY <1>0, <1>4, <2>2, <2>3, <2>4, <2>5 DEF Filled
<1> QED BY <1>0, <1>3, <1>4, <1>5 DEF PressureInv

\* Alerts are switched on or off.
LEMMA PressureSwitch == PressureInv /\ Pressure!Switch => PressureInv'
<1> SUFFICES ASSUME PressureInv, Pressure!Switch PROVE PressureInv'
  OBVIOUS
<1>0. /\ handler = "ready" /\ enabled' = ~asked /\ asked' = ~asked
      /\ UNCHANGED <<now, handler, stamped, publisher, about, filled, alerted, hurried, alike>>
  BY DEF Pressure!Switch
<1>1. PressureType'
  <2>1. enabled' \in BOOLEAN /\ asked' \in BOOLEAN
    BY <1>0, Zenon
  <2> QED BY <1>0, <2>1 DEF PressureInv, PressureType
<1>2. MadeOnce'
  BY <1>0 DEF PressureInv, MadeOnce
<1>3. ASSUME Filled PROVE Filled'
  <2>1. enabled' = asked'
    BY <1>0, Zenon
  <2> QED BY <1>0, <1>3, <2>1 DEF Filled, Due
<1> QED BY <1>0, <1>1, <1>2, <1>3 DEF PressureInv

\* Time passes.
LEMMA PressureTick == PressureInv /\ Pressure!Tick => PressureInv'
<1> SUFFICES ASSUME PressureInv, Pressure!Tick PROVE PressureInv'
  OBVIOUS
<1>0. /\ now' = now + 1 /\ now \in Nat /\ Cooldown \in Nat
      /\ UNCHANGED <<handler, stamped, enabled, publisher, about, asked, filled, alerted, hurried, alike>>
  BY ModelsAssumption DEF Pressure!Tick, PressureInv, PressureType
<1>1. PressureType'
  BY <1>0 DEF PressureInv, PressureType
<1>2. MadeOnce'
  BY <1>0 DEF PressureInv, MadeOnce
<1>3. ASSUME Filled PROVE Filled'
  <2>1. ASSUME NEW u \in Publishers, publisher'[u] = "stamp" PROVE Due(u)'
    <3>1. Due(u) /\ stamped[about[u]] \in Nat
      BY <1>0, <1>3, <2>1 DEF Filled, PressureInv, PressureType
    <3> QED BY <1>0, <3>1 DEF Due
  <2> QED BY <1>0, <1>3, <2>1 DEF Filled
<1> QED BY <1>0, <1>1, <1>2, <1>3 DEF PressureInv

\* The alerts keep their invariant.
LEMMA PressureStep == PressureInv /\ Pressure!Next => PressureInv'
BY PressureNew, PressureMark, PressureLook, PressureCheck, PressureFill, PressureStamp, PressureSwitch, PressureTick
   DEF Pressure!Next

\* What the alerts promise of their handler.
LEMMA PressureHolds == PressureInv => Pressure!HandlerIsKept
BY DEF PressureInv, Filled, Pressure!HandlerIsKept

\* Where the alerts stand still, nothing changes for them.
LEMMA PressureStays == PressureInv /\ UNCHANGED pressureVars => PressureInv'
BY DEF PressureInv, pressureVars, PressureType, MadeOnce, Filled, Due
-----------------------------------------------------------------------------
(* The limit on requests: the windows of accepted ones.                    *)

Counts == accepted \in SUBSET [time : Nat, number : Nat] /\ IsFiniteSet(accepted)

LimiterType ==
  /\ time \in Nat /\ time <= MaxTime
  /\ Counts /\ requests \subseteq accepted
  /\ \A r \in accepted : r.number < Cardinality(accepted)
  /\ waiting \in [Requesters -> Nat] /\ overtook \in BOOLEAN

\* A request waits for no longer than it may.
Patient(t) == waiting[t] # Limiter!Idle => waiting[t] <= time /\ time <= waiting[t] + MaxWait

\* An accepted request is forgotten when it is an hour old, and when it is so for those
\* who wait, unless one of them was overtaken.
Forgotten == accepted \ requests

LimiterInv ==
  /\ LimiterType
  /\ \A t \in Requesters : Patient(t)
  /\ \A r \in Forgotten : r.time + Hour <= time
  /\ overtook \/ \A r \in Forgotten, t \in Requesters : waiting[t] # Limiter!Idle => r.time + Hour <= waiting[t]
  /\ Limiter!WindowsAreKept

\* The size of a set of requests is its size here.
LEMMA LimiterCount == ASSUME NEW S PROVE Limiter!Cardinality(S) = Cardinality(S)
BY Zenon DEF Limiter!Cardinality, Cardinality

\* The constants of the limit.
LEMMA LimitsAre ==
    /\ Minute \in Nat /\ Hour \in Nat /\ PerMinute \in Nat /\ PerHour \in Nat
    /\ MaxWait \in Nat /\ MaxTime \in Nat /\ Minute + MaxWait <= Hour
BY ModelsAssumption

\* Time, and what an accepted request is.
LEMMA RequestIs ==
    ASSUME LimiterType
    PROVE  /\ time \in Nat /\ Cardinality(accepted) \in Nat
           /\ \A r \in accepted : r.time \in Nat /\ r.number \in Nat
<1>1. accepted \in SUBSET [time : Nat, number : Nat] /\ IsFiniteSet(accepted)
  BY DEF LimiterType, Counts
<1> QED BY <1>1, FS_CardinalityType DEF LimiterType

\* There is no request.
LEMMA LimiterInit == Limiter!Init => LimiterInv
<1> SUFFICES ASSUME Limiter!Init PROVE LimiterInv
  OBVIOUS
<1>1. /\ time = 0 /\ requests = {} /\ accepted = {} /\ overtook = FALSE
      /\ waiting = [t \in Requesters |-> Limiter!Idle]
  BY DEF Limiter!Init
<1>2. Limiter!Idle \in Nat
  BY LimitsAre DEF Limiter!Idle
<1>3. LimiterType
  <2>1. Counts
    BY <1>1, FS_EmptySet DEF Counts
  <2>2. overtook \in BOOLEAN
    BY <1>1, Zenon
  <2>3. waiting \in [Requesters -> Nat]
    BY <1>1, <1>2
  <2> QED BY <1>1, <2>1, <2>2, <2>3, LimitsAre DEF LimiterType
<1>4. Limiter!WindowsAreKept
  <2>1. \A x, w : Limiter!Within(x, w) = {}
    BY <1>1 DEF Limiter!Within
  <2>2. Limiter!Cardinality({}) = 0
    BY LimiterCount, FS_EmptySet
  <2> QED BY <2>1, <2>2, LimitsAre DEF Limiter!WindowsAreKept
<1>5. \A t \in Requesters : Patient(t)
  BY <1>1 DEF Patient
<1>6. Forgotten = {}
  BY <1>1 DEF Forgotten
<1> QED BY <1>3, <1>4, <1>5, <1>6 DEF LimiterInv

\* The windows stay while nothing is accepted.
LEMMA WindowsStay ==
    ASSUME Limiter!WindowsAreKept, accepted' = accepted, overtook => overtook'
    PROVE  Limiter!WindowsAreKept'
<1>1. \A x, w : Limiter!Within(x, w)' = Limiter!Within(x, w)
  BY DEF Limiter!Within
<1> QED BY <1>1 DEF Limiter!WindowsAreKept

\* A request that is accepted makes no window too large.
LEMMA WindowGrows ==
    ASSUME LimiterType, NEW x \in Nat, NEW request, request = [time |-> x, number |-> Cardinality(accepted)],
           accepted' = accepted \cup {request}, NEW w \in Nat, NEW limit \in Nat,
           ~(Limiter!Cardinality(Limiter!Recent(x, w)) >= limit),
           \A r \in Forgotten : ~(x < r.time + w),
           NEW y \in Nat, Limiter!Cardinality(Limiter!Within(y, w)) <= limit
    PROVE  Limiter!Cardinality(Limiter!Within(y, w))' <= limit
<1>0. IsFiniteSet(accepted) /\ requests \subseteq accepted /\ request.time = x
  BY DEF LimiterType, Counts
<1>1. CASE ~(y <= x /\ x < y + w)
  <2>1. Limiter!Within(y, w)' = Limiter!Within(y, w)
    BY <1>0, <1>1 DEF Limiter!Within
  <2> QED BY <2>1
<1>2. CASE y <= x /\ x < y + w
  <2> DEFINE recent_ones == Limiter!Recent(x, w)
  <2>1. Limiter!Within(y, w)' \subseteq recent_ones \cup {request}
    <3> SUFFICES ASSUME NEW r \in accepted, y <= r.time, r.time < y + w PROVE r \in recent_ones
      BY DEF Limiter!Within
    <3>1. r.time \in Nat
      BY RequestIs
    <3>2. x < r.time + w
      BY <1>2, <3>1
    <3>3. r \in requests
      BY <3>2 DEF Forgotten
    <3> QED BY <3>2, <3>3 DEF Limiter!Recent
  <2>2. IsFiniteSet(recent_ones) /\ Cardinality(recent_ones) \in Nat
    <3>1. recent_ones \subseteq accepted
      BY <1>0 DEF Limiter!Recent
    <3> QED BY <1>0, <3>1, FS_Subset, FS_CardinalityType, Zenon
  <2> HIDE DEF recent_ones
  <2>3. /\ IsFiniteSet(recent_ones \cup {request})
        /\ Cardinality(recent_ones \cup {request}) \in Nat
        /\ Cardinality(recent_ones \cup {request}) <= Cardinality(recent_ones) + 1
    <3>1. /\ IsFiniteSet(recent_ones \cup {request})
          /\ Cardinality(recent_ones \cup {request})
               = IF request \in recent_ones THEN Cardinality(recent_ones) ELSE Cardinality(recent_ones) + 1
      BY <2>2, FS_AddElement, Zenon
    <3>2. Cardinality(recent_ones \cup {request}) \in Nat
      BY <3>1, FS_CardinalityType, Zenon
    <3> QED BY <2>2, <3>1, <3>2
  <2>4. /\ Cardinality(Limiter!Within(y, w)') \in Nat
        /\ Cardinality(Limiter!Within(y, w)') <= Cardinality(recent_ones \cup {request})
    BY <2>1, <2>3, FS_Subset, FS_CardinalityType
  <2>5. ~(Cardinality(recent_ones) >= limit)
    BY LimiterCount DEF recent_ones
  <2>6. Cardinality(Limiter!Within(y, w)') <= limit
    BY <2>2, <2>3, <2>4, <2>5
  <2> QED BY <2>6, LimiterCount
<1> QED BY <1>1, <1>2

\* A request is accepted.
LEMMA LimiterAccepts ==
    ASSUME LimiterInv, NEW t \in Requesters, waiting[t] # Limiter!Idle,
           waiting' = [waiting EXCEPT ![t] = Limiter!Idle], time' = time,
           overtook' = (overtook \/ \E u \in Requesters : waiting[u] < waiting[t]),
           NEW request, request = [time |-> waiting[t], number |-> Cardinality(accepted)],
           ~(Limiter!Cardinality(Limiter!Recent(waiting[t], Minute)) >= PerMinute),
           ~(Limiter!Cardinality(Limiter!Recent(waiting[t], Hour)) >= PerHour),
           requests' = {r \in requests \cup {request} : waiting[t] < r.time + Hour},
           accepted' = accepted \cup {request}
    PROVE  LimiterInv'
<1> DEFINE x == waiting[t]
<1>0. LimiterType /\ x \in Nat /\ x <= time /\ time <= x + MaxWait /\ Limiter!Idle \in Nat
  BY LimitsAre DEF LimiterInv, LimiterType, Patient, Limiter!Idle
<1>1. /\ time \in Nat /\ Cardinality(accepted) \in Nat /\ IsFiniteSet(accepted)
      /\ \A r \in accepted : r.time \in Nat /\ r.number \in Nat /\ r.number < Cardinality(accepted)
      /\ request.time = x /\ request.number = Cardinality(accepted)
  BY <1>0, RequestIs DEF LimiterType, Counts
<1>2. request \notin accepted
  BY <1>1
<1>3. IsFiniteSet(accepted') /\ Cardinality(accepted') = Cardinality(accepted) + 1
  BY <1>1, <1>2, FS_AddElement
<1>4. LimiterType'
  <2>1. request \in [time : Nat, number : Nat]
    BY <1>0, <1>1
  <2>2. Counts'
    BY <1>0, <1>3, <2>1 DEF LimiterType, Counts
  <2>3. \A r \in accepted' : r.number < Cardinality(accepted')
    BY <1>1, <1>3
  <2>4. requests' \subseteq accepted'
    BY <1>0 DEF LimiterType
  <2>5. waiting' \in [Requesters -> Nat] /\ time' \in Nat /\ time' <= MaxTime
    BY <1>0 DEF LimiterType
  <2>6. overtook' \in BOOLEAN
    BY Zenon
  <2> QED BY <2>2, <2>3, <2>4, <2>5, <2>6 DEF LimiterType
<1>5. /\ waiting'[t] = Limiter!Idle
      /\ \A u \in Requesters \ {t} : waiting'[u] = waiting[u] /\ waiting[u] \in Nat
  BY <1>0 DEF LimiterType
<1>6. \A u \in Requesters : Patient(u)'
  BY <1>5 DEF LimiterInv, Patient
<1>7. \A r \in Forgotten' : r.time \in Nat /\ (r \in Forgotten \/ r.time + Hour <= x)
  <2> SUFFICES ASSUME NEW r \in accepted', r \notin requests', r \notin Forgotten
               PROVE  r.time + Hour <= x
    BY <1>0, <1>1 DEF Forgotten
  <2>1. r \in requests \cup {request} /\ r.time \in Nat
    BY <1>0, <1>1 DEF Forgotten
  <2>2. ~(x < r.time + Hour)
    BY <2>1
  <2> QED BY <1>0, <2>1, <2>2, LimitsAre
<1>8. \A r \in Forgotten' : r.time + Hour <= time'
  BY <1>0, <1>1, <1>7, LimitsAre DEF LimiterInv
<1>9. ASSUME ~overtook', NEW r \in Forgotten', NEW u \in Requesters, waiting'[u] # Limiter!Idle
      PROVE  r.time + Hour <= waiting'[u]
  <2>1. ~overtook /\ ~(\E v \in Requesters : waiting[v] < waiting[t])
    BY <1>9, Zenon
  <2>2. u # t /\ waiting'[u] = waiting[u] /\ waiting[u] \in Nat /\ x <= waiting[u]
    BY <1>0, <1>5, <1>9, <2>1
  <2>3. CASE r \in Forgotten
    BY <1>9, <2>1, <2>2, <2>3 DEF LimiterInv
  <2>4. CASE r.time + Hour <= x
    BY <1>0, <1>7, <2>2, <2>4, LimitsAre
  <2> QED BY <1>7, <2>3, <2>4
<1>10. Limiter!WindowsAreKept'
  <2> SUFFICES ASSUME NEW y \in Limiter!Times
               PROVE  /\ Limiter!Cardinality(Limiter!Within(y, Minute))' <= PerMinute
                      /\ overtook' \/ Limiter!Cardinality(Limiter!Within(y, Hour))' <= PerHour
    BY DEF Limiter!WindowsAreKept, Limiter!Times
  <2>1. y \in Nat
    BY LimitsAre DEF Limiter!Times
  <2>2. /\ Limiter!Cardinality(Limiter!Within(y, Minute)) <= PerMinute
        /\ overtook \/ Limiter!Cardinality(Limiter!Within(y, Hour)) <= PerHour
    BY DEF LimiterInv, Limiter!WindowsAreKept
  <2>3. \A r \in Forgotten : ~(x < r.time + Minute)
    <3> SUFFICES ASSUME NEW r \in Forgotten PROVE ~(x < r.time + Minute)
      OBVIOUS
    <3>1. r.time \in Nat /\ r.time + Hour <= time
      BY <1>1 DEF LimiterInv, Forgotten
    <3> QED BY <1>0, <1>1, <3>1, LimitsAre
  <2>4. Limiter!Cardinality(Limiter!Within(y, Minute))' <= PerMinute
    BY <1>0, <2>1, <2>2, <2>3, LimitsAre, WindowGrows
  <2>5. ASSUME ~overtook' PROVE Limiter!Cardinality(Limiter!Within(y, Hour))' <= PerHour
    <3>1. ~overtook
      BY <2>5, Zenon
    <3>2. \A r \in Forgotten : ~(x < r.time + Hour)
      <4> SUFFICES ASSUME NEW r \in Forgotten PROVE ~(x < r.time + Hour)
        OBVIOUS
      <4>1. r.time \in Nat /\ r.time + Hour <= x
        BY <1>1, <3>1 DEF LimiterInv, Forgotten
      <4> QED BY <1>0, <4>1, LimitsAre
    <3> QED BY <1>0, <2>1, <2>2, <3>1, <3>2, LimitsAre, WindowGrows
  <2> QED BY <2>4, <2>5
<1> QED BY <1>4, <1>6, <1>8, <1>9, <1>10 DEF LimiterInv, Limiter!Idle

\* A request is refused.
LEMMA LimiterRefuses ==
    ASSUME LimiterInv, NEW t \in Requesters, waiting' = [waiting EXCEPT ![t] = Limiter!Idle],
           UNCHANGED <<time, requests, accepted>>, overtook' \in BOOLEAN, overtook => overtook'
    PROVE  LimiterInv'
<1>0. LimiterType /\ Limiter!Idle \in Nat
  BY LimitsAre DEF LimiterInv, Limiter!Idle
<1>1. waiting'[t] = Limiter!Idle /\ \A u \in Requesters \ {t} : waiting'[u] = waiting[u]
  BY <1>0 DEF LimiterType
<1>2. LimiterType'
  BY <1>0 DEF LimiterType, Counts
<1>3. \A u \in Requesters : Patient(u)'
  BY <1>1 DEF LimiterInv, Patient
<1>4. Limiter!WindowsAreKept'
  BY WindowsStay DEF LimiterInv
<1>5. Forgotten' = Forgotten
  BY DEF Forgotten
<1> QED BY <1>1, <1>2, <1>3, <1>4, <1>5 DEF LimiterInv, Limiter!Idle

\* A request takes its time and waits.
LEMMA LimiterArrives == ASSUME LimiterInv, NEW t \in Requesters, Limiter!Arrive(t) PROVE LimiterInv'
<1>0. LimiterType /\ waiting' = [waiting EXCEPT ![t] = time] /\ UNCHANGED <<time, requests, accepted, overtook>>
  BY DEF LimiterInv, Limiter!Arrive
<1>1. time \in Nat /\ waiting'[t] = time /\ \A u \in Requesters \ {t} : waiting'[u] = waiting[u]
  BY <1>0 DEF LimiterType
<1>2. LimiterType'
  BY <1>0, <1>1 DEF LimiterType, Counts
<1>3. \A u \in Requesters : Patient(u)'
  BY <1>0, <1>1, LimitsAre DEF LimiterInv, Patient
<1>4. Limiter!WindowsAreKept'
  BY <1>0, WindowsStay DEF LimiterInv
<1>5. Forgotten' = Forgotten
  BY <1>0 DEF Forgotten
<1> QED BY <1>0, <1>1, <1>2, <1>3, <1>4, <1>5 DEF LimiterInv, Limiter!Idle

\* Time passes.
LEMMA LimiterTick == LimiterInv /\ Limiter!Tick => LimiterInv'
<1> SUFFICES ASSUME LimiterInv, Limiter!Tick PROVE LimiterInv'
  OBVIOUS
<1>0. /\ LimiterType /\ time < MaxTime /\ time' = time + 1 /\ UNCHANGED <<requests, waiting, accepted, overtook>>
      /\ \A t \in Requesters : waiting[t] = Limiter!Idle \/ time - waiting[t] < MaxWait
  BY DEF LimiterInv, Limiter!Tick
<1>1. time \in Nat /\ \A t \in Requesters : waiting[t] \in Nat
  BY <1>0 DEF LimiterType
<1>2. LimiterType'
  BY <1>0, <1>1, LimitsAre DEF LimiterType, Counts
<1>3. \A t \in Requesters : Patient(t)'
  BY <1>0, <1>1, LimitsAre DEF LimiterInv, Patient, Limiter!Idle
<1>4. Limiter!WindowsAreKept'
  BY <1>0, WindowsStay DEF LimiterInv
<1>5. \A r \in Forgotten' : r.time + Hour <= time'
  <2> SUFFICES ASSUME NEW r \in Forgotten PROVE r.time + Hour <= time + 1
    BY <1>0 DEF Forgotten
  <2>1. r.time \in Nat /\ r.time + Hour <= time
    BY <1>0, RequestIs DEF LimiterInv, Forgotten
  <2> QED BY <1>1, <2>1, LimitsAre
<1>6. Forgotten' = Forgotten
  BY <1>0 DEF Forgotten
<1> QED BY <1>0, <1>2, <1>3, <1>4, <1>5, <1>6 DEF LimiterInv, Limiter!Idle

\* The limit keeps its invariant.
LEMMA LimiterStep == LimiterInv /\ Limiter!Next => LimiterInv'
<1> SUFFICES ASSUME LimiterInv, NEW t \in Requesters, Limiter!Check(t) PROVE LimiterInv'
  BY LimiterTick, LimiterArrives DEF Limiter!Next
<1> DEFINE request == [time |-> waiting[t], number |-> Cardinality(accepted)]
           full == \/ Limiter!Cardinality(Limiter!Recent(waiting[t], Minute)) >= PerMinute
                   \/ Limiter!Cardinality(Limiter!Recent(waiting[t], Hour)) >= PerHour
<1>1. /\ waiting[t] # Limiter!Idle /\ waiting' = [waiting EXCEPT ![t] = Limiter!Idle] /\ time' = time
      /\ overtook' = (overtook \/ \E u \in Requesters : waiting[u] < waiting[t])
  BY DEF Limiter!Check
<1>2. CASE full
  <2>1. UNCHANGED <<requests, accepted>>
    BY <1>2 DEF Limiter!Check
  <2>2. overtook' \in BOOLEAN /\ (overtook => overtook')
    BY <1>1, Zenon
  <2> QED BY <1>1, <2>1, <2>2, LimiterRefuses
<1>3. CASE ~full
  <2>1. /\ requests' = {r \in requests \cup {request} : waiting[t] < r.time + Hour}
        /\ accepted' = accepted \cup {request}
    BY <1>3, LimiterCount DEF Limiter!Check
  <2> HIDE DEF request
  <2>2. request = [time |-> waiting[t], number |-> Cardinality(accepted)]
    BY DEF request
  <2> QED BY <1>1, <1>3, <2>1, <2>2, LimiterAccepts
<1> QED BY <1>2, <1>3

\* What the limit promises of its windows.
LEMMA LimiterHolds == LimiterInv => Limiter!WindowsAreKept
BY DEF LimiterInv

\* Where the limit stands still, nothing changes for it.
LEMMA LimiterStays == LimiterInv /\ UNCHANGED limiterVars => LimiterInv'
<1> SUFFICES ASSUME LimiterInv, UNCHANGED limiterVars PROVE LimiterInv'
  OBVIOUS
<1>0. UNCHANGED <<time, requests, waiting, accepted, overtook>>
  BY DEF limiterVars
<1>1. Limiter!WindowsAreKept'
  BY <1>0, WindowsStay DEF LimiterInv
<1> QED BY <1>0, <1>1 DEF LimiterInv, LimiterType, Counts, Patient, Forgotten
-----------------------------------------------------------------------------
(* The models, the books and the guards side by side.                      *)

\* Of every part what its steps preserve.
ModelsIInv ==
  /\ EnsembleInv /\ LearningInv /\ ExplorationInv
  /\ BookInv /\ CtaInv
  /\ StopInv /\ PressureInv /\ LimiterInv

\* It holds at the beginning.
LEMMA ModelsIInvInit == ModelsInit => ModelsIInv
BY EnsembleInit, LearningInit, ExplorationInit, BookInit, CtaInit, StopInit, PressureInit, LimiterInit
   DEF ModelsInit, ModelsIInv

\* The parts out of focus stand still.
LEMMA ModelsStay ==
    /\ EnsembleInv /\ LearningInv /\ ExplorationInv /\ UNCHANGED models
         => EnsembleInv' /\ LearningInv' /\ ExplorationInv'
    /\ BookInv /\ CtaInv /\ UNCHANGED books => BookInv' /\ CtaInv'
    /\ StopInv /\ PressureInv /\ LimiterInv /\ UNCHANGED guards => StopInv' /\ PressureInv' /\ LimiterInv'
<1>1. /\ UNCHANGED models => UNCHANGED ensembleVars /\ UNCHANGED learningVars /\ UNCHANGED explorationVars
      /\ UNCHANGED books => UNCHANGED bookVars /\ UNCHANGED ctaVars
      /\ UNCHANGED guards => UNCHANGED stopVars /\ UNCHANGED pressureVars /\ UNCHANGED limiterVars
  BY DEF models, books, guards
<1> QED BY <1>1, EnsembleStays, LearningStays, ExplorationStays, BookStays, CtaStays, StopStays, PressureStays,
           LimiterStays

\* The part in focus takes a step, and the others stand still.
LEMMA ModelsIInvNext == ModelsIInv /\ [ModelsNext]_parts => ModelsIInv'
<1> SUFFICES ASSUME ModelsIInv, [ModelsNext]_parts PROVE ModelsIInv'
  OBVIOUS
<1> USE DEF ModelsIInv
<1>1. CASE InEnsemble /\ Vote!Next
  BY <1>1, EnsembleStep, LearningStays, ExplorationStays, ModelsStay DEF InEnsemble
<1>2. CASE InLearning /\ Learn!Next
  BY <1>2, EnsembleStays, LearningStep, ExplorationStays, ModelsStay DEF InLearning
<1>3. CASE InExploration /\ Explore!Next
  BY <1>3, EnsembleStays, LearningStays, ExplorationStep, ModelsStay DEF InExploration
<1>4. CASE InBook /\ Book!Next
  BY <1>4, BookStep, CtaStays, ModelsStay DEF InBook
<1>5. CASE InCta /\ Cta!Next
  BY <1>5, BookStays, CtaStep, ModelsStay DEF InCta
<1>6. CASE InStops /\ Stopping!Next
  BY <1>6, StopStep, PressureStays, LimiterStays, ModelsStay DEF InStops
<1>7. CASE InPressure /\ Pressure!Next
  BY <1>7, StopStays, PressureStep, LimiterStays, ModelsStay DEF InPressure
<1>8. CASE InLimiter /\ Limiter!Next
  BY <1>8, StopStays, PressureStays, LimiterStep, ModelsStay DEF InLimiter
<1>9. CASE UNCHANGED parts
  BY <1>9, ModelsStay DEF parts
<1> QED BY <1>1, <1>2, <1>3, <1>4, <1>5, <1>6, <1>7, <1>8, <1>9 DEF ModelsNext

\* The invariant of the models, the books and the guards is inductive.
THEOREM ModelsInvariance == ModelsSpec => []ModelsIInv
BY ModelsIInvInit, ModelsIInvNext, PTL DEF ModelsSpec

\* The crossing that was told last is the side the averages are on, and a vote that was
\* held is to hold.
THEOREM AnswersExplained == ModelsSpec => []AnswersAreExplained
<1>1. ModelsIInv => AnswersAreExplained
  BY DEF ModelsIInv, EnsembleInv, AnswersAreExplained
<1> QED BY <1>1, ModelsInvariance, PTL

\* The trader knows what it saved, unless a save or a load failed since, its validation is of
\* all that was closed, unless it raised, and it names the first genome the best one.
THEOREM LearningKept == ModelsSpec => []LearningIsKept
<1>1. ModelsIInv => LearningIsKept
  BY DEF ModelsIInv, LearningInv, ExplorationInv, LearningIsKept
<1> QED BY <1>1, ModelsInvariance, PTL

\* Without the orders that make it deviate the book has the fills' position and money, and
\* a strategy that sends one order at a time has one entry, whatever its agent answers.
THEOREM BooksExplained == ModelsSpec => []BooksAreExplained
<1>1. ModelsIInv => BooksAreExplained
  BY BookHolds, CtaHolds DEF ModelsIInv, BooksAreExplained
<1> QED BY <1>1, ModelsInvariance, PTL

\* The locks keep flag and reason of a stop together, who asks is told what was so or was
\* passed by a change, alerts keep their distance and requests their windows.
THEOREM SharedKept == ModelsSpec => []SharedIsKept
<1>1. ModelsIInv => SharedIsKept
  BY StopHolds, PressureHolds, LimiterHolds DEF ModelsIInv, SharedIsKept
<1> QED BY <1>1, ModelsInvariance, PTL

\* Whatever the part in focus does, a trader its last outcomes have stopped opens nothing.
THEOREM DegradedStaysStopped == ModelsSpec => DegradedStays
<1>1. [ModelsNext]_parts => [Explore!Degraded /\ opened = Explore!None
        => (Explore!Degraded' /\ opened' # "trader") \/ Explore!Restart]_Explore!vars
  <2> SUFFICES ASSUME ModelsNext, Explore!Degraded, opened = Explore!None, ~Explore!Restart,
                      ~UNCHANGED Explore!vars
               PROVE  Explore!Degraded' /\ opened' # "trader"
    BY DEF parts, models, explorationVars, Explore!vars
  <2>1. InExploration /\ Explore!Next
    BY DEF ModelsNext, InEnsemble, InLearning, InBook, InCta, InStops, InPressure, InLimiter,
           models, explorationVars, Explore!vars
  <2> QED BY <2>1, DegradedStep
<1> QED BY <1>1, PTL DEF ModelsSpec, DegradedStays, Explore!DegradedStays
=============================================================================
