--------------------------- MODULE CircuitBreaker ---------------------------
(***************************************************************************)
(* One CircuitBreaker object of layer2_risk/circuit_breaker.py under any   *)
(* sequence of calls: record_failure, record_success, can_execute,         *)
(* get_state, force_open and force_close, with time passing between them.  *)
(* get_state evaluates can_execute for its report, so a status query has   *)
(* the same effect as asking for permission.                               *)
(***************************************************************************)
EXTENDS BreakerState

VARIABLES breaker,  \* the object
          last,     \* history: the latest event
          probes,   \* history: successes since the breaker became half open
          forced    \* history: the current opening began with force_open

vars == <<breaker, last, probes, forced>>

Events == {"none", "failure", "success", "granted", "denied",
           "forced_open", "forced_closed", "tick"}

TypeOK ==
    /\ breaker \in Breakers
    /\ last \in Events
    /\ probes \in 0..CountCap
    /\ forced \in BOOLEAN

Init ==
    /\ breaker = Closed
    /\ last = "none"
    /\ probes = 0
    /\ forced = FALSE
-----------------------------------------------------------------------------
RecordFailure ==
    /\ breaker' = Failed(breaker)
    /\ last' = "failure"
    /\ forced' = (forced /\ breaker.failures + 1 < FailureThreshold)
    /\ UNCHANGED probes

RecordSuccess ==
    /\ breaker' = Succeeded(breaker)
    /\ last' = "success"
    /\ probes' = Bump(probes)
    /\ forced' = (forced /\ breaker'.state # "closed")

CanExecute ==
    /\ breaker' = Asked(breaker)
    /\ last' = IF Permits(breaker) THEN "granted" ELSE "denied"
    /\ probes' = IF breaker'.state # breaker.state THEN 0 ELSE probes
    /\ UNCHANGED forced

GetState == CanExecute

ForceOpen ==
    /\ breaker' = Trip(breaker)
    /\ last' = "forced_open"
    /\ forced' = (breaker.failures < FailureThreshold)
    /\ UNCHANGED probes

ForceClose ==
    /\ breaker' = Closed
    /\ last' = "forced_closed"
    /\ forced' = FALSE
    /\ UNCHANGED probes

\* Time can always pass; the age of an opening saturates.
Tick ==
    /\ breaker' = Aged(breaker, 1)
    /\ last' = "tick"
    /\ UNCHANGED <<probes, forced>>

Next == RecordFailure \/ RecordSuccess \/ CanExecute \/ GetState
        \/ ForceOpen \/ ForceClose \/ Tick

(***************************************************************************)
(* Time passes, and the owner of the breaker keeps asking: the trading     *)
(* loop writes the dashboard, which calls check_order_allowed, in every    *)
(* iteration.                                                              *)
(***************************************************************************)
Spec == Init /\ [][Next]_vars /\ WF_vars(Tick) /\ WF_vars(CanExecute)
-----------------------------------------------------------------------------
\* A closed breaker has failures to spare: record_failure cannot leave the
\* breaker closed once the threshold is reached, and nothing closes it without
\* clearing the count.
ClosedBelowThreshold ==
    breaker.state = "closed" => breaker.failures < FailureThreshold

\* Unless an operator opened it by hand, a breaker that is open or half open
\* still carries a full failure count, so one failed probe opens it again.
OneStrike ==
    breaker.state # "closed" /\ ~forced => breaker.failures >= FailureThreshold

\* Without force_close, a breaker closes only after SuccessThreshold successes
\* reported since it became half open; successes reported earlier, while it was
\* closed or open, do not count.
ProbedBeforeClosing ==
    [][ breaker.state # "closed" /\ breaker'.state = "closed"
          /\ last' # "forced_closed"
        => breaker.state = "half_open" /\ probes' >= SuccessThreshold ]_vars

\* The breaker is a TradingGate: permission is refused until the cool-down after
\* the latest trip is over, whatever was reported in between.
Gate == INSTANCE TradingGate
            WITH Cooldown <- TimeoutDuration,
                 blocked <- breaker.state = "open",
                 quiet <- IF breaker.age = NotOpened THEN TimeoutDuration ELSE breaker.age
ImplementsGate == Gate!Spec

\* If failures stop arriving, the breaker does not stay open for good.  (A failure
\* recorded while it is open restarts the cool-down.)
Recovers ==
    <>[][~RecordFailure /\ ~ForceOpen]_vars
        => []<>(breaker.state # "open")
=============================================================================
