---------------------------- MODULE TradingGate -----------------------------
(***************************************************************************)
(* What a circuit breaker promises to its callers, without counters and    *)
(* without the half-open state: a gate that trips, that grants nothing     *)
(* before Cooldown ticks have passed since the latest trip, and that no    *)
(* reported success opens.                                                 *)
(***************************************************************************)
EXTENDS Integers

CONSTANT Cooldown

VARIABLES blocked,  \* tripped, and nobody has been let through since
          quiet,    \* ticks since the latest trip, saturating at Cooldown
          last      \* the latest event, as its caller sees it

vars == <<blocked, quiet, last>>

Init == blocked = FALSE /\ quiet = Cooldown /\ last = "none"

Trip == /\ blocked' = TRUE
        /\ quiet' = 0
        /\ last' \in {"failure", "forced_open"}

Tolerate == /\ last' = "failure"
            /\ UNCHANGED <<blocked, quiet>>

Settle == /\ last' = "success"
          /\ UNCHANGED blocked
          /\ quiet' = quiet \/ (~blocked /\ quiet' = Cooldown)

Grant == /\ last' = "granted"
         /\ blocked => quiet = Cooldown
         /\ blocked' = FALSE
         /\ UNCHANGED quiet

Deny == /\ last' = "denied"
        /\ blocked
        /\ quiet < Cooldown
        /\ UNCHANGED <<blocked, quiet>>

Override == /\ last' = "forced_closed"
            /\ blocked' = FALSE
            /\ quiet' = Cooldown

Wait == /\ last' = "tick"
        /\ quiet' = IF quiet < Cooldown THEN quiet + 1 ELSE quiet
        /\ UNCHANGED blocked

Next == Trip \/ Tolerate \/ Settle \/ Grant \/ Deny \/ Override \/ Wait

Spec == Init /\ [][Next]_vars
=============================================================================
