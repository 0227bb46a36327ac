----------------------------- MODULE SelfHealing ----------------------------
(***************************************************************************)
(* layer6_orchestration: the loops of a HealthMonitor (health_monitor.py)  *)
(* whose alerts go to SelfHealingManager.on_health_alert, and callers of   *)
(* check_and_heal, auto_restart_component and force_health_check           *)
(* (auto_restart.py), over components that fail on their own.              *)
(***************************************************************************)
EXTENDS Integers, FiniteSets

CONSTANTS Components, Critical, \* the registered components, and those that are critical
          Loops, Callers,       \* threads
          max_restarts,
          FailuresToAlert,      \* 3 in the code
          MaxFaults,            \* bound: failures of components
          MaxStarts             \* bound: calls of start

Threads == Loops \cup Callers
Caller == "a caller"

VARIABLES
  state,          \* each component: "up", "down", or its check "raises"
  failure_count,  \* HealthMonitor.components
  restart_counts, \* AutoRestart
  running,        \* of the monitor
  thread,         \* each thread: where it is, its component, those still to check, and the count it read
  faults, starts,
  overtaken       \* history: a count was set below the one that another thread had read and goes on from

vars == <<state, failure_count, restart_counts, running, thread, faults, starts, overtaken>>
counters == <<failure_count, restart_counts, overtaken>>

Out == [at |-> "out", component |-> Caller, left |-> {}, count |-> 0]

Init ==
  /\ state = [c \in Components |-> "up"]
  /\ failure_count = [c \in Components |-> 0]
  /\ restart_counts = [c \in Components |-> 0]
  /\ running = FALSE
  /\ thread = [t \in Threads |-> Out]
  /\ faults = 0 /\ starts = 0 /\ overtaken = FALSE

At(t, step) == thread[t].at = step
Of(t) == thread[t].component

\* What a thread does when it is done with a component: the next one of a check, or
\* a loop sleeps and a caller returns.
Continued(t, left) == [Out EXCEPT !.left = left, !.at = IF left # {} THEN "check" ELSE IF t \in Loops THEN "sleep" ELSE "out"]
Continue(t) == Continued(t, thread[t].left)
Continues(t) == thread' = [thread EXCEPT ![t] = Continue(t)]

-----------------------------------------------------------------------------
\* A component fails, or recovers by itself.
Fault(c) ==
  /\ faults < MaxFaults /\ faults' = faults + 1
  /\ state' \in {[state EXCEPT ![c] = s] : s \in {"up", "down", "raises"} \ {state[c]}}
  /\ UNCHANGED <<counters, running, thread, starts>>

Start ==
  /\ ~running /\ starts < MaxStarts
  /\ running' = TRUE /\ starts' = starts + 1
  /\ \E t \in Loops : At(t, "out") /\ thread' = [thread EXCEPT ![t] = [Out EXCEPT !.at = "sleep"]]
  /\ UNCHANGED <<state, counters, faults>>

\* stop waits five seconds for a loop that may sleep for sixty or restart for ten.
Stop ==
  /\ running /\ running' = FALSE
  /\ UNCHANGED <<state, counters, thread, faults, starts>>

\* A loop that wakes up, or force_health_check.
Begin(t) ==
  /\ \/ t \in Loops /\ At(t, "sleep") /\ running
     \/ t \in Callers /\ At(t, "out")
  /\ thread' = [thread EXCEPT ![t] = [Out EXCEPT !.at = "check", !.left = Components]]
  /\ UNCHANGED <<state, counters, running, faults, starts>>

End(t) ==
  /\ t \in Loops /\ At(t, "sleep") /\ ~running
  /\ thread' = [thread EXCEPT ![t] = Out]
  /\ UNCHANGED <<state, counters, running, faults, starts>>

-----------------------------------------------------------------------------
Alerts(c) == failure_count'[c] >= FailuresToAlert

\* The next component of _perform_health_check.  A check that raises is counted and
\* alerts nobody; of the alerts only those of critical components lead to a restart.
\* The counter stops growing here where nothing depends on it any more.
Counted(c) == IF failure_count[c] > FailuresToAlert THEN failure_count[c] ELSE failure_count[c] + 1

Check(t) ==
  /\ At(t, "check")
  /\ \E c \in thread[t].left :
       LET left == thread[t].left \ {c}
       IN /\ failure_count' = [failure_count EXCEPT ![c] = IF state[c] = "up" THEN 0 ELSE Counted(c)]
          /\ thread' = [thread EXCEPT ![t] =
               IF state[c] = "down" /\ Alerts(c) /\ c \in Critical 
               THEN [thread[t] EXCEPT !.left = left, !.component = c, !.at = "failure"]
               ELSE Continued(t, left)]
  /\ UNCHANGED <<state, restart_counts, overtaken, running, faults, starts>>

\* A count is set, perhaps between the read and the write of another thread.
SetCount(c, n) ==
  /\ restart_counts' = [restart_counts EXCEPT ![c] = n]
  /\ overtaken' = (overtaken \/ \E t \in Threads : At(t, "write") /\ Of(t) = c /\ thread[t].count > n)

Reset(c) == SetCount(c, 0)

\* check_and_heal by a caller: its check_func may raise as well.
Heal(t) ==
  /\ t \in Callers /\ At(t, "out")
  /\ \E c \in Components :
       \/ state[c] = "up" /\ Reset(c) /\ UNCHANGED thread
       \/ /\ state[c] # "up"
          /\ thread' = [thread EXCEPT ![t] = [Out EXCEPT !.at = "failure", !.component = c]]
          /\ UNCHANGED <<restart_counts, overtaken>>
  /\ UNCHANGED <<state, failure_count, running, faults, starts>>

\* auto_restart_component: registering once more forgets the count.
RestartComponent(t) ==
  /\ t \in Callers /\ At(t, "out")
  /\ \E c \in Components :
       Reset(c) /\ thread' = [thread EXCEPT ![t] = [Out EXCEPT !.at = "failure", !.component = c]]
  /\ UNCHANGED <<state, failure_count, running, faults, starts>>

\* Mutant of MayRestart: one restart more.
MayRestartOnceMore(c) == restart_counts[c] <= max_restarts

MayRestart(c) == restart_counts[c] < max_restarts

\* handle_failure up to the delay.
HandleFailure(t) ==
  /\ At(t, "failure")
  /\ IF MayRestart(Of(t)) THEN thread' = [thread EXCEPT ![t].at = "delay"] ELSE Continues(t)
  /\ UNCHANGED <<state, counters, running, faults, starts>>

\* restart_func after the delay, whatever the component does by now: the component
\* runs, or does not although nothing was raised, or it raises and is not counted.
Restart(t) ==
  /\ At(t, "delay")
  /\ \/ state' = [state EXCEPT ![Of(t)] = "up"] /\ thread' = [thread EXCEPT ![t].at = "count"]
     \/ faults < MaxFaults /\ thread' \in {[thread EXCEPT ![t].at = "count"], [thread EXCEPT ![t] = Continue(t)]} /\ UNCHANGED state
  /\ faults' = IF state' = state /\ state[Of(t)] # "up" THEN faults + 1 ELSE faults
  /\ UNCHANGED <<counters, running, starts>>

\* restart_counts[name] += 1: a read, and a write that may come after another one's.
ReadCount(t) ==
  /\ At(t, "count")
  /\ thread' = [thread EXCEPT ![t].at = "write", ![t].count = restart_counts[Of(t)]]
  /\ UNCHANGED <<state, counters, running, faults, starts>>

WriteCount(t) ==
  /\ At(t, "write")
  /\ SetCount(Of(t), thread[t].count + 1)
  /\ Continues(t)
  /\ UNCHANGED <<state, failure_count, running, faults, starts>>

-----------------------------------------------------------------------------
Step(t) == Check(t) \/ HandleFailure(t) \/ Restart(t) \/ ReadCount(t) \/ WriteCount(t)
LoopStep(t) == End(t) \/ (t \in Loops /\ Begin(t)) \/ Step(t)

Next ==
  \/ \E c \in Components : Fault(c)
  \/ Start \/ Stop
  \/ \E t \in Threads : Begin(t) \/ End(t) \/ Heal(t) \/ RestartComponent(t) \/ Step(t)

-----------------------------------------------------------------------------
\* The number is checked before the delay and raised after the restart: threads that
\* have passed the check each raise it once, and no more, unless one of them takes back
\* a reset, or a late write lets them pass the check once more.
RestartsAreBounded == overtaken \/ \A c \in Components : restart_counts[c] <= max_restarts + Cardinality(Threads) - 1

\* What the monitor comes back to: no critical component is down while somebody watches,
\* also when a restart failed, unless its restarts are used up.
DownIsRestarted == \A c \in Critical : state[c] # "down" \/ ~running \/ ~MayRestart(c)
=============================================================================
