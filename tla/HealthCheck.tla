----------------------------- MODULE HealthCheck -----------------------------
(***************************************************************************)
(* health_check.py: a process that compares, every five minutes, which     *)
(* components run with the status it saved last, saves the new one, and    *)
(* tells the administrators what changed.  The same check is also run by   *)
(* hand, on the same files.                                                *)
(*                                                                         *)
(* A component runs when its pid file names a process that exists.         *)
(***************************************************************************)
EXTENDS FiniteSets, Integers

CONSTANTS Components,
          MaxFaults, \* bound: components that start or stop
          MaxLosses, \* bound: messages lost and ends of the process
          MaxRuns    \* bound: checks by hand

Checkers == {"daemon", "hand"}

VARIABLES
  up,       \* the components that run
  file,     \* status_state.json: its state and the components it says run
  beat,     \* heartbeat_state.json is less than an hour old
  checker,  \* each process: where it is, what the file said, what it found, and (history)
            \* whether another check overlapped
  believed, \* what the administrators were told last of each component
  missed,   \* history: components of which they were not told, and why is known
  faults, losses, runs

vars == <<up, file, beat, checker, believed, missed, faults, losses, runs>>
people == <<believed, missed>>
bounds == <<faults, losses, runs>>

Rest(at) == [at |-> at, before |-> {}, now |-> {}, raced |-> FALSE]

Init ==
  /\ up \in SUBSET Components
  /\ file = [state |-> "none", running |-> {}]
  /\ beat = FALSE
  /\ checker = [p \in Checkers |-> Rest(IF p = "daemon" THEN "sleeping" ELSE "out")]
  /\ believed = [c \in Components |-> "nothing"] /\ missed = {}
  /\ faults = 0 /\ losses = 0 /\ runs = 0

At(p, step) == checker[p].at = step
Active(p) == checker[p].at \notin {"sleeping", "out"}
Goes(p, step) == checker' = [checker EXCEPT ![p].at = step]
Finishes(p) == checker' = [checker EXCEPT ![p] = Rest(IF p = "daemon" THEN "sleeping" ELSE "out")]

-----------------------------------------------------------------------------
Change ==
  /\ faults < MaxFaults /\ faults' = faults + 1
  /\ \E c \in Components : up' = IF c \in up THEN up \ {c} ELSE up \cup {c}
  /\ UNCHANGED <<file, beat, checker, people, losses, runs>>

HourPasses == beat /\ beat' = FALSE /\ UNCHANGED <<up, file, checker, people, bounds>>

\* load_previous_status: a file that cannot be read is a status without components.
Load(p) ==
  /\ IF p = "daemon" THEN At(p, "sleeping") /\ UNCHANGED runs
                     ELSE At(p, "out") /\ runs < MaxRuns /\ runs' = runs + 1
  /\ LET races == \E q \in Checkers : Active(q)
         before == IF file.state = "whole" THEN file.running ELSE {}
     IN /\ checker' = [q \in Checkers |->
             IF q = p THEN [Rest("check") EXCEPT !.before = before, !.raced = races]
             ELSE IF Active(q) THEN [checker[q] EXCEPT !.raced = TRUE] ELSE checker[q]]
        /\ missed' = IF file.state = "emptied" \/ races THEN Components ELSE missed
  /\ UNCHANGED <<up, file, beat, believed, faults, losses>>

\* check_processes
Check(p) ==
  /\ At(p, "check")
  /\ checker' = [checker EXCEPT ![p].now = up, ![p].at = "save"]
  /\ UNCHANGED <<up, file, beat, people, bounds>>

\* detect_status_change: DOWN, RECOVERY and PARTIAL name the components that changed.
Changes(p) == (checker[p].before \ checker[p].now) \cup (checker[p].now \ checker[p].before)

\* save_current_status, before anything is told: open(path, 'w'), and json.dump.
Truncate(p) ==
  /\ At(p, "save") /\ Goes(p, "dump")
  /\ file' = [state |-> "emptied", running |-> {}]
  /\ UNCHANGED <<up, beat, people, bounds>>

Dump(p) ==
  /\ At(p, "dump") /\ Goes(p, "send")
  /\ file' = [state |-> "whole", running |-> checker[p].now]
  /\ UNCHANGED <<up, beat, people, bounds>>

-----------------------------------------------------------------------------
\* A heartbeat says that all of them run.
Heartbeat(p) == Changes(p) = {} /\ checker[p].now = Components /\ ~beat
Told(p) == IF Heartbeat(p) THEN Components ELSE Changes(p)

\* The message arrives, or is lost, which nobody looks at; record_heartbeat_sent either way.
Send(p) ==
  /\ At(p, "send") /\ Finishes(p)
  /\ beat' = (beat \/ Heartbeat(p))
  /\ \/ /\ believed' = [c \in Components |-> IF c \in Told(p) THEN (IF c \in checker[p].now THEN "up" ELSE "down") ELSE believed[c]]
        /\ missed' = IF checker[p].raced THEN missed ELSE missed \ Told(p)
        /\ UNCHANGED losses
     \/ /\ losses < MaxLosses /\ losses' = losses + 1
        /\ missed' = missed \cup Changes(p)
        /\ UNCHANGED believed
  /\ UNCHANGED <<up, file, faults, runs>>

\* The process ends between two steps: the daemon is started again by hand.
End(p) ==
  /\ Active(p) /\ losses < MaxLosses /\ losses' = losses + 1
  /\ Finishes(p)
  /\ missed' = IF At(p, "send") THEN missed \cup Changes(p) ELSE missed
  /\ UNCHANGED <<up, file, beat, believed, faults, runs>>

-----------------------------------------------------------------------------
Step(p) == Check(p) \/ Truncate(p) \/ Dump(p) \/ Send(p)
Next == Change \/ HourPasses \/ \E p \in Checkers : Load(p) \/ Step(p) \/ End(p)

-----------------------------------------------------------------------------
\* Between checks the administrators believe to be up what the saved status says is up,
\* of every component, unless a message was lost, a process ended or the file was
\* emptied under it, or two checks overlapped, and no check since has told of it.
FileIsTold ==
  file.state = "whole" /\ ~Active("daemon") /\ ~Active("hand") =>
    \A c \in Components \ missed : c \in file.running <=> believed[c] = "up"

\* What the checks come back to: no component that was said to be up is down, unless why
\* nobody was told of it is known.
DownIsTold == \A c \in Components \ (up \cup missed) : believed[c] # "up"
=============================================================================
