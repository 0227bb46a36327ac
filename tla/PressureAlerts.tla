--------------------------- MODULE PressureAlerts ---------------------------
\* The alerts about a filling stream (data_lab/backpressure.py), called by the threads
\* that publish. The handler is a singleton that its first users make: __new__ guards the
\* making with a lock, __init__ runs after it without one, for everybody who finds the
\* handler not yet initialized. An alert of a stream holds back the next for a cooldown.
EXTENDS Naturals

CONSTANTS
  Threads, Streams,
  Cooldown, \* alert_cooldown
  MaxTime   \* bound: the clock, which starts at Cooldown

VARIABLES
  now,      \* time.time()
  handler,  \* the instance: "absent", "bare" (no _initialized yet), "made" or "ready"
  last,     \* _last_alert_time, 0 for a stream without one
  enabled,  \* _enabled
  at,       \* where each thread is
  about,    \* the stream of its call
  asked,    \* what enable() and disable() asked for last
  filled,   \* whether the handler was filled in again when it was ready
  alerted,  \* when each stream had its last alert
  hurried,  \* streams with two alerts within a cooldown
  excused   \* streams of which two calls overlapped

vars == <<now, handler, last, enabled, at, about, asked, filled, alerted, hurried, excused>>

Init ==
  /\ now = Cooldown /\ handler = "absent"
  /\ last = [s \in Streams |-> 0] /\ alerted = last
  /\ enabled = TRUE /\ asked = TRUE
  /\ at = [t \in Threads |-> "idle"] /\ about = [t \in Threads |-> CHOOSE s \in Streams : TRUE]
  /\ filled = FALSE /\ hurried = {} /\ excused = {}

Goes(t, step) == at' = [at EXCEPT ![t] = step]

\* __new__: the first one makes the instance, and marks it under the lock. Those who wait
\* for the lock find it made, those who come between the two statements find it bare.
New(t, s) ==
  /\ at[t] = "idle"
  /\ about' = [about EXCEPT ![t] = s]
  /\ IF handler = "absent" THEN handler' = "bare" /\ Goes(t, "mark") ELSE UNCHANGED handler /\ Goes(t, "look")
  /\ UNCHANGED <<now, last, enabled, asked, filled, alerted, hurried, excused>>

Mark(t) ==
  /\ at[t] = "mark"
  /\ handler' = "made" /\ Goes(t, "look")
  /\ UNCHANGED <<now, last, enabled, about, asked, filled, alerted, hurried, excused>>

\* __init__: a bare instance has no _initialized, and the call ends with an exception.
Look(t) ==
  /\ at[t] = "look"
  /\ Goes(t, CASE handler = "bare" -> "idle" [] handler = "made" -> "fill" [] OTHER -> "check")
  /\ UNCHANGED <<now, handler, last, enabled, about, asked, filled, alerted, hurried, excused>>

Fill(t) ==
  /\ at[t] = "fill"
  /\ last' = [s \in Streams |-> 0] /\ enabled' = TRUE
  /\ handler' = "ready" /\ filled' = (filled \/ handler = "ready")
  /\ Goes(t, "check")
  /\ UNCHANGED <<now, about, asked, alerted, hurried, excused>>

\* Mutant of ShouldAlert: the cooldown ends one unit early.
ShouldAlertEarly(s) == now - last[s] >= Cooldown - 1

ShouldAlert(s) == now - last[s] >= Cooldown

\* handle_alert(): the time of the last alert is read, and set in another step.
Check(t) ==
  /\ at[t] = "check"
  /\ Goes(t, IF enabled /\ ShouldAlert(about[t]) THEN "stamp" ELSE "idle")
  /\ UNCHANGED <<now, handler, last, enabled, about, asked, filled, alerted, hurried, excused>>

\* The alert is stamped before it is sent, and counts whether Telegram takes it or not.
Stamp(t) ==
  LET s == about[t] IN
  /\ at[t] = "stamp"
  /\ last' = [last EXCEPT ![s] = now] /\ alerted' = [alerted EXCEPT ![s] = now]
  /\ hurried' = IF alerted[s] # 0 /\ now - alerted[s] < Cooldown THEN hurried \cup {s} ELSE hurried
  /\ excused' = IF \E u \in Threads \ {t} : at[u] = "stamp" /\ about[u] = s THEN excused \cup {s} ELSE excused
  /\ Goes(t, "idle")
  /\ UNCHANGED <<now, handler, enabled, about, asked, filled>>

\* enable() and disable(), on a handler that is ready.
Switch ==
  /\ handler = "ready"
  /\ enabled' = ~asked /\ asked' = ~asked
  /\ UNCHANGED <<now, handler, last, at, about, filled, alerted, hurried, excused>>

Tick ==
  /\ now < MaxTime /\ now' = now + 1
  /\ UNCHANGED <<handler, last, enabled, at, about, asked, filled, alerted, hurried, excused>>

Next ==
  \/ Switch \/ Tick
  \/ \E t \in Threads :
       \/ Mark(t) \/ Look(t) \/ Fill(t) \/ Check(t) \/ Stamp(t)
       \/ \E s \in Streams : New(t, s)

-----------------------------------------------------------------------------
\* A stream has two alerts within a cooldown only if two calls about it overlapped, and
\* alerts are on or off as was asked last, except after a second thread filled in the
\* handler that another one was using already: it forgets the alerts and switches them on.
HandlerIsKept ==
  /\ filled \/ hurried \subseteq excused
  /\ filled \/ enabled = asked
=============================================================================
