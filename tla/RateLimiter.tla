---------------------------- MODULE RateLimiter ----------------------------
\* The limit on a client's requests (data_lab/auth/jwt_auth.py). A request takes its time
\* before it waits for the lock; under the lock the accepted ones of the last minute and
\* of the last hour are counted, and the ones older than an hour are forgotten.
EXTENDS Naturals, FiniteSets

CONSTANTS
  Threads,
  Minute, Hour,         \* the two windows
  PerMinute, PerHour,   \* requests_per_minute, requests_per_hour
  MaxWait,              \* bound: what a request waits for the lock, less than Hour - Minute
  MaxTime               \* bound: the clock

VARIABLES
  now,
  history,   \* the accepted requests the limiter remembers: their times, and numbers that tell them apart
  since,     \* the time each waiting request took, Idle if there is none
  accepted,  \* all of them
  overtaken  \* whether a request passed one that came before it

vars == <<now, history, since, accepted, overtaken>>

Times == 0 .. MaxTime
Idle == MaxTime + 1

Init ==
  /\ now = 0 /\ history = {} /\ accepted = {}
  /\ since = [t \in Threads |-> Idle] /\ overtaken = FALSE

Arrive(t) ==
  /\ since[t] = Idle
  /\ since' = [since EXCEPT ![t] = now]
  /\ UNCHANGED <<now, history, accepted, overtaken>>

\* Mutant of Recent: later requests are not of the last minute.
RecentBefore(x, w) == {r \in history : r.time <= x /\ x < r.time + w}

\* What a request of time x takes for the remembered ones of the last w units: also those
\* of later times that went before it.
Recent(x, w) == {r \in history : x < r.time + w}

Check(t) ==
  LET x == since[t]
      request == [time |-> x, number |-> Cardinality(accepted)] IN
  /\ x # Idle
  /\ since' = [since EXCEPT ![t] = Idle]
  /\ overtaken' = (overtaken \/ \E u \in Threads : since[u] < x)
  /\ IF Cardinality(Recent(x, Minute)) >= PerMinute \/ Cardinality(Recent(x, Hour)) >= PerHour
     THEN UNCHANGED <<history, accepted>>
     ELSE /\ history' = {r \in history \cup {request} : x < r.time + Hour}
          /\ accepted' = accepted \cup {request}
  /\ UNCHANGED now

Tick ==
  /\ now < MaxTime /\ \A t \in Threads : since[t] = Idle \/ now - since[t] < MaxWait
  /\ now' = now + 1
  /\ UNCHANGED <<history, since, accepted, overtaken>>

Next == Tick \/ \E t \in Threads : Arrive(t) \/ Check(t)

-----------------------------------------------------------------------------
Within(x, w) == {r \in accepted : x <= r.time /\ r.time < x + w}

\* No minute has more accepted requests than PerMinute, and no hour more than PerHour,
\* unless a request was overtaken on its way to the lock: the later one forgets what is
\* an hour old for itself, and still counts for the one that comes after it.
WindowsAreKept ==
  \A x \in Times :
    /\ Cardinality(Within(x, Minute)) <= PerMinute
    /\ overtaken \/ Cardinality(Within(x, Hour)) <= PerHour
=============================================================================
