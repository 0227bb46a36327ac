------------------------------ MODULE EventBus ------------------------------
(***************************************************************************)
(* paper_trading/layers/layer10_events/event_bus.py: threads publish       *)
(* events, each through the steps of EventBus.publish.  lock is the one    *)
(* Lock of the bus, which is not reentrant; every body of                  *)
(* "with self._lock" is a state of its own, so that something else can     *)
(* happen while the lock is held.                                          *)
(***************************************************************************)
EXTENDS Naturals, Sequences

CONSTANTS Threads,      \* the threads, and signal frames, that publish
          Types,        \* the event types
          Handlers,     \* the handlers that subscribe
          NoThread,     \* nobody holds the lock
          MaxHistory    \* max_event_history

ASSUME BusAssumption == NoThread \notin Threads /\ MaxHistory \in Nat \ {0}

VARIABLES
  lock,          \* who holds self._lock
  subscribers,   \* _subscribers: the handlers of each type
  history,       \* _history
  published,     \* _stats: total_published
  call           \* where each thread is inside publish

busVars == <<lock, subscribers, history, published, call>>

Quiet == [at |-> "quiet"]

BusInit ==
  /\ lock = NoThread
  /\ subscribers = [k \in Types |-> {}]
  /\ history = <<>>
  /\ published = 0
  /\ call = [t \in Threads |-> Quiet]

Silent(t) == call[t].at = "quiet"

Acquire(t) == lock = NoThread /\ lock' = t
Release(t) == lock = t /\ lock' = NoThread

\* Mutant of Latest: the newest events are cut off.
Earliest(s) == IF Len(s) > MaxHistory THEN SubSeq(s, 1, MaxHistory) ELSE s

\* self._history[-self.max_history:]
Latest(s) == IF Len(s) > MaxHistory THEN SubSeq(s, Len(s) - MaxHistory + 1, Len(s)) ELSE s

\* A thread calls publish.
Publish(t, type) ==
  /\ Silent(t)
  /\ call' = [call EXCEPT ![t] = [at |-> "entering", type |-> type]]
  /\ UNCHANGED <<lock, subscribers, history, published>>

\* publish, first block under the lock.
Record(t) ==
  /\ call[t].at = "entering"
  /\ Acquire(t)
  /\ published' = published + 1
  /\ history' = Latest(Append(history, [type |-> call[t].type, number |-> published + 1]))
  /\ call' = [call EXCEPT ![t].at = "recording"]
  /\ UNCHANGED subscribers

Recorded(t) ==
  /\ call[t].at = "recording"
  /\ Release(t)
  /\ call' = [call EXCEPT ![t].at = "recorded"]
  /\ UNCHANGED <<subscribers, history, published>>

\* publish, second block under the lock: a copy of the handlers.
List(t) ==
  /\ call[t].at = "recorded"
  /\ Acquire(t)
  /\ call' = [call EXCEPT ![t] = [at |-> "listing", todo |-> subscribers[@.type]]]
  /\ UNCHANGED <<subscribers, history, published>>

Listed(t) ==
  /\ call[t].at = "listing"
  /\ Release(t)
  /\ call' = [call EXCEPT ![t].at = "delivering"]
  /\ UNCHANGED <<subscribers, history, published>>

\* A handler of the copy is called, or kept from the event by a filter.
Deliver(t) ==
  /\ call[t].at = "delivering"
  /\ \E h \in call[t].todo : call' = [call EXCEPT ![t].todo = @ \ {h}]
  /\ UNCHANGED <<lock, subscribers, history, published>>

Delivered(t) ==
  /\ call[t].at = "delivering"
  /\ call[t].todo = {}
  /\ call' = [call EXCEPT ![t] = Quiet]
  /\ UNCHANGED <<lock, subscribers, history, published>>

PublishStep(t) == Record(t) \/ Recorded(t) \/ List(t) \/ Listed(t) \/ Deliver(t) \/ Delivered(t)

\* subscribe
Subscribe(type, h) ==
  /\ lock = NoThread
  /\ subscribers' = [subscribers EXCEPT ![type] = @ \cup {h}]
  /\ UNCHANGED <<lock, history, published, call>>

\* unsubscribe
Unsubscribe(type, h) ==
  /\ lock = NoThread
  /\ subscribers' = [subscribers EXCEPT ![type] = @ \ {h}]
  /\ UNCHANGED <<lock, history, published, call>>
=============================================================================
