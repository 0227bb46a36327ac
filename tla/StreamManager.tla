--------------------------- MODULE StreamManager ---------------------------
(***************************************************************************)
(* One stream of data_lab/redis_stream_manager.py: publishers, consumers   *)
(* of one group, backpressure and dropping.  Every request to Redis is a   *)
(* step of its own, so that the requests of several publishers and         *)
(* consumers interleave, and every request can fail.                       *)
(*                                                                         *)
(* The fallback of _publish_fallback tests "if queue:", which is false for *)
(* the empty deques that _init_fallback_streams makes, and then returns an *)
(* id that was never assigned: it raises for the first event, hence for    *)
(* every event, and the queues stay empty.                                 *)
(***************************************************************************)
EXTENDS Naturals, Integers, Sequences, FiniteSets

CONSTANTS Publishers,
          Priorities, Low,
          MaxLength,      \* max_length of the stream
          CriticalAt,     \* its critical_threshold
          DropMost,       \* min(100, ...) of _handle_backpressure
          DropSlack,      \* the + 500 of _handle_backpressure
          DropBatch,      \* count=10 of the xread in _drop_events
          ReadMost,       \* count of consume_events
          MaxEvents,      \* bound: publications followed
          MaxFailures     \* bound: requests that fail

ASSUME StreamAssumption ==
  /\ IsFiniteSet(Publishers) /\ Low \in Priorities
  /\ {MaxLength, CriticalAt, DropMost, DropBatch, ReadMost} \subseteq Nat \ {0}
  /\ {DropSlack, MaxEvents, MaxFailures} \subseteq Nat

VARIABLES
  useFallback,   \* _use_fallback, decided once by _initialize
  connected,     \* self.connected
  stream,        \* the entries of the Redis stream, oldest first
  last,          \* the id xadd gave last
  cursor,        \* last-delivered-id of the consumer group
  open,          \* its pending entries: handed out, not acknowledged
  counter,       \* _event_counters of the stream
  pub,           \* what each publisher is doing inside publish_event
  seen,          \* history: the ids some consumer of the group was returned
  refused,       \* history: publish_event raised to some publisher
  failures       \* requests that failed so far

vars == <<useFallback, connected, stream, last, cursor, open, counter, pub, seen, refused, failures>>
group == <<cursor, open, seen>>

Box == INSTANCE Mailbox WITH entries <- stream, Room <- MaxLength

Idle == [at |-> "idle"]

Init ==
  /\ useFallback \in BOOLEAN
  /\ connected = ~useFallback
  /\ stream = <<>>
  /\ last = 0 /\ cursor = 0 /\ open = {} /\ counter = 0
  /\ pub = [p \in Publishers |-> Idle]
  /\ seen = {}
  /\ refused = FALSE
  /\ failures = 0

Fails == failures < MaxFailures /\ failures' = failures + 1

\* Mutant of Refused: the failed publication is counted like the others.
RefusedButCounted(p) ==
  /\ pub' = [pub EXCEPT ![p] = Idle]
  /\ counter' = counter + 1
  /\ refused' = TRUE

\* publish_event raises: _publish_fallback has no event id to return.
Refused(p) ==
  /\ pub' = [pub EXCEPT ![p] = Idle]
  /\ refused' = TRUE
  /\ UNCHANGED counter

\* publish_event returns the event's id.
Accepted(p) ==
  /\ pub' = [pub EXCEPT ![p] = Idle]
  /\ counter' = counter + 1

\* xadd with an approximate maximum length: Redis may cut the oldest entries
\* off, never so many that fewer than the maximum length remain.
Trimmed(s) == {Box!From(s, i) : i \in {j \in 1..Len(s) : j = 1 \/ Len(s) - j + 1 >= MaxLength}}

PublishToFallback(p) ==
  /\ pub[p].at = "idle"
  /\ useFallback \/ ~connected
  /\ Refused(p)
  /\ UNCHANGED <<useFallback, connected, stream, last, group, failures>>

Added(priority) == Append(stream, [id |-> last + 1, priority |-> priority])

Publish(p, priority) ==
  /\ pub[p].at = "idle"
  /\ ~useFallback /\ connected
  /\ last < MaxEvents
  /\ \E s \in Trimmed(Added(priority)) : stream' = s
  /\ last' = last + 1
  /\ pub' = [pub EXCEPT ![p] = [at |-> "added"]]
  /\ UNCHANGED <<useFallback, connected, group, counter, refused, failures>>

\* xadd or xlen raises: the manager is disconnected, and nothing reconnects it.
RequestFails(p) ==
  /\ \/ pub[p].at = "idle" /\ ~useFallback /\ connected
     \/ pub[p].at = "added"
  /\ Fails
  /\ connected' = FALSE
  /\ Refused(p)
  /\ UNCHANGED <<useFallback, stream, last, group>>

\* check_backpressure: the threshold of the stream counts, not its maximum.
Over(length) == length >= CriticalAt

DropCount(length) ==
  LET over == length - MaxLength + DropSlack
  IN IF over < DropMost THEN over ELSE DropMost

\* _handle_backpressure: dropping starts, unless there is nothing to drop.
HandleBackpressure(p, length) ==
  /\ Over(length) /\ DropCount(length) > 0
  /\ pub' = [pub EXCEPT ![p] = [at |-> "dropping", count |-> DropCount(length),
                                dropped |-> 0, batch |-> <<>>]]
  /\ UNCHANGED counter

\* xlen and what publish_event makes of it.
Measure(p) ==
  /\ pub[p].at = "added"
  /\ \/ HandleBackpressure(p, Len(stream))
     \/ ~(Over(Len(stream)) /\ DropCount(Len(stream)) > 0) /\ Accepted(p)
  /\ UNCHANGED <<useFallback, connected, stream, last, group, refused, failures>>

Dropping(p) == pub[p].at = "dropping"

Oldest == SubSeq(stream, 1, IF Len(stream) < DropBatch THEN Len(stream) ELSE DropBatch)

\* Mutant of NothingRead: the loop has no break for an empty result.
NothingReadIgnored == FALSE

\* if not result: break
NothingRead == stream = <<>>

\* The while loop of _drop_events reads the first entries of the stream again.
DropRead(p) ==
  /\ Dropping(p)
  /\ pub[p].batch = <<>>
  /\ IF NothingRead
     THEN Accepted(p)
     ELSE /\ pub' = [pub EXCEPT ![p].batch = Oldest]
          /\ UNCHANGED counter
  /\ UNCHANGED <<useFallback, connected, stream, last, group, refused, failures>>

\* Mutant of Dropped: whatever is oldest is dropped.
DroppedAny(e) == TRUE

\* msg.get('priority') == 'low'
Dropped(e) == e.priority = Low

\* drop_count after the entry: every xdel counts, also one that found nothing.
AfterDrop(p, e) == pub[p].dropped + (IF Dropped(e) THEN 1 ELSE 0)

\* xdel: the entry is removed, if it is still there.
Delete(e) ==
  \/ \E i \in 1..Len(stream) : stream[i] = e /\ stream' = Box!RemoveAt(stream, i)
  \/ (\A i \in 1..Len(stream) : stream[i] # e) /\ UNCHANGED stream

\* One entry of the batch: delete it if it is low, stop when enough are deleted.
DropOne(p) ==
  /\ Dropping(p)
  /\ pub[p].batch # <<>>
  /\ LET e == Head(pub[p].batch)
         n == AfterDrop(p, e)
     IN /\ IF Dropped(e) THEN Delete(e) ELSE UNCHANGED stream
        /\ IF n >= pub[p].count
           THEN Accepted(p)
           ELSE /\ pub' = [pub EXCEPT ![p].dropped = n, ![p].batch = Tail(@)]
                /\ UNCHANGED counter
  /\ UNCHANGED <<useFallback, connected, last, group, refused, failures>>

\* xread or xdel raises: _drop_events gives up, and the event was published.
DropFails(p) ==
  /\ Dropping(p)
  /\ Fails
  /\ Accepted(p)
  /\ UNCHANGED <<useFallback, connected, stream, last, group, refused>>

\* The entries xreadgroup returns: the first ones after the group's cursor.
FirstUnread(i) == stream[i].id > cursor /\ \A h \in 1..i - 1 : stream[h].id <= cursor
Ids(i, j) == {stream[h].id : h \in i..j}

\* Mutant of Pending: the group reads without acknowledgement (NOACK).
PendingUnlessLost(ids) == open

Pending(ids) == open \cup ids

\* xreadgroup delivers the entries from i to j; the reply is lost, or an entry cannot
\* be parsed, after the k-th, and the consumer is returned the events up to it.
Consume ==
  /\ ~useFallback /\ connected
  /\ \E i, j \in 1..Len(stream) :
       /\ FirstUnread(i) /\ i <= j
       /\ j = i + ReadMost - 1 \/ (j = Len(stream) /\ j < i + ReadMost)
       /\ cursor' = stream[j].id
       /\ open' = Pending(Ids(i, j))
       /\ \E k \in i - 1..j :
            /\ IF k < j THEN Fails ELSE UNCHANGED failures
            /\ seen' = seen \cup Ids(i, k)
  /\ UNCHANGED <<useFallback, connected, stream, last, counter, pub, refused>>

\* A consumer acknowledges what it was returned.  One whose acknowledge_event
\* returned False, or that stopped, simply never does.
Acknowledge ==
  \E id \in seen \cap open :
    /\ open' = open \ {id}
    /\ UNCHANGED <<useFallback, connected, stream, last, cursor, counter, pub, seen, refused, failures>>

Step(p) == Measure(p) \/ DropRead(p) \/ DropOne(p)

Next ==
  \/ \E p \in Publishers :
       \/ PublishToFallback(p)
       \/ \E priority \in Priorities : Publish(p, priority)
       \/ RequestFails(p)
       \/ Step(p)
       \/ DropFails(p)
  \/ Consume
  \/ Acknowledge

\* A publisher inside publish_event goes on: its thread is scheduled.
Fairness == \A p \in Publishers : WF_vars(Step(p))

Spec == Init /\ [][Next]_vars /\ Fairness

-----------------------------------------------------------------------------
\* The manager implements the mailbox: whatever publishers, consumers and
\* failures do, only trimming of the oldest and dropping of low priority remove
\* entries, and the group hands each entry out once and in order.
MailboxSpec == Box!Spec

Orphans == last - counter - Cardinality({p \in Publishers : pub[p].at # "idle"})

\* An event that is in the stream although its publisher was told of an error
\* (publish_event raises after xadd) is the trace of a request that failed: the
\* counter of published events misses at most as many as requests failed.
OrphansAreFailures == Orphans \in 0..failures /\ (Orphans > 0 => refused)

\* Whatever the group has handed out was returned to a consumer or is still
\* pending: a lost reply of xreadgroup never makes an event look acknowledged.
HandedIsSeenOrOpen == \A i \in 1..Len(stream) : stream[i].id <= cursor => stream[i].id \in seen \cup open

OldestAreNotLow == \A i \in 1..Len(Oldest) : Oldest[i].priority # Low

\* Dropping ends, unless the entries that the loop reads over and over hold
\* none of low priority: only then does _drop_events never return.
DropEnds == \A p \in Publishers : Dropping(p) ~> (~Dropping(p) \/ (stream # <<>> /\ OldestAreNotLow))
=============================================================================
