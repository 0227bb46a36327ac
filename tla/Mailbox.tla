------------------------------ MODULE Mailbox ------------------------------
(***************************************************************************)
(* What a stream of events promises its users, without the requests that   *)
(* the stream manager makes of Redis: events are kept in the order they    *)
(* were accepted, only the oldest leave when there is no room and only     *)
(* events of low priority leave otherwise, the consumers of the group are  *)
(* handed the events in order and each once, and an event that was handed  *)
(* out stays open until it is acknowledged.                                *)
(***************************************************************************)
EXTENDS Naturals, SequencesExt

CONSTANTS Priorities,  \* of events
          Low,         \* the one that is dropped first
          Room         \* how many events may be kept

VARIABLES entries,   \* the events kept, oldest first, as records [id, priority]
          last,      \* the id of the event accepted last
          cursor,    \* the id of the event handed out last
          open       \* the ids handed out and not acknowledged

vars == <<entries, last, cursor, open>>

\* The entries from the i-th on.
From(s, i) == SubSeq(s, i, Len(s))

Kept(s) == {s[i] : i \in 1..Len(s)}

Init ==
  /\ entries = <<>>
  /\ last = 0
  /\ cursor = 0
  /\ open = {}

\* An event is accepted; the oldest leave when there are more than Room.
Accept(p) ==
  LET all == Append(entries, [id |-> last + 1, priority |-> p])
  IN /\ \E i \in 1..Len(all) :
          /\ i > 1 => Len(all) - i + 1 >= Room
          /\ entries' = From(all, i)
     /\ last' = last + 1
     /\ UNCHANGED <<cursor, open>>

\* An event of low priority is dropped.
Drop ==
  /\ \E i \in 1..Len(entries) :
       /\ entries[i].priority = Low
       /\ entries' = RemoveAt(entries, i)
  /\ UNCHANGED <<last, cursor, open>>

\* The next events are handed to a consumer.
Hand ==
  \E upTo \in {e.id : e \in Kept(entries)} :
    /\ upTo > cursor
    /\ cursor' = upTo
    /\ open' = open \cup {id \in cursor + 1 .. upTo : \E e \in Kept(entries) : e.id = id}
    /\ UNCHANGED <<entries, last>>

Settle(id) ==
  /\ open' = open \ {id}
  /\ UNCHANGED <<entries, last, cursor>>

Next ==
  \/ \E p \in Priorities : Accept(p)
  \/ Drop
  \/ Hand
  \/ \E id \in open : Settle(id)

Spec == Init /\ [][Next]_vars
=============================================================================
