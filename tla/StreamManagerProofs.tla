------------------------- MODULE StreamManagerProofs -------------------------
(***************************************************************************)
(* Theorems about the stream manager, for every finite set of publishers,  *)
(* every threshold and any number of events and of failed requests: what   *)
(* it counts, what its consumers are handed, and that it implements the    *)
(* mailbox.                                                                *)
(***************************************************************************)
EXTENDS StreamManager, FiniteSetTheorems, SequenceTheorems, TLAPS

-----------------------------------------------------------------------------
\* What a publisher is doing is a record with its place.  What else the record holds,
\* a batch of entries of the stream among it, the argument does not need.
Placed(r) == r = [field \in DOMAIN r |-> r[field]] /\ "at" \in DOMAIN r

PubType ==
  /\ pub = [p \in Publishers |-> pub[p]]
  /\ \A p \in Publishers : Placed(pub[p])

CountType == last \in Nat /\ counter \in Nat /\ failures \in Nat

\* The publishers inside publish_event.
Busy == {p \in Publishers : pub[p].at # "idle"}

IInv == PubType /\ CountType /\ OrphansAreFailures

\* The set of publishers inside publish_event is finite.
LEMMA BusyIsFinite == IsFiniteSet(Busy) /\ Cardinality(Busy) \in Nat
<1>1. Busy \in SUBSET Publishers
  BY DEF Busy
<1> QED BY <1>1, StreamAssumption, FS_Subset, FS_CardinalityType

\* A publisher leaves publish_event.
LEMMA Leaves ==
    ASSUME PubType, NEW p \in Publishers, pub' = [pub EXCEPT ![p] = Idle]
    PROVE  /\ PubType'
           /\ Cardinality(Busy') \in Nat
           /\ Cardinality(Busy') = IF p \in Busy THEN Cardinality(Busy) - 1 ELSE Cardinality(Busy)
<1>1. PubType'
  BY DEF PubType, Placed, Idle
<1>2. Busy' = Busy \ {p}
  BY DEF PubType, Busy, Idle
<1> QED BY <1>1, <1>2, BusyIsFinite, FS_RemoveElement, FS_CardinalityType

\* A publisher that stays inside publish_event.
LEMMA Stays ==
    ASSUME PubType, NEW p \in Busy, NEW r, Placed(r), r.at # "idle", pub' = [pub EXCEPT ![p] = r]
    PROVE  PubType' /\ Busy' = Busy
<1>1. p \in Publishers
  BY DEF Busy
<1>2. PubType'
  BY <1>1 DEF PubType
<1>3. Busy' = Busy
  BY <1>1 DEF PubType, Busy
<1> QED BY <1>2, <1>3

-----------------------------------------------------------------------------
\* The publisher is refused: before its event was stored nothing is left of it, and
\* after that its event is an orphan.
LEMMA RefusedKeeps ==
    ASSUME IInv, NEW p \in Publishers, Refused(p), last' = last,
           \/ pub[p].at = "idle" /\ failures' \in {failures, failures + 1}
           \/ failures' = failures + 1
    PROVE  IInv'
<1>1. /\ Cardinality(Busy') \in Nat /\ PubType'
      /\ Cardinality(Busy') = IF p \in Busy THEN Cardinality(Busy) - 1 ELSE Cardinality(Busy)
  BY Leaves DEF IInv, Refused
<1>2. p \in Busy <=> pub[p].at # "idle"
  BY DEF Busy
<1>3. counter' = counter /\ refused' = TRUE
  BY DEF Refused
<1>4. CountType'
  BY <1>3 DEF IInv, CountType
<1>5. Orphans \in 0..failures /\ Orphans = last - counter - Cardinality(Busy)
  BY DEF IInv, OrphansAreFailures, Orphans, Busy
<1>6. Orphans' = last' - counter' - Cardinality(Busy')
  BY DEF Orphans, Busy
<1>7. Orphans' = Orphans + (IF p \in Busy THEN 1 ELSE 0)
  BY <1>1, <1>3, <1>5, <1>6, BusyIsFinite DEF IInv, CountType
<1>8. Orphans' \in 0..failures'
  BY <1>2, <1>5, <1>7 DEF IInv, CountType
<1> QED BY <1>1, <1>3, <1>4, <1>8 DEF IInv, OrphansAreFailures

\* The event is counted, and its publisher leaves.
LEMMA AcceptedKeeps ==
    ASSUME IInv, NEW p \in Busy, Accepted(p), last' = last, refused' = refused,
           failures' \in {failures, failures + 1}
    PROVE  IInv'
<1>1. p \in Publishers
  BY DEF Busy
<1>2. /\ Cardinality(Busy') \in Nat /\ PubType'
      /\ Cardinality(Busy') = Cardinality(Busy) - 1
  BY <1>1, Leaves DEF IInv, Accepted
<1>3. counter' = counter + 1
  BY DEF Accepted
<1>4. CountType'
  BY <1>3 DEF IInv, CountType
<1>5. Orphans \in 0..failures /\ Orphans = last - counter - Cardinality(Busy)
  BY DEF IInv, OrphansAreFailures, Orphans, Busy
<1>6. Orphans' = last' - counter' - Cardinality(Busy')
  BY DEF Orphans, Busy
<1>7. Orphans' = Orphans
  BY <1>2, <1>3, <1>5, <1>6, BusyIsFinite DEF IInv, CountType
<1>8. Orphans' \in 0..failures'
  BY <1>5, <1>7 DEF IInv, CountType
<1> QED BY <1>2, <1>4, <1>7, <1>8 DEF IInv, OrphansAreFailures

\* A stored event has a publisher that is still inside publish_event.
LEMMA PublishKeeps ==
    ASSUME IInv, NEW p \in Publishers, NEW priority \in Priorities, Publish(p, priority)
    PROVE  IInv'
<1> DEFINE r == [at |-> "added"]
<1>1. /\ pub[p].at = "idle" /\ pub' = [pub EXCEPT ![p] = r]
      /\ last' = last + 1 /\ UNCHANGED <<counter, refused, failures>>
  BY DEF Publish
<1>2. PubType'
  BY <1>1 DEF IInv, PubType, Placed
<1>3. Busy' = Busy \cup {p} /\ p \notin Busy
  BY <1>1 DEF IInv, PubType, Busy
<1>4. Cardinality(Busy') = Cardinality(Busy) + 1
  BY <1>3, BusyIsFinite, FS_AddElement
<1>5. CountType'
  BY <1>1 DEF IInv, CountType
<1>6. Orphans = last - counter - Cardinality(Busy)
  BY DEF Orphans, Busy
<1>7. Orphans' = last' - counter' - Cardinality(Busy')
  BY DEF Orphans, Busy
<1>8. Orphans' = Orphans
  BY <1>1, <1>4, <1>6, <1>7, BusyIsFinite DEF IInv, CountType
<1> QED BY <1>1, <1>2, <1>5, <1>8 DEF IInv, OrphansAreFailures

\* Dropping goes on.
LEMMA DroppingKeeps ==
    ASSUME IInv, NEW p \in Busy, NEW r, Placed(r), r.at # "idle", pub' = [pub EXCEPT ![p] = r],
           UNCHANGED <<last, counter, refused, failures>>
    PROVE  IInv'
<1>1. PubType' /\ Busy' = Busy
  BY Stays DEF IInv
<1>2. /\ Orphans = last - counter - Cardinality(Busy)
      /\ Orphans' = last' - counter' - Cardinality(Busy')
  BY DEF Orphans, Busy
<1>3. Orphans' = Orphans
  BY <1>1, <1>2
<1> QED BY <1>1, <1>3 DEF IInv, CountType, OrphansAreFailures

\* A publisher measures the stream, and reads and drops the oldest entries.
LEMMA StepKeeps ==
    ASSUME IInv, NEW p \in Publishers, Step(p)
    PROVE  IInv'
<1>1. p \in Busy /\ Placed(pub[p])
  BY DEF Step, Measure, DropRead, DropOne, Dropping, Busy, IInv, PubType
<1>2. UNCHANGED <<last, refused, failures>>
  BY DEF Step, Measure, DropRead, DropOne, group
<1>3. CASE Accepted(p)
  BY <1>1, <1>2, <1>3, AcceptedKeeps
<1>4. CASE HandleBackpressure(p, Len(stream))
  <2> DEFINE r == [at |-> "dropping", count |-> DropCount(Len(stream)),
                dropped |-> 0, batch |-> <<>>]
  <2>1. pub' = [pub EXCEPT ![p] = r] /\ counter' = counter
    BY <1>4 DEF HandleBackpressure
  <2>2. Placed(r) /\ r.at # "idle"
    BY DEF Placed
  <2> QED BY <1>1, <1>2, <2>1, <2>2, DroppingKeeps
<1>5. CASE Dropping(p) /\ counter' = counter /\ pub' = [pub EXCEPT ![p].batch = Oldest]
  <2> DEFINE r == [pub[p] EXCEPT !.batch = Oldest]
  <2>1. pub' = [pub EXCEPT ![p] = r]
    BY <1>5
  <2>2. Placed(r) /\ r.at # "idle"
    BY <1>1, <1>5 DEF Placed, Dropping
  <2> QED BY <1>1, <1>2, <1>5, <2>1, <2>2, DroppingKeeps
<1>6. CASE DropOne(p) /\ ~Accepted(p)
  <2> DEFINE n == AfterDrop(p, Head(pub[p].batch))
  <2> DEFINE r == [pub[p] EXCEPT !.dropped = n, !.batch = Tail(@)]
  <2>1. pub' = [pub EXCEPT ![p] = r] /\ counter' = counter /\ Dropping(p)
    BY <1>6 DEF DropOne
  <2>2. Placed(r) /\ r.at # "idle"
    BY <1>1, <2>1 DEF Placed, Dropping
  <2> QED BY <1>1, <1>2, <2>1, <2>2, DroppingKeeps
<1> QED BY <1>3, <1>4, <1>5, <1>6 DEF Step, Measure, DropRead, DropOne

\* The consumers do not touch what is counted.
LEMMA ConsumersKeep ==
    ASSUME IInv, Consume \/ Acknowledge \/ UNCHANGED vars
    PROVE  IInv'
<1>1. UNCHANGED <<last, counter, pub, refused>>
  BY DEF Consume, Acknowledge, vars
<1>2. failures' \in {failures, failures + 1}
  BY DEF Consume, Acknowledge, vars, Fails
<1>3. Orphans' = Orphans
  BY <1>1 DEF Orphans
<1> QED BY <1>1, <1>2, <1>3 DEF IInv, PubType, CountType, OrphansAreFailures

\* The invariant holds initially.
LEMMA InitHolds == Init => IInv
<1> SUFFICES ASSUME Init PROVE IInv
  OBVIOUS
<1>1. PubType
  BY DEF Init, PubType, Placed, Idle
<1>2. Busy = {}
  BY DEF Init, Busy, Idle
<1>3. Orphans = 0
  BY <1>2, FS_EmptySet DEF Orphans, Busy, Init
<1> QED BY <1>1, <1>3 DEF Init, IInv, CountType, OrphansAreFailures

\* Every step keeps it.
LEMMA NextKeeps == IInv /\ [Next]_vars => IInv'
<1> SUFFICES ASSUME IInv, [Next]_vars PROVE IInv'
  OBVIOUS
<1>1. ASSUME NEW p \in Publishers, PublishToFallback(p) PROVE IInv'
  BY <1>1, RefusedKeeps DEF PublishToFallback
<1>2. ASSUME NEW p \in Publishers, RequestFails(p) PROVE IInv'
  BY <1>2, RefusedKeeps DEF RequestFails, Fails
<1>3. ASSUME NEW p \in Publishers, DropFails(p) PROVE IInv'
  <2>1. p \in Busy
    BY <1>3 DEF DropFails, Dropping, Busy
  <2> QED BY <1>3, <2>1, AcceptedKeeps DEF DropFails, Fails
<1> QED BY <1>1, <1>2, <1>3, PublishKeeps, StepKeeps, ConsumersKeep DEF Next

\* OrphansAreFailures: for every number of publishers and of failures, no more events are
\* stored without being counted than requests have failed.
THEOREM OrphansAreCounted == Spec => []OrphansAreFailures
<1>1. IInv => OrphansAreFailures
  BY DEF IInv
<1> QED BY <1>1, InitHolds, NextKeeps, PTL DEF Spec

-----------------------------------------------------------------------------
(***************************************************************************)
(* The entries of the stream: ordered by their ids, none newer than the    *)
(* last one.  Trimming and dropping leave a part of the stream, which      *)
(* keeps the order.                                                        *)
(***************************************************************************)
Entries == [id : Nat, priority : Priorities]

Ordered(s, top) ==
  /\ s \in Seq(Entries)
  /\ \A i \in 1..Len(s) : s[i].id <= top
  /\ \A i, j \in 1..Len(s) : i < j => s[i].id < s[j].id

\* t is s without some of its entries.
Thinned(s, t) ==
  /\ t \in Seq(Entries)
  /\ \E at \in [1..Len(t) -> 1..Len(s)] :
       /\ \A j \in 1..Len(t) : t[j] = s[at[j]]
       /\ \A j, k \in 1..Len(t) : j < k => at[j] < at[k]

\* A part of an ordered stream is ordered.
LEMMA ThinnedIsOrdered ==
    ASSUME NEW s, NEW top, NEW t, Ordered(s, top), Thinned(s, t)
    PROVE  Ordered(t, top) /\ \A j \in 1..Len(t) : \E i \in 1..Len(s) : t[j] = s[i]
<1>1. PICK at \in [1..Len(t) -> 1..Len(s)] :
        /\ \A j \in 1..Len(t) : t[j] = s[at[j]]
        /\ \A j, k \in 1..Len(t) : j < k => at[j] < at[k]
  BY DEF Thinned
<1>2. \A j \in 1..Len(t) : at[j] \in 1..Len(s)
  OBVIOUS
<1> QED BY <1>1, <1>2 DEF Ordered, Thinned

\* The entries of an ordered stream and their ids.
LEMMA OrderedIds ==
    ASSUME NEW s, NEW top, Ordered(s, top)
    PROVE  Len(s) \in Nat /\ \A i \in 1..Len(s) : s[i] \in Entries /\ s[i].id \in Nat
<1>1. Len(s) \in Nat
  BY LenProperties DEF Ordered
<1>2. \A i \in 1..Len(s) : s[i] \in Entries
  BY ElementOfSeq DEF Ordered
<1> QED BY <1>1, <1>2 DEF Entries

\* A contiguous part of a sequence of entries.
LEMMA PartOf ==
    ASSUME NEW s, NEW m \in Int, NEW n \in Int, \A j \in m..n : s[j] \in Entries
    PROVE  /\ SubSeq(s, m, n) \in Seq(Entries)
           /\ Len(SubSeq(s, m, n)) = IF m <= n THEN n - m + 1 ELSE 0
           /\ \A j \in 1..n - m + 1 : SubSeq(s, m, n)[j] = s[m + j - 1]
<1> HIDE DEF Entries
<1> QED BY SubSeqProperties

\* The entries from the i-th on.
LEMMA FromThins ==
    ASSUME NEW s \in Seq(Entries), NEW i \in 1..Len(s)
    PROVE  Thinned(s, Box!From(s, i))
<1> DEFINE t == Box!From(s, i)
<1>1. Len(s) \in Nat /\ \A j \in 1..Len(s) : s[j] \in Entries
  BY LenProperties, ElementOfSeq
<1>2. /\ t \in Seq(Entries) /\ Len(t) = Len(s) - i + 1
      /\ \A j \in 1..Len(s) - i + 1 : t[j] = s[i + j - 1]
  <2>1. i \in Int /\ Len(s) \in Int /\ i <= Len(s) /\ \A j \in i..Len(s) : s[j] \in Entries
    BY <1>1
  <2>2. /\ SubSeq(s, i, Len(s)) \in Seq(Entries)
        /\ Len(SubSeq(s, i, Len(s))) = IF i <= Len(s) THEN Len(s) - i + 1 ELSE 0
        /\ \A j \in 1..Len(s) - i + 1 : SubSeq(s, i, Len(s))[j] = s[i + j - 1]
    BY <2>1, PartOf
  <2> QED BY <2>1, <2>2 DEF Box!From
<1> DEFINE at == [j \in 1..Len(t) |-> i + j - 1]
<1>3. at \in [1..Len(t) -> 1..Len(s)]
  BY <1>1, <1>2
<1> HIDE DEF t
<1>4. \A j \in 1..Len(t) : t[j] = s[at[j]]
  BY <1>2
<1>5. \A j, k \in 1..Len(t) : j < k => at[j] < at[k]
  BY <1>1, <1>2
<1> HIDE DEF at
<1>6. Thinned(s, t)
  BY <1>2, <1>3, <1>4, <1>5 DEF Thinned
<1> QED BY <1>6 DEF t

\* All entries but the i-th.
LEMMA RemovalThins ==
    ASSUME NEW s \in Seq(Entries), NEW i \in 1..Len(s)
    PROVE  Thinned(s, Box!RemoveAt(s, i))
<1> DEFINE before == SubSeq(s, 1, i - 1)
<1> DEFINE after == SubSeq(s, i + 1, Len(s))
<1> DEFINE t == before \o after
<1>1. Len(s) \in Nat /\ i \in Nat /\ 1 <= i /\ i <= Len(s) /\ \A j \in 1..Len(s) : s[j] \in Entries
  BY LenProperties, ElementOfSeq
<1>2. /\ before \in Seq(Entries) /\ Len(before) = i - 1
      /\ \A j \in 1..i - 1 : before[j] = s[j]
  <2>1. 1 \in Int /\ i - 1 \in Int /\ \A j \in 1..i - 1 : s[j] \in Entries
    BY <1>1
  <2>2. /\ before \in Seq(Entries)
        /\ Len(before) = IF 1 <= i - 1 THEN i - 1 - 1 + 1 ELSE 0
        /\ \A j \in 1..i - 1 - 1 + 1 : before[j] = s[1 + j - 1]
    BY <2>1, PartOf
  <2> HIDE DEF before
  <2> QED BY <1>1, <2>2
<1>3. /\ after \in Seq(Entries) /\ Len(after) = Len(s) - i
      /\ \A j \in 1..Len(s) - i : after[j] = s[i + j]
  <2>1. i + 1 \in Int /\ Len(s) \in Int /\ \A j \in i + 1..Len(s) : s[j] \in Entries
    BY <1>1
  <2>2. /\ after \in Seq(Entries)
        /\ Len(after) = IF i + 1 <= Len(s) THEN Len(s) - (i + 1) + 1 ELSE 0
        /\ \A j \in 1..Len(s) - (i + 1) + 1 : after[j] = s[i + 1 + j - 1]
    BY <2>1, PartOf
  <2> HIDE DEF after
  <2> QED BY <1>1, <2>2
<1> HIDE DEF before, after
<1>4. /\ t \in Seq(Entries) /\ Len(t) = Len(before) + Len(after)
      /\ \A j \in 1..Len(before) + Len(after) :
           t[j] = IF j <= Len(before) THEN before[j] ELSE after[j - Len(before)]
  BY <1>2, <1>3, ConcatProperties, Zenon
<1> HIDE DEF t
<1> DEFINE at == [j \in 1..Len(t) |-> IF j < i THEN j ELSE j + 1]
<1>5. Len(t) = Len(s) - 1
  BY <1>1, <1>2, <1>3, <1>4
<1>6. at \in [1..Len(t) -> 1..Len(s)]
  BY <1>1, <1>5
<1>7. ASSUME NEW j \in 1..Len(t) PROVE t[j] = s[at[j]]
  <2>1. CASE j < i
    BY <1>1, <1>2, <1>3, <1>4, <1>5, <2>1
  <2>2. CASE ~(j < i)
    <3>1. t[j] = after[j - (i - 1)] /\ j - (i - 1) \in 1..Len(s) - i
      BY <1>1, <1>2, <1>3, <1>4, <1>5, <2>2
    <3>2. after[j - (i - 1)] = s[i + (j - (i - 1))]
      BY <1>3, <3>1
    <3>3. i + (j - (i - 1)) = at[j]
      BY <1>1, <2>2
    <3> QED BY <3>1, <3>2, <3>3
  <2> QED BY <2>1, <2>2
<1>8. \A j, k \in 1..Len(t) : j < k => at[j] < at[k]
  BY <1>1, <1>5
<1> HIDE DEF at
<1>9. Thinned(s, t)
  BY <1>4, <1>6, <1>7, <1>8 DEF Thinned
<1> QED BY <1>9 DEF t, before, after, Box!RemoveAt

\* A new entry is newer than all others.
LEMMA AddedIsOrdered ==
    ASSUME last \in Nat, Ordered(stream, last), NEW priority \in Priorities
    PROVE  /\ Ordered(Added(priority), last + 1) /\ Len(Added(priority)) = Len(stream) + 1
           /\ \A i \in 1..Len(stream) : Added(priority)[i] = stream[i]
           /\ Added(priority)[Len(stream) + 1].id = last + 1
<1> DEFINE e == [id |-> last + 1, priority |-> priority]
<1>1. e \in Entries /\ e.id = last + 1
  BY DEF Entries
<1> HIDE DEF e
<1> DEFINE t == Append(stream, e)
<1>2. /\ t \in Seq(Entries) /\ Len(t) = Len(stream) + 1
      /\ \A i \in 1..Len(stream) : t[i] = stream[i]
      /\ t[Len(stream) + 1] = e
  BY <1>1, AppendProperties DEF Ordered
<1>3. Len(stream) \in Nat /\ \A i \in 1..Len(stream) : stream[i].id \in Nat
  BY OrderedIds
<1> HIDE DEF t
<1>4. \A i \in 1..Len(t) : i \in 1..Len(stream) \/ i = Len(stream) + 1
  BY <1>2, <1>3
<1>5. \A i \in 1..Len(t) : t[i].id <= last + 1
  BY <1>1, <1>2, <1>3, <1>4 DEF Ordered
<1>6. ASSUME NEW i \in 1..Len(t), NEW j \in 1..Len(t), i < j PROVE t[i].id < t[j].id
  <2>1. i \in 1..Len(stream)
    BY <1>2, <1>3, <1>6
  <2>2. CASE j \in 1..Len(stream)
    BY <1>2, <1>6, <2>1, <2>2 DEF Ordered
  <2>3. CASE j = Len(stream) + 1
    <3>1. t[i].id = stream[i].id /\ stream[i].id <= last /\ t[j].id = last + 1
      BY <1>1, <1>2, <2>1, <2>3 DEF Ordered
    <3> QED BY <1>3, <2>1, <3>1
  <2> QED BY <1>4, <2>2, <2>3
<1>7. Ordered(t, last + 1)
  BY <1>2, <1>5, <1>6 DEF Ordered
<1> QED BY <1>1, <1>2, <1>7 DEF Added, t, e

-----------------------------------------------------------------------------
(***************************************************************************)
(* The consumer group.  Nothing that is stored later is before its cursor, *)
(* and what is before it was returned to a consumer or is pending.         *)
(***************************************************************************)
GroupInv ==
  /\ last \in Nat /\ cursor \in Nat /\ cursor <= last
  /\ Ordered(stream, last)
  /\ HandedIsSeenOrOpen

\* What one step owes the group and the mailbox.
Served == GroupInv' /\ [Box!Next]_(Box!vars)

\* A step that touches neither the stream nor the group.
LEMMA ElsewhereServes ==
    ASSUME GroupInv, UNCHANGED <<stream, last, cursor, open, seen>>
    PROVE  Served
BY DEF GroupInv, HandedIsSeenOrOpen, Ordered, Served, Box!vars

\* An event is stored, and the oldest may leave: the mailbox accepts it.
LEMMA PublishServes ==
    ASSUME GroupInv, NEW p \in Publishers, NEW priority \in Priorities, Publish(p, priority)
    PROVE  Served
<1>1. last' = last + 1 /\ UNCHANGED <<cursor, open, seen>> /\ stream' \in Trimmed(Added(priority))
  BY DEF Publish, group
<1> DEFINE all == Added(priority)
<1>2. /\ Ordered(all, last + 1) /\ Len(all) = Len(stream) + 1 /\ Len(stream) \in Nat
      /\ \A i \in 1..Len(stream) : all[i] = stream[i]
      /\ all[Len(stream) + 1].id = last + 1
  BY AddedIsOrdered, LenProperties DEF GroupInv, Ordered
<1>3. PICK i \in 1..Len(all) :
        (i = 1 \/ Len(all) - i + 1 >= MaxLength) /\ stream' = Box!From(all, i)
  BY <1>1 DEF Trimmed
<1>4. Ordered(stream', last + 1) /\ \A j \in 1..Len(stream') : \E k \in 1..Len(all) : stream'[j] = all[k]
  <2>1. Thinned(all, stream')
    BY <1>2, <1>3, FromThins DEF Ordered
  <2> QED BY <1>2, <2>1, ThinnedIsOrdered
<1>5. GroupInv'
  <2>1. HandedIsSeenOrOpen'
    <3> SUFFICES ASSUME NEW j \in 1..Len(stream'), stream'[j].id <= cursor
                 PROVE  stream'[j].id \in seen \cup open
      BY <1>1 DEF HandedIsSeenOrOpen
    <3>1. PICK k \in 1..Len(all) : stream'[j] = all[k]
      BY <1>4
    <3>2. k # Len(stream) + 1
      BY <1>2, <3>1 DEF GroupInv
    <3>3. k \in 1..Len(stream) /\ stream'[j] = stream[k]
      BY <1>2, <3>1, <3>2
    <3> QED BY <3>3 DEF GroupInv, HandedIsSeenOrOpen
  <2>2. last' \in Nat /\ cursor' \in Nat /\ cursor' <= last'
    BY <1>1 DEF GroupInv
  <2>3. Ordered(stream, last)'
    BY <1>1, <1>4 DEF Ordered
  <2> QED BY <2>1, <2>2, <2>3 DEF GroupInv
<1>6. Box!Accept(priority)
  <2>1. i > 1 => Len(all) - i + 1 >= MaxLength
    BY <1>3
  <2> QED BY <1>1, <1>3, <2>1 DEF Box!Accept, Added
<1> QED BY <1>5, <1>6 DEF Served, Box!Next

\* A low entry is deleted, or is gone already: the mailbox drops it, or does nothing.
LEMMA DeleteServes ==
    ASSUME GroupInv, NEW e, Dropped(e), Delete(e), UNCHANGED <<last, cursor, open, seen>>
    PROVE  Served
<1>1. CASE UNCHANGED stream
  BY <1>1, ElsewhereServes
<1>2. CASE \E i \in 1..Len(stream) : stream[i] = e /\ stream' = Box!RemoveAt(stream, i)
  <2>1. PICK i \in 1..Len(stream) : stream[i] = e /\ stream' = Box!RemoveAt(stream, i)
    BY <1>2
  <2>2. Thinned(stream, stream')
    BY <2>1, RemovalThins DEF GroupInv, Ordered
  <2>3. Ordered(stream', last) /\ \A j \in 1..Len(stream') : \E k \in 1..Len(stream) : stream'[j] = stream[k]
    BY <2>2, ThinnedIsOrdered DEF GroupInv
  <2>4. HandedIsSeenOrOpen'
    BY <2>3 DEF GroupInv, HandedIsSeenOrOpen
  <2>5. Ordered(stream, last)'
    BY <2>3 DEF Ordered
  <2>6. GroupInv'
    BY <2>4, <2>5 DEF GroupInv
  <2>7. Box!Drop
    BY <2>1 DEF Box!Drop, Dropped
  <2> QED BY <2>6, <2>7 DEF Served, Box!Next
<1> QED BY <1>1, <1>2 DEF Delete

\* The next entries are handed out: those between the old cursor and the new one.
LEMMA ConsumeServes ==
    ASSUME GroupInv, Consume
    PROVE  Served
<1>1. UNCHANGED <<stream, last>>
  BY DEF Consume
<1>2. PICK i \in 1..Len(stream), j \in 1..Len(stream) :
        /\ FirstUnread(i) /\ i <= j
        /\ cursor' = stream[j].id /\ open' = open \cup Ids(i, j) /\ seen \subseteq seen'
  BY DEF Consume, Pending
<1>3. /\ Len(stream) \in Nat /\ cursor \in Nat
      /\ \A h \in 1..Len(stream) : stream[h].id \in Nat /\ stream[h].id <= last
      /\ \A g, h \in 1..Len(stream) : g < h => stream[g].id < stream[h].id
  BY OrderedIds DEF GroupInv, Ordered
<1>4. ASSUME NEW h \in 1..Len(stream)
      PROVE  h \in i..j <=> stream[h].id > cursor /\ stream[h].id <= cursor'
  <2>1. stream[i].id > cursor /\ (h < i => stream[h].id <= cursor)
    BY <1>2, <1>3 DEF FirstUnread
  <2>2. (h > i => stream[h].id > stream[i].id) /\ (h < j => stream[h].id < stream[j].id)
        /\ (h > j => stream[h].id > stream[j].id)
    BY <1>3
  <2>3. stream[h].id \in Nat /\ stream[i].id \in Nat /\ stream[j].id \in Nat /\ cursor \in Nat
    BY <1>3
  <2> QED BY <1>2, <2>1, <2>2, <2>3
<1>5. GroupInv'
  <2>1. cursor' \in Nat /\ cursor' <= last'
    BY <1>1, <1>2, <1>3
  <2>2. HandedIsSeenOrOpen'
    <3> SUFFICES ASSUME NEW h \in 1..Len(stream), stream[h].id <= cursor'
                 PROVE  stream[h].id \in seen' \cup open'
      BY <1>1 DEF HandedIsSeenOrOpen
    <3>1. CASE stream[h].id <= cursor
      BY <1>2, <3>1 DEF GroupInv, HandedIsSeenOrOpen
    <3>2. CASE ~(stream[h].id <= cursor)
      <4>1. h \in i..j
        BY <1>3, <1>4, <3>2
      <4> QED BY <1>2, <4>1 DEF Ids
    <3> QED BY <3>1, <3>2
  <2> QED BY <1>1, <2>1, <2>2 DEF GroupInv, Ordered
<1>6. Ids(i, j) = {id \in cursor + 1..cursor' : \E e \in Box!Kept(stream) : e.id = id}
  <2>1. ASSUME NEW id \in Ids(i, j)
        PROVE  id \in cursor + 1..cursor' /\ \E e \in Box!Kept(stream) : e.id = id
    <3>1. PICK h \in i..j : id = stream[h].id
      BY DEF Ids
    <3>2. h \in 1..Len(stream)
      BY <1>3
    <3>3. id \in cursor + 1..cursor'
      BY <1>2, <1>3, <1>4, <3>1, <3>2
    <3> QED BY <3>1, <3>2, <3>3 DEF Box!Kept
  <2>2. ASSUME NEW id \in cursor + 1..cursor', \E e \in Box!Kept(stream) : e.id = id
        PROVE  id \in Ids(i, j)
    <3>1. PICK h \in 1..Len(stream) : stream[h].id = id
      BY <2>2 DEF Box!Kept
    <3>2. h \in i..j
      BY <1>2, <1>3, <1>4, <3>1
    <3> QED BY <3>1, <3>2 DEF Ids
  <2> QED BY <2>1, <2>2
<1>7. Box!Hand
  <2>1. cursor' \in {e.id : e \in Box!Kept(stream)}
    BY <1>2 DEF Box!Kept
  <2>2. cursor' > cursor
    BY <1>2, <1>3, <1>4
  <2> QED BY <1>1, <1>2, <1>6, <2>1, <2>2 DEF Box!Hand
<1> QED BY <1>5, <1>7 DEF Served, Box!Next

\* An event is settled that some consumer has seen.
LEMMA AcknowledgeServes ==
    ASSUME GroupInv, Acknowledge
    PROVE  Served
<1>1. PICK id \in seen \cap open : open' = open \ {id}
  BY DEF Acknowledge
<1>2. UNCHANGED <<stream, last, cursor, seen>>
  BY DEF Acknowledge
<1>3. GroupInv'
  BY <1>1, <1>2 DEF GroupInv, Ordered, HandedIsSeenOrOpen
<1>4. Box!Settle(id)
  BY <1>1, <1>2 DEF Box!Settle
<1> QED BY <1>1, <1>3, <1>4 DEF Served, Box!Next

\* Every step serves the group and the mailbox.
LEMMA NextServes ==
    ASSUME GroupInv, [Next]_vars
    PROVE  Served
<1>1. ASSUME NEW p \in Publishers,
             PublishToFallback(p) \/ RequestFails(p) \/ Measure(p) \/ DropRead(p) \/ DropFails(p)
      PROVE  Served
  BY <1>1, ElsewhereServes DEF PublishToFallback, RequestFails, Measure, DropRead, DropFails, group
<1>2. ASSUME NEW p \in Publishers, DropOne(p) PROVE Served
  <2>1. /\ UNCHANGED <<last, cursor, open, seen>>
        /\ UNCHANGED stream \/ \E e : Dropped(e) /\ Delete(e)
    BY <1>2 DEF DropOne, group
  <2> QED BY <2>1, DeleteServes, ElsewhereServes
<1>3. CASE UNCHANGED vars
  BY <1>3, ElsewhereServes DEF vars, group
<1> QED BY <1>1, <1>2, <1>3, PublishServes, ConsumeServes, AcknowledgeServes DEF Next, Step

\* Initially the stream is empty.
LEMMA GroupInit == Init => GroupInv /\ Box!Init
BY DEF Init, GroupInv, Ordered, HandedIsSeenOrOpen, Box!Init

\* HandedIsSeenOrOpen: for every number of publishers, consumers and failures, what the
\* group has handed out was returned to a consumer or is pending; a lost reply never makes
\* an event look acknowledged.
THEOREM NothingHandedIsLost == Spec => []HandedIsSeenOrOpen
<1>1. GroupInv /\ [Next]_vars => GroupInv'
  BY NextServes DEF Served
<1>2. GroupInv => HandedIsSeenOrOpen
  BY DEF GroupInv
<1> QED BY <1>1, <1>2, GroupInit, PTL DEF Spec

\* The manager implements the mailbox: every step of it accepts, drops, hands out or
\* settles an event as the mailbox does, or leaves the mailbox as it is.
THEOREM ImplementsMailbox == Spec => MailboxSpec
<1>1. GroupInv /\ [Next]_vars => GroupInv'
  BY NextServes DEF Served
<1>2. GroupInv /\ [Next]_vars => [Box!Next]_(Box!vars)
  BY NextServes DEF Served
<1> QED BY <1>1, <1>2, GroupInit, PTL DEF Spec, MailboxSpec, Box!Spec
=============================================================================
