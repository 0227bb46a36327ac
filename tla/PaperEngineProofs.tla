------------------------- MODULE PaperEngineProofs -------------------------
(***************************************************************************)
(* What TLAPS proves of PaperEngine, for any number of update threads and  *)
(* requests and any order size: types, the position that is the sum of the *)
(* orders, the single loop, the health monitor.                            *)
(***************************************************************************)
EXTENDS PaperEngine, FiniteSetTheorems, TLAPS

USE PaperAssumption
-----------------------------------------------------------------------------
(***************************************************************************)
(* Sums of orders of one size.                                             *)
(***************************************************************************)
Multiple(n) == \E q \in Int : n = q * OrderSize

SideIs(pos) == pos.side = IF pos.size = 0 THEN "none" ELSE SideOf(pos.size)

\* No order yet is a sum of orders, and one more order is one.
LEMMA SumsOfOrders ==
    /\ Multiple(0)
    /\ \A n \in Int, side \in Sides : Multiple(n) => Multiple(n + Signed(side, OrderSize))
<1>1. Multiple(0)
  <2>1. 0 = 0 * OrderSize
    OBVIOUS
  <2> QED BY <2>1 DEF Multiple
<1>2. ASSUME NEW n \in Int, NEW side \in Sides, Multiple(n)
      PROVE  Multiple(n + Signed(side, OrderSize))
  <2>1. PICK q \in Int : n = q * OrderSize
    BY <1>2 DEF Multiple
  <2>2. (q + 1) * OrderSize = n + OrderSize /\ (q - 1) * OrderSize = n - OrderSize
    BY <2>1
  <2>3. CASE side = "long"
    <3>1. n + Signed(side, OrderSize) = (q + 1) * OrderSize
      BY <2>2, <2>3 DEF Signed
    <3>2. q + 1 \in Int
      OBVIOUS
    <3> QED BY <3>1, <3>2, Zenon DEF Multiple
  <2>4. CASE side = "short"
    <3>1. n + Signed(side, OrderSize) = (q - 1) * OrderSize
      BY <2>2, <2>4 DEF Signed
    <3>2. q - 1 \in Int
      OBVIOUS
    <3> QED BY <3>1, <3>2, Zenon DEF Multiple
  <2> QED BY <2>3, <2>4 DEF Sides
<1> QED BY <1>1, <1>2

\* A position that is not flat is at least one order away from flat.
LEMMA AtLeastOneOrder ==
    ASSUME NEW n \in Int, Multiple(n), n # 0
    PROVE  n >= OrderSize \/ n <= -OrderSize
<1>1. PICK q \in Int : n = q * OrderSize
  BY DEF Multiple
<1>2. CASE q >= 1
  <2>1. (q - 1) * OrderSize >= 0
    BY <1>2
  <2> QED BY <1>1, <2>1
<1>3. CASE q <= -1
  <2>1. (-1 - q) * OrderSize >= 0
    BY <1>3
  <2> QED BY <1>1, <2>1
<1>4. q # 0
  BY <1>1
<1> QED BY <1>2, <1>3, <1>4

\* One order moves such a position by its size and leaves the side the sign.
LEMMA OneOrder ==
    ASSUME NEW pos \in Positions, NEW side \in Sides,
           Multiple(pos.size), SideIs(pos)
    PROVE  /\ UpdatePosition(pos, side, OrderSize).size = pos.size + Signed(side, OrderSize)
           /\ SideIs(UpdatePosition(pos, side, OrderSize))
<1> DEFINE new == UpdatePosition(pos, side, OrderSize)
<1>1. pos.size \in Int /\ pos = [size |-> pos.size, side |-> pos.side]
  BY DEF Positions
<1>2. CASE pos.size = 0
  BY <1>1, <1>2 DEF UpdatePosition, SideIs, Signed, SideOf, Sides
<1>3. CASE pos.size # 0
  <2>1. pos.size >= OrderSize \/ pos.size <= -OrderSize
    BY <1>1, <1>3, AtLeastOneOrder
  <2>2. CASE side = SideOf(pos.size)
    BY <1>1, <1>3, <2>1, <2>2 DEF UpdatePosition, SideIs, Signed, SideOf, Sides
  <2>3. CASE side # SideOf(pos.size)
    BY <1>1, <1>3, <2>1, <2>3 DEF UpdatePosition, SideIs, Signed, SideOf, Sides, Abs
  <2> QED BY <2>2, <2>3
<1> QED BY <1>2, <1>3
-----------------------------------------------------------------------------
(***************************************************************************)
(* The inductive invariant: a loop that fills has found the position as it *)
(* still is, unless loops have crossed; and a request knows what the other *)
(* requests and the loops can be doing, unless requests have.              *)
(***************************************************************************)
FillInv ==
    \A l \in Loops : pc[l] = "filling" =>
        /\ order[l].side \in Sides
        /\ order[l].found.size + Signed(order[l].side, OrderSize) \in -MaxSize..MaxSize
        /\ ~crossed => /\ order[l].found = position
                       /\ \A k \in Loops : pc[k] = "filling" => k = l

SumInv == ~crossed => position.size = net /\ Multiple(net) /\ SideIs(position)

NoLoop == \A l \in Loops : pc[l] = "off"

RequestInv(r) ==
    /\ request[r].at # "idle" =>
           \A s \in Requests : request[s].at # "idle" => s = r
    /\ request[r].at = "allowed" /\ request[r].what = "start" =>
           ~running /\ ~monitor /\ NoLoop
    /\ request[r].at = "allowed" /\ request[r].what # "start" => running /\ monitor
    /\ request[r].at = "launching" => running /\ NoLoop
    /\ request[r].at = "joining" => ~running /\ request[r].joins = thread
    /\ request[r].at = "ending" => ~running /\ NoLoop

QuietInv ==
    (\A r \in Requests : request[r].at = "idle") =>
        monitor = running /\ (~running => NoLoop)

LoopInv == ~leaked => /\ ~crossed
                      /\ \A l \in Loops : pc[l] # "off" => l = thread
                      /\ \A r \in Requests : RequestInv(r)
                      /\ QuietInv

IInv == TypeOK /\ FillInv /\ SumInv /\ LoopInv

\* The start: no loop, no request, nothing filled.
LEMMA Initially == Init => IInv
<1> SUFFICES ASSUME Init PROVE IInv
  OBVIOUS
<1> USE DEF Init
<1>1. TypeOK
  <2>1. Flat \in Positions /\ NoOrder \in [side : Sides \cup {"none"}, found : Positions]
    BY DEF Flat, NoOrder, Positions, Sides
  <2>2. 0 \in -MaxSize..MaxSize
    OBVIOUS
  <2> QED BY <2>1, <2>2 DEF TypeOK, Idle
<1>2. FillInv
  BY DEF FillInv
<1>3. SumInv
  BY SumsOfOrders DEF SumInv, SideIs, Flat
<1>4. LoopInv
  BY DEF LoopInv, RequestInv, QuietInv, NoLoop, Idle
<1> QED BY <1>1, <1>2, <1>3, <1>4 DEF IInv

\* A loop begins a round or leaves because it may no longer run.
LEMMA RoundKeeps ==
    ASSUME IInv, NEW l \in Loops, Round(l)
    PROVE  IInv'
<1> USE DEF IInv, Round
<1>1. TypeOK'
  BY DEF TypeOK, lifecycle, Goto
<1>2. FillInv'
  BY DEF FillInv, TypeOK, lifecycle, Goto
<1>3. SumInv'
  BY DEF SumInv
<1>4. LoopInv'
  BY DEF LoopInv, RequestInv, QuietInv, NoLoop, TypeOK, lifecycle, Goto
<1> QED BY <1>1, <1>2, <1>3, <1>4

\* A round without a signal goes to sleep.
LEMMA NoSignalKeeps ==
    ASSUME IInv, NEW l \in Loops, NoSignal(l)
    PROVE  IInv'
<1> USE DEF IInv, NoSignal
<1>1. TypeOK'
  BY DEF TypeOK, lifecycle, Goto
<1>2. FillInv'
  BY DEF FillInv, TypeOK, lifecycle, Goto
<1>3. SumInv'
  BY DEF SumInv
<1>4. LoopInv'
  BY DEF LoopInv, RequestInv, QuietInv, NoLoop, TypeOK, lifecycle, Goto
<1> QED BY <1>1, <1>2, <1>3, <1>4

\* A loop wakes up for its next round.
LEMMA WakeKeeps ==
    ASSUME IInv, NEW l \in Loops, Wake(l)
    PROVE  IInv'
<1> USE DEF IInv, Wake
<1>1. TypeOK'
  BY DEF TypeOK, lifecycle, Goto
<1>2. FillInv'
  BY DEF FillInv, TypeOK, lifecycle, Goto
<1>3. SumInv'
  BY DEF SumInv
<1>4. LoopInv'
  BY DEF LoopInv, RequestInv, QuietInv, NoLoop, TypeOK, lifecycle, Goto
<1> QED BY <1>1, <1>2, <1>3, <1>4

\* A request to start reads the flags and goes on or is turned away.
LEMMA AllowStartKeeps ==
    ASSUME IInv, NEW r \in Requests, AllowStart(r)
    PROVE  IInv'
<1> USE DEF IInv, AllowStart
<1>1. TypeOK'
  BY DEF TypeOK, lifecycle, Goto, Turn, Crossing, Idle
<1>2. FillInv'
  BY DEF FillInv, TypeOK, lifecycle, Goto
<1>3. SumInv'
  BY DEF SumInv
<1>4. LoopInv'
  <2> SUFFICES ASSUME ~leaked'
               PROVE  /\ ~crossed'
                      /\ \A l \in Loops : pc'[l] # "off" => l = thread'
                      /\ \A q \in Requests : RequestInv(q)'
                      /\ QuietInv'
    BY DEF LoopInv
  <2>1. ~leaked
    BY DEF Crossing
  <2>2. \A q \in Requests \ {r} : request[q].at = "idle" /\ request'[q] = request[q]
    BY <2>1 DEF LoopInv, RequestInv, Crossing, TypeOK, Turn
  <2>3. ~crossed' /\ \A l \in Loops : pc'[l] # "off" => l = thread'
    BY <2>1 DEF LoopInv, RequestInv, NoLoop, TypeOK, lifecycle, Goto
  <2>4. RequestInv(r)'
    BY <2>1, <2>2 DEF LoopInv, RequestInv, QuietInv, NoLoop, TypeOK, lifecycle, Turn, Idle
  <2>5. \A q \in Requests : RequestInv(q)'
    BY <2>2, <2>4 DEF RequestInv
  <2>6. QuietInv'
    BY <2>1, <2>2 DEF LoopInv, RequestInv, QuietInv, NoLoop, TypeOK, lifecycle, Turn, Idle
  <2> QED BY <2>3, <2>5, <2>6
<1> QED BY <1>1, <1>2, <1>3, <1>4

\* A request to start raises the running flag.
LEMMA SetRunningKeeps ==
    ASSUME IInv, NEW r \in Requests, SetRunning(r)
    PROVE  IInv'
<1> USE DEF IInv, SetRunning
<1>1. TypeOK'
  BY DEF TypeOK, lifecycle, Goto, Turn, Crossing, Idle
<1>2. FillInv'
  BY DEF FillInv, TypeOK, lifecycle, Goto
<1>3. SumInv'
  BY DEF SumInv
<1>4. LoopInv'
  <2> SUFFICES ASSUME ~leaked'
               PROVE  /\ ~crossed'
                      /\ \A l \in Loops : pc'[l] # "off" => l = thread'
                      /\ \A q \in Requests : RequestInv(q)'
                      /\ QuietInv'
    BY DEF LoopInv
  <2>1. ~leaked
    BY DEF Crossing
  <2>2. \A q \in Requests \ {r} : request[q].at = "idle" /\ request'[q] = request[q]
    BY <2>1 DEF LoopInv, RequestInv, Crossing, TypeOK, Turn
  <2>3. ~crossed' /\ \A l \in Loops : pc'[l] # "off" => l = thread'
    BY <2>1 DEF LoopInv, RequestInv, NoLoop, TypeOK, lifecycle, Goto
  <2>4. RequestInv(r)'
    BY <2>1, <2>2 DEF LoopInv, RequestInv, QuietInv, NoLoop, TypeOK, lifecycle, Turn, Idle
  <2>5. \A q \in Requests : RequestInv(q)'
    BY <2>2, <2>4 DEF RequestInv
  <2>6. QuietInv'
    BY <2>1, <2>2 DEF LoopInv, RequestInv, QuietInv, NoLoop, TypeOK, lifecycle, Turn, Idle
  <2> QED BY <2>3, <2>5, <2>6
<1> QED BY <1>1, <1>2, <1>3, <1>4

\* A request to start makes a loop and its monitor.
LEMMA LaunchKeeps ==
    ASSUME IInv, NEW r \in Requests, Launch(r)
    PROVE  IInv'
<1> USE DEF IInv, Launch
<1>1. TypeOK'
  BY DEF TypeOK, lifecycle, Goto, Turn, Crossing, Idle
<1>2. FillInv'
  BY DEF FillInv, TypeOK, lifecycle, Goto
<1>3. SumInv'
  BY DEF SumInv
<1>4. LoopInv'
  <2> SUFFICES ASSUME ~leaked'
               PROVE  /\ ~crossed'
                      /\ \A l \in Loops : pc'[l] # "off" => l = thread'
                      /\ \A q \in Requests : RequestInv(q)'
                      /\ QuietInv'
    BY DEF LoopInv
  <2>1. ~leaked
    BY DEF Crossing
  <2>2. \A q \in Requests \ {r} : request[q].at = "idle" /\ request'[q] = request[q]
    BY <2>1 DEF LoopInv, RequestInv, Crossing, TypeOK, Turn
  <2>3. ~crossed' /\ \A l \in Loops : pc'[l] # "off" => l = thread'
    BY <2>1 DEF LoopInv, RequestInv, NoLoop, TypeOK, lifecycle, Goto
  <2>4. RequestInv(r)'
    BY <2>1, <2>2 DEF LoopInv, RequestInv, QuietInv, NoLoop, TypeOK, lifecycle, Turn, Idle
  <2>5. \A q \in Requests : RequestInv(q)'
    BY <2>2, <2>4 DEF RequestInv
  <2>6. QuietInv'
    <3>1. running
      BY <2>1 DEF LoopInv, RequestInv
    <3> QED BY <3>1 DEF QuietInv
  <2> QED BY <2>3, <2>5, <2>6
<1> QED BY <1>1, <1>2, <1>3, <1>4

\* A request to stop reads the flags and goes on or is turned away.
LEMMA AllowStopKeeps ==
    ASSUME IInv, NEW r \in Requests, AllowStop(r)
    PROVE  IInv'
<1> USE DEF IInv
<1>0. PICK what \in {"stop", "emergency"} :
          /\ request[r].at = "idle" /\ running
          /\ request' = [request EXCEPT ![r] = [what |-> what, at |-> "allowed", joins |-> Nobody]]
          /\ Crossing(r)
          /\ UNCHANGED <<lifecycle, position, pc, order, net, crossed>>
  BY DEF AllowStop
<1>1. TypeOK'
  BY <1>0 DEF TypeOK, lifecycle, Goto, Turn, Crossing, Idle
<1>2. FillInv'
  BY <1>0 DEF FillInv, TypeOK, lifecycle, Goto
<1>3. SumInv'
  BY <1>0 DEF SumInv
<1>4. LoopInv'
  <2> SUFFICES ASSUME ~leaked'
               PROVE  /\ ~crossed'
                      /\ \A l \in Loops : pc'[l] # "off" => l = thread'
                      /\ \A q \in Requests : RequestInv(q)'
                      /\ QuietInv'
    BY <1>0 DEF LoopInv
  <2>1. ~leaked
    BY <1>0 DEF Crossing
  <2>2. \A q \in Requests \ {r} : request[q].at = "idle" /\ request'[q] = request[q]
    <3>1. \A q \in Requests \ {r} : request[q].at = "idle"
      BY <1>0 DEF Crossing
    <3>2. \A q \in Requests \ {r} : request'[q] = request[q]
      BY <1>0 DEF TypeOK
    <3> QED BY <3>1, <3>2
  <2>3. ~crossed' /\ \A l \in Loops : pc'[l] # "off" => l = thread'
    BY <1>0, <2>1 DEF LoopInv, RequestInv, NoLoop, TypeOK, lifecycle, Goto
  <2>4. RequestInv(r)'
    <3>1. \A q \in Requests : request[q].at = "idle"
      BY <1>0, <2>2
    <3>2. running' /\ monitor'
      BY <1>0, <2>1, <3>1 DEF LoopInv, QuietInv, lifecycle
    <3>3. request'[r] = [what |-> what, at |-> "allowed", joins |-> Nobody]
      BY <1>0 DEF TypeOK
    <3>4. \A q \in Requests : request'[q].at # "idle" => q = r
      BY <2>2
    <3> QED BY <3>2, <3>3, <3>4 DEF RequestInv
  <2>5. \A q \in Requests : RequestInv(q)'
    BY <2>2, <2>4, <1>0 DEF RequestInv
  <2>6. QuietInv'
    BY <1>0, <2>1, <2>2 DEF LoopInv, RequestInv, QuietInv, NoLoop, TypeOK, lifecycle, Turn, Idle
  <2> QED BY <2>3, <2>5, <2>6
<1> QED BY <1>1, <1>2, <1>3, <1>4

\* A request to stop takes the running flag down.
LEMMA ClearRunningKeeps ==
    ASSUME IInv, NEW r \in Requests, ClearRunning(r)
    PROVE  IInv'
<1> USE DEF IInv, ClearRunning
<1>1. TypeOK'
  BY DEF TypeOK, lifecycle, Goto, Turn, Crossing, Idle
<1>2. FillInv'
  BY DEF FillInv, TypeOK, lifecycle, Goto
<1>3. SumInv'
  BY DEF SumInv
<1>4. LoopInv'
  BY DEF LoopInv, RequestInv, QuietInv, NoLoop, TypeOK, lifecycle, Goto, Turn, Crossing, Idle, Alive
<1> QED BY <1>1, <1>2, <1>3, <1>4

\* A request to stop finds its loop ended.
LEMMA JoinKeeps ==
    ASSUME IInv, NEW r \in Requests, Join(r)
    PROVE  IInv'
<1> USE DEF IInv, Join
<1>1. TypeOK'
  BY DEF TypeOK, lifecycle, Goto, Turn, Crossing, Idle
<1>2. FillInv'
  BY DEF FillInv, TypeOK, lifecycle, Goto
<1>3. SumInv'
  BY DEF SumInv
<1>4. LoopInv'
  BY DEF LoopInv, RequestInv, QuietInv, NoLoop, TypeOK, lifecycle, Goto, Turn, Crossing, Idle, Alive
<1> QED BY <1>1, <1>2, <1>3, <1>4

\* A request to stop gives up waiting for its loop.
LEMMA JoinTimesOutKeeps ==
    ASSUME IInv, NEW r \in Requests, JoinTimesOut(r)
    PROVE  IInv'
<1> USE DEF IInv, JoinTimesOut
<1>1. TypeOK'
  BY DEF TypeOK, lifecycle, Goto, Turn, Crossing, Idle
<1>2. FillInv'
  BY DEF FillInv, TypeOK, lifecycle, Goto
<1>3. SumInv'
  BY DEF SumInv
<1>4. LoopInv'
  BY DEF LoopInv, RequestInv, QuietInv, NoLoop, TypeOK, lifecycle, Goto, Turn, Crossing, Idle, Alive
<1> QED BY <1>1, <1>2, <1>3, <1>4

\* A request to stop ends the monitor.
LEMMA EndStopKeeps ==
    ASSUME IInv, NEW r \in Requests, EndStop(r)
    PROVE  IInv'
<1> USE DEF IInv, EndStop
<1>1. TypeOK'
  BY DEF TypeOK, lifecycle, Goto, Turn, Crossing, Idle
<1>2. FillInv'
  BY DEF FillInv, TypeOK, lifecycle, Goto
<1>3. SumInv'
  BY DEF SumInv
<1>4. LoopInv'
  <2> SUFFICES ASSUME ~leaked'
               PROVE  /\ ~crossed'
                      /\ \A l \in Loops : pc'[l] # "off" => l = thread'
                      /\ \A q \in Requests : RequestInv(q)'
                      /\ QuietInv'
    BY DEF LoopInv
  <2>1. ~leaked
    BY DEF Crossing
  <2>2. \A q \in Requests \ {r} : request[q].at = "idle" /\ request'[q] = request[q]
    BY <2>1 DEF LoopInv, RequestInv, Crossing, TypeOK, Turn
  <2>3. ~crossed' /\ \A l \in Loops : pc'[l] # "off" => l = thread'
    BY <2>1 DEF LoopInv, RequestInv, NoLoop, TypeOK, lifecycle, Goto
  <2>4. RequestInv(r)'
    BY <2>1, <2>2 DEF LoopInv, RequestInv, QuietInv, NoLoop, TypeOK, lifecycle, Turn, Idle
  <2>5. \A q \in Requests : RequestInv(q)'
    BY <2>2, <2>4 DEF RequestInv
  <2>6. QuietInv'
    <3>1. running = FALSE /\ NoLoop
      BY <2>1 DEF LoopInv, RequestInv, TypeOK
    <3> QED BY <3>1 DEF QuietInv, NoLoop
  <2> QED BY <2>3, <2>5, <2>6
<1> QED BY <1>1, <1>2, <1>3, <1>4

\* A loop decides on an order from the position it reads.
LEMMA ExecuteKeeps ==
    ASSUME IInv, NEW l \in Loops, Execute(l)
    PROVE  IInv'
<1> USE DEF IInv
<1>0. PICK side \in Sides :
          /\ pc[l] = "updating"
          /\ position.size + Signed(side, OrderSize) \in -MaxSize..MaxSize
          /\ order' = [order EXCEPT ![l] = [side |-> side, found |-> position]]
          /\ Goto(l, "filling")
          /\ crossed' = (crossed \/ \E k \in Loops : pc[k] = "filling")
          /\ UNCHANGED <<lifecycle, position, request, net, leaked>>
  BY DEF Execute
<1>1. TypeOK'
  BY <1>0 DEF TypeOK, lifecycle, Goto
<1>2. FillInv'
  <2> SUFFICES ASSUME NEW k \in Loops, pc'[k] = "filling"
               PROVE  /\ order'[k].side \in Sides
                      /\ order'[k].found.size + Signed(order'[k].side, OrderSize)
                            \in -MaxSize..MaxSize
                      /\ ~crossed' => /\ order'[k].found = position'
                                      /\ \A m \in Loops : pc'[m] = "filling" => m = k
    BY DEF FillInv
  <2>1. CASE k = l
    BY <1>0, <2>1 DEF TypeOK, Goto
  <2>2. CASE k # l
    BY <1>0, <2>2 DEF FillInv, TypeOK, Goto
  <2> QED BY <2>1, <2>2
<1>3. SumInv'
  BY <1>0 DEF SumInv, SideIs
<1>4. LoopInv'
  <2> SUFFICES ASSUME ~leaked
               PROVE  LoopInv'
    BY <1>0 DEF LoopInv
  <2>1. \A k \in Loops : pc[k] # "off" => k = thread
    BY DEF LoopInv
  <2>2. ~crossed'
    BY <1>0, <2>1 DEF LoopInv
  <2>3. \A k \in Loops : pc'[k] # "off" => k = thread'
    BY <1>0, <2>1 DEF TypeOK, Goto, lifecycle
  <2>4. ~NoLoop /\ ~NoLoop'
    BY <1>0 DEF NoLoop, TypeOK, Goto
  <2>5. (\A r \in Requests : RequestInv(r)') /\ QuietInv'
    BY <1>0, <2>4 DEF LoopInv, RequestInv, QuietInv, lifecycle
  <2> QED BY <2>2, <2>3, <2>5 DEF LoopInv
<1> QED BY <1>1, <1>2, <1>3, <1>4

\* A loop writes the position back, filled from what it read.
LEMMA FillKeeps ==
    ASSUME IInv, NEW l \in Loops, Fill(l)
    PROVE  IInv'
<1> USE DEF IInv
<1> DEFINE found == order[l].found
           side == order[l].side
           new == UpdatePosition(found, side, OrderSize)
<1>0. /\ side \in Sides /\ found \in Positions
      /\ found.size + Signed(side, OrderSize) \in -MaxSize..MaxSize
      /\ ~crossed => found = position
  BY DEF Fill, FillInv, TypeOK
<1>1. TypeOK'
  <2>1. new \in Positions
    BY <1>0 DEF UpdatePosition, Positions, Signed, Sides, Abs
  <2>2. net' \in -MaxSize..MaxSize
    <3>1. CASE crossed
      BY <3>1 DEF Fill
    <3>2. CASE ~crossed
      BY <1>0, <3>2 DEF Fill, SumInv
    <3> QED BY <3>1, <3>2
  <2>3. order' \in [Loops -> [side : Sides \cup {"none"}, found : Positions]]
    <3>1. NoOrder \in [side : Sides \cup {"none"}, found : Positions]
      BY DEF NoOrder, Flat, Positions
    <3> QED BY <3>1 DEF Fill, TypeOK
  <2>4. pc' \in [Loops -> {"off", "top", "updating", "filling", "sleeping"}]
    BY DEF Fill, Goto, TypeOK
  <2> QED BY <2>1, <2>2, <2>3, <2>4 DEF Fill, TypeOK, lifecycle
<1>2. FillInv'
  <2> SUFFICES ASSUME NEW k \in Loops, pc'[k] = "filling"
               PROVE  /\ order'[k].side \in Sides
                      /\ order'[k].found.size + Signed(order'[k].side, OrderSize)
                            \in -MaxSize..MaxSize
                      /\ crossed'
    BY DEF FillInv
  <2>1. k # l /\ pc[k] = "filling" /\ pc[l] = "filling" /\ order'[k] = order[k]
    BY DEF Fill, Goto, TypeOK
  <2> QED BY <2>1 DEF Fill, FillInv
<1>3. SumInv'
  <2> SUFFICES ASSUME ~crossed
               PROVE  new.size = net' /\ Multiple(new.size) /\ SideIs(new)
    BY DEF Fill, SumInv, SideIs
  <2>1. found \in Positions /\ found = position /\ position.size = net
        /\ Multiple(found.size) /\ SideIs(found)
    BY <1>0 DEF SumInv, SideIs
  <2>2. new.size = found.size + Signed(side, OrderSize) /\ SideIs(new)
    BY <1>0, <2>1, OneOrder
  <2>3. Multiple(found.size + Signed(side, OrderSize))
    BY <1>0, <2>1, SumsOfOrders DEF Positions
  <2>4. net' = net + Signed(side, OrderSize)
    BY DEF Fill
  <2> QED BY <2>1, <2>2, <2>3, <2>4
<1>4. LoopInv'
  BY DEF Fill, LoopInv, RequestInv, QuietInv, NoLoop, TypeOK, lifecycle, Goto
<1> QED BY <1>1, <1>2, <1>3, <1>4

(***************************************************************************)
(* Any step, and the theorems.                                             *)
(***************************************************************************)
LEMMA Stepwise == IInv /\ [Next]_vars => IInv'
<1> SUFFICES ASSUME IInv, [Next]_vars PROVE IInv'
  OBVIOUS
<1>1. ASSUME NEW l \in Loops, Loop(l) PROVE IInv'
  BY <1>1, RoundKeeps, NoSignalKeeps, ExecuteKeeps, FillKeeps, WakeKeeps DEF Loop
<1>2. ASSUME NEW r \in Requests, AllowStart(r) \/ AllowStop(r) PROVE IInv'
  BY <1>2, AllowStartKeeps, AllowStopKeeps
<1>3. ASSUME NEW r \in Requests, Serve(r) PROVE IInv'
  BY <1>3, SetRunningKeeps, LaunchKeeps, ClearRunningKeeps, JoinKeeps, JoinTimesOutKeeps,
     EndStopKeeps DEF Serve
<1>4. CASE UNCHANGED vars
  BY <1>4 DEF vars, lifecycle, IInv, TypeOK, FillInv, SumInv, SideIs, LoopInv, RequestInv,
     QuietInv, NoLoop
<1> QED BY <1>1, <1>2, <1>3, <1>4 DEF Next

THEOREM Inductive == Spec => []IInv
<1> QED BY Initially, Stepwise, PTL DEF Spec

\* The variables keep their types.
THEOREM Types == Spec => []TypeOK
<1>1. IInv => TypeOK
  BY DEF IInv
<1> QED BY <1>1, Inductive, PTL

\* The order manager's position is the sum of the orders it has filled and its side is
\* the sign of that, for every order size, unless two loops have filled together.
THEOREM Sums == Spec => []PositionIsNet
<1>1. IInv => PositionIsNet
  BY DEF IInv, SumInv, SideIs, PositionIsNet
<1> QED BY <1>1, Inductive, PTL

\* There is one update loop unless requests crossed or a stop gave up waiting.
THEOREM Single == Spec => []OneLoop
<1>1. ASSUME IInv PROVE OneLoop
  <2> SUFFICES ASSUME ~leaked PROVE Cardinality(Alive) <= 1 /\ ~crossed
    BY DEF OneLoop
  <2>1. ~crossed /\ Alive \subseteq {thread}
    BY <1>1 DEF IInv, LoopInv, Alive
  <2>2. IsFiniteSet({thread}) /\ Cardinality({thread}) = 1
    BY FS_Singleton
  <2>3. IsFiniteSet(Alive) /\ Cardinality(Alive) <= Cardinality({thread})
    BY <2>1, <2>2, FS_Subset
  <2> QED BY <2>1, <2>2, <2>3
<1> QED BY <1>1, Inductive, PTL

\* Between requests that did not cross, the health monitor runs when the engine does.
THEOREM Monitored == Spec => []MonitorFollows
<1>1. IInv => MonitorFollows
  BY DEF IInv, LoopInv, QuietInv, MonitorFollows
<1> QED BY <1>1, Inductive, PTL
=============================================================================
