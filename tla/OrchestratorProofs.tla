------------------------- MODULE OrchestratorProofs -------------------------
(***************************************************************************)
(* Theorems about the orchestrator and its event bus, for every bound,     *)
(* every length of the history, every set of layers that the operator      *)
(* touches and every set of handlers.                                      *)
(***************************************************************************)
EXTENDS Orchestrator, SequenceTheorems, TLAPS

-----------------------------------------------------------------------------
\* What a thread can be doing inside publish.
Calls ==
  {Quiet} \cup [at : {"entering", "recording", "recorded"}, type : Types]
          \cup [at : {"listing", "delivering"}, todo : SUBSET Handlers]

Events == [type : Types, number : Nat]

BusType ==
  /\ lock \in Threads \cup {NoThread}
  /\ subscribers \in [Types -> SUBSET Handlers]
  /\ history \in Seq(Events)
  /\ published \in Nat
  /\ call \in [Threads -> Calls]

\* The history holds the latest events without a gap.
Latests == \A i \in 1..Len(history) : history[i].number = published - Len(history) + i

\* A thread inside one of the two blocks of publish.
Inside(t) == call[t].at \in {"recording", "listing"}

\* The lock is held by the thread that is inside a block, and by no other.
LockInv == \A t \in Threads : lock = t <=> Inside(t)

BusInv == BusType /\ Latests /\ LockInv

\* Where the main thread can be, and where it can go on after an error was logged.
Places ==
  Layers \cup {"off", "loop", "logging", "regime", "correlation", "risky", "validation", "invalid",
               "evolution", "opened", "count", "failed", "ended"}
Resumed == {"off", "loop", "scoring", "failed"}

LoopType ==
  /\ kind \in [Layers -> {"layer", "foreign", "none"}]
  /\ enabled \in [Layers -> BOOLEAN]
  /\ healthy \in [Layers -> BOOLEAN]
  /\ running \in BOOLEAN
  /\ pc \in Places
  /\ logged \in Resumed
  /\ trades \in Nat /\ opens \in Nat /\ fills \in Nat /\ evolved \subseteq Nat
  /\ permit \in BOOLEAN /\ skipped \in BOOLEAN
  /\ frame \in {"none", "stopping", "left"}
  /\ faults \in Nat /\ orders \in Nat

\* An opened trade is counted after it was published; SIGTERM can end the program
\* between the two.
CountInv ==
  /\ opens \in {trades, trades + 1}
  /\ pc = "count" => opens = trades + 1
  /\ pc \notin {"count", "ended"} => opens = trades

\* A trade is published after it was filled.
FillInv ==
  /\ skipped \/ fills >= opens
  /\ pc = "opened" => skipped \/ fills > opens

\* From the answer of the risk layer to the order, the permission stands.
PermitInv ==
  pc \in {"correlation", "risky", "validation", "invalid", "evolution", "execution"} => permit

\* An evolution that is due has run before the order.
EvolvedInv == pc = "execution" => (Due(EvolveEvery) => trades \in evolved)

LoopInv == LoopType /\ CountInv /\ FillInv /\ PermitInv /\ EvolvedInv

\* The handler that has entered its first block has seen the lock free, and the
\* main thread, below it, does not take it again.
FrameInv == frame = "stopping" /\ call["signal"].at # "entering" => lock # "main"

IInv == BusInv /\ LoopInv /\ FrameInv

-----------------------------------------------------------------------------
(***************************************************************************)
(* The event bus.                                                          *)
(***************************************************************************)

\* The history stays without a gap when an event is added and the oldest are cut off.
LEMMA LatestIsLatest ==
    ASSUME BusType, Latests, NEW e \in Events, e.number = published + 1
    PROVE  /\ Latest(Append(history, e)) \in Seq(Events)
           /\ \A i \in 1..Len(Latest(Append(history, e))) :
                Latest(Append(history, e))[i].number = published + 1 - Len(Latest(Append(history, e))) + i
<1> DEFINE s == Append(history, e)
<1>1. s \in Seq(Events) /\ Len(s) = Len(history) + 1 /\ Len(s) \in Nat
  BY DEF BusType
<1>2. \A i \in 1..Len(s) : s[i] \in Events /\ s[i].number = published + 1 - Len(s) + i
  <2>1. TAKE i \in 1..Len(s)
  <2>2. CASE i = Len(s)
    BY <1>1, <2>2 DEF BusType
  <2>3. CASE i # Len(s)
    <3>1. i \in 1..Len(history)
      BY <1>1, <2>3
    <3>2. s[i] = history[i] /\ history[i] \in Events
      BY <3>1 DEF BusType
    <3> QED BY <1>1, <3>1, <3>2 DEF BusType, Latests
  <2> QED BY <2>2, <2>3
<1>3. CASE Len(s) <= MaxHistory
  BY <1>1, <1>2, <1>3, BusAssumption DEF Latest
<1>4. CASE Len(s) > MaxHistory
  <2> DEFINE m == Len(s) - MaxHistory + 1
  <2>1. m \in 1..Len(s) /\ m \in Int
    BY <1>1, <1>4, BusAssumption
  <2>2. \A i \in m..Len(s) : s[i] \in Events
    BY <1>2, <2>1
  <2> HIDE DEF s
  <2>3. /\ SubSeq(s, m, Len(s)) \in Seq(Events)
        /\ Len(SubSeq(s, m, Len(s))) = Len(s) - m + 1
        /\ \A i \in 1..(Len(s) - m + 1) : SubSeq(s, m, Len(s))[i] = s[m + i - 1]
    BY <1>1, <2>1, <2>2, SubSeqProperties
  <2>4. Latest(s) = SubSeq(s, m, Len(s))
    BY <1>4 DEF Latest
  <2>5. \A i \in 1..(Len(s) - m + 1) : s[m + i - 1].number = published + 1 - (Len(s) - m + 1) + i
    <3>1. TAKE i \in 1..(Len(s) - m + 1)
    <3>2. m + i - 1 \in 1..Len(s)
      BY <1>1, <2>1
    <3>3. s[m + i - 1].number = published + 1 - Len(s) + (m + i - 1)
      BY <1>2, <3>2
    <3> QED BY <1>1, <2>1, <3>3 DEF BusType
  <2>6. /\ Latest(s) \in Seq(Events)
        /\ \A i \in 1..Len(Latest(s)) : Latest(s)[i].number = published + 1 - Len(Latest(s)) + i
    BY <2>3, <2>4, <2>5
  <2> QED BY <2>6 DEF s
<1> QED BY <1>1, <1>3, <1>4, BusAssumption

\* The initial state of the bus.
LEMMA BusStarts == BusInit => BusInv
<1> SUFFICES ASSUME BusInit PROVE BusInv
  OBVIOUS
<1>1. BusType
  BY DEF BusInit, BusType, Calls
<1>2. Latests
  BY DEF BusInit, Latests
<1>3. LockInv
  BY BusAssumption DEF BusInit, LockInv, Inside, Quiet
<1> QED BY <1>1, <1>2, <1>3 DEF BusInv

\* A call of publish changes nothing yet.
LEMMA PublishKeeps ==
    ASSUME BusInv, NEW t \in Threads, NEW type \in Types, Publish(t, type)
    PROVE  BusInv'
<1> DEFINE c == [at |-> "entering", type |-> type]
<1>1. c \in Calls
  BY DEF Calls
<1>2. call' = [call EXCEPT ![t] = c] /\ UNCHANGED <<lock, subscribers, history, published>>
  BY DEF Publish
<1>3. BusType'
  BY <1>1, <1>2 DEF BusInv, BusType
<1>4. Latests'
  BY <1>2 DEF BusInv, Latests
<1>5. ~Inside(t)
  BY DEF Publish, Silent, Inside
<1>6. LockInv'
  BY <1>2, <1>5 DEF BusInv, BusType, LockInv, Inside
<1> QED BY <1>3, <1>4, <1>6 DEF BusInv

\* Every step of publish keeps the types, the history, and the lock with its holder.
LEMMA PublishStepKeeps ==
    ASSUME BusInv, NEW t \in Threads, PublishStep(t)
    PROVE  BusInv'
<1> USE DEF BusInv
<1>1. call \in [Threads -> Calls] /\ call[t] \in Calls
  BY DEF BusType
<1>2. CASE Record(t)
  <2> DEFINE e == [type |-> call[t].type, number |-> published + 1]
  <2> DEFINE c == [at |-> "recording", type |-> call[t].type]
  <2>1. call[t] \in [at : {"entering", "recording", "recorded"}, type : Types]
    BY <1>1, <1>2 DEF Record, Calls, Quiet
  <2>2. e \in Events /\ e.number = published + 1 /\ c \in Calls
    BY <2>1 DEF Events, BusType, Calls
  <2>3. [call[t] EXCEPT !.at = "recording"] = c
    BY <2>1
  <2>4. call' = [call EXCEPT ![t] = c]
    BY <1>2, <2>3 DEF Record
  <2>5. history' = Latest(Append(history, e)) /\ published' = published + 1
    BY <1>2 DEF Record
  <2>6. history' \in Seq(Events) /\ Latests'
    <3> HIDE DEF e
    <3>1. /\ Latest(Append(history, e)) \in Seq(Events)
          /\ \A i \in 1..Len(Latest(Append(history, e))) :
               Latest(Append(history, e))[i].number = published + 1 - Len(Latest(Append(history, e))) + i
      BY <2>2, LatestIsLatest, Zenon
    <3>2. PICK h : h = Latest(Append(history, e))
      OBVIOUS
    <3>3. h \in Seq(Events) /\ \A i \in 1..Len(h) : h[i].number = published + 1 - Len(h) + i
      BY <3>1, <3>2, Zenon
    <3>4. history' = h /\ published' = published + 1
      BY <2>5, <3>2
    <3>5. published \in Nat /\ Len(h) \in Nat
      BY <3>3 DEF BusType
    <3> QED BY <3>3, <3>4, <3>5 DEF Latests
  <2>7. lock = NoThread /\ lock' = t /\ subscribers' = subscribers
    BY <1>2 DEF Record, Acquire
  <2>8. BusType'
    BY <2>2, <2>4, <2>5, <2>6, <2>7 DEF BusType
  <2>9. LockInv'
    BY <1>1, <2>4, <2>7, BusAssumption DEF LockInv, Inside
  <2> QED BY <2>6, <2>8, <2>9
<1>3. CASE Recorded(t)
  <2> DEFINE c == [at |-> "recorded", type |-> call[t].type]
  <2>1. call[t] \in [at : {"entering", "recording", "recorded"}, type : Types]
    BY <1>1, <1>3 DEF Recorded, Calls, Quiet
  <2>2. c \in Calls
    BY <2>1 DEF Calls
  <2>3. [call[t] EXCEPT !.at = "recorded"] = c
    BY <2>1
  <2>4. call' = [call EXCEPT ![t] = c]
    BY <1>3, <2>3 DEF Recorded
  <2>5. lock = t /\ lock' = NoThread /\ UNCHANGED <<subscribers, history, published>>
    BY <1>3 DEF Recorded, Release
  <2>6. BusType' /\ Latests'
    BY <2>2, <2>4, <2>5 DEF BusType, Latests
  <2>7. LockInv'
    BY <1>1, <2>4, <2>5, BusAssumption DEF LockInv, Inside
  <2> QED BY <2>6, <2>7
<1>4. CASE List(t)
  <2> DEFINE c == [at |-> "listing", todo |-> subscribers[call[t].type]]
  <2>1. call[t] \in [at : {"entering", "recording", "recorded"}, type : Types]
    BY <1>1, <1>4 DEF List, Calls, Quiet
  <2>2. c \in Calls
    BY <2>1 DEF Calls, BusType
  <2>3. call' = [call EXCEPT ![t] = c]
    BY <1>4, <1>1 DEF List
  <2>4. lock = NoThread /\ lock' = t /\ UNCHANGED <<subscribers, history, published>>
    BY <1>4 DEF List, Acquire
  <2>5. BusType' /\ Latests'
    BY <2>2, <2>3, <2>4 DEF BusType, Latests
  <2>6. LockInv'
    BY <1>1, <2>3, <2>4, BusAssumption DEF LockInv, Inside
  <2> QED BY <2>5, <2>6
<1>5. CASE Listed(t)
  <2> DEFINE c == [at |-> "delivering", todo |-> call[t].todo]
  <2>1. call[t] \in [at : {"listing", "delivering"}, todo : SUBSET Handlers]
    BY <1>1, <1>5 DEF Listed, Calls, Quiet
  <2>2. c \in Calls
    BY <2>1 DEF Calls
  <2>3. [call[t] EXCEPT !.at = "delivering"] = c
    BY <2>1
  <2>4. call' = [call EXCEPT ![t] = c]
    BY <1>5, <2>3 DEF Listed
  <2>5. lock = t /\ lock' = NoThread /\ UNCHANGED <<subscribers, history, published>>
    BY <1>5 DEF Listed, Release
  <2>6. BusType' /\ Latests'
    BY <2>2, <2>4, <2>5 DEF BusType, Latests
  <2>7. LockInv'
    BY <1>1, <2>4, <2>5, BusAssumption DEF LockInv, Inside
  <2> QED BY <2>6, <2>7
<1>6. CASE Deliver(t)
  <2>1. PICK h \in call[t].todo : call' = [call EXCEPT ![t].todo = @ \ {h}]
    BY <1>6 DEF Deliver
  <2> DEFINE c == [at |-> "delivering", todo |-> call[t].todo \ {h}]
  <2>2. call[t] \in [at : {"listing", "delivering"}, todo : SUBSET Handlers] /\ call[t].at = "delivering"
    BY <1>1, <1>6 DEF Deliver, Calls, Quiet
  <2>3. c \in Calls
    BY <2>2 DEF Calls
  <2>4. [call[t] EXCEPT !.todo = call[t].todo \ {h}] = c
    BY <2>2
  <2>5. call' = [call EXCEPT ![t] = c]
    BY <2>1, <2>4
  <2>6. UNCHANGED <<lock, subscribers, history, published>>
    BY <1>6 DEF Deliver
  <2>7. BusType' /\ Latests'
    BY <2>3, <2>5, <2>6 DEF BusType, Latests
  <2>8. LockInv'
    BY <1>1, <2>2, <2>5, <2>6 DEF LockInv, Inside
  <2> QED BY <2>7, <2>8
<1>7. CASE Delivered(t)
  <2>1. call' = [call EXCEPT ![t] = Quiet] /\ UNCHANGED <<lock, subscribers, history, published>>
    BY <1>7 DEF Delivered
  <2>2. Quiet \in Calls /\ call[t].at = "delivering"
    BY <1>7 DEF Calls, Delivered
  <2>3. BusType' /\ Latests'
    BY <2>1, <2>2 DEF BusType, Latests
  <2>4. LockInv'
    BY <1>1, <2>1, <2>2 DEF LockInv, Inside, Quiet
  <2> QED BY <2>3, <2>4
<1> QED BY <1>2, <1>3, <1>4, <1>5, <1>6, <1>7 DEF PublishStep

\* Subscribing and unsubscribing wait for the lock and change the subscribers only.
LEMMA SubscribeKeeps ==
    ASSUME BusInv, NEW type \in Types, NEW h \in Handlers, Subscribe(type, h) \/ Unsubscribe(type, h)
    PROVE  BusInv'
<1>1. UNCHANGED <<lock, history, published, call>>
  BY DEF Subscribe, Unsubscribe
<1>2. subscribers' \in [Types -> SUBSET Handlers]
  BY DEF Subscribe, Unsubscribe, BusInv, BusType
<1> QED BY <1>1, <1>2 DEF BusInv, BusType, Latests, LockInv, Inside

\* A step that leaves the bus alone.
LEMMA BusStays ==
    ASSUME BusInv, UNCHANGED busVars
    PROVE  BusInv'
BY DEF busVars, BusInv, BusType, Latests, LockInv, Inside
-----------------------------------------------------------------------------
(***************************************************************************)
(* The loop: one lemma per step of the main thread.                        *)
(***************************************************************************)

\* What a failed, a raising, a disabled or a working layer does to its health and to the
\* place the main thread goes to.
LEMMA Healths ==
    ASSUME LoopType, NEW l \in Layers, healthy' = healthy \/ Healed(l) \/ Marked(l)
    PROVE  healthy' \in [Layers -> BOOLEAN]
BY DEF LoopType, Healed, Marked

\* A layer that fails leads on at once, or after its error was logged.
LEMMA FailsGoes ==
    ASSUME LoopType, NEW l \in Layers, NEW failed, Fails(l, failed)
    PROVE  /\ healthy' \in [Layers -> BOOLEAN] /\ faults' \in Nat
           /\ \/ pc' = failed /\ logged' = logged
              \/ pc' = "logging" /\ logged' = failed
BY Healths DEF LoopType, Fails, Goto, LogThen

\* The steps below are all looked at with the conjuncts of the invariant expanded.
USE DEF LoopInv, LoopType, CountInv, FillInv, PermitInv, EvolvedInv, Places, Resumed, Layers,
        Due, Main, Goto, LogThen, wiring, books, bounds

\* The program starts its loop.
LEMMA StartKeeps ==
    ASSUME LoopInv, Start
    PROVE  LoopInv'
BY DEF Start

\* An iteration begins, or the loop ends; the permission is forgotten.
LEMMA LoopKeeps ==
    ASSUME LoopInv, Loop
    PROVE  LoopInv'
BY DEF Loop, Continue

\* After an error was logged the thread goes on where it was told to.
LEMMA LoggedKeeps ==
    ASSUME LoopInv, Logged
    PROVE  LoopInv'
BY DEF Logged

\* An alert is published on the way.
LEMMA EmitKeeps ==
    ASSUME LoopInv, NEW type \in Types,
      NEW at \in {"regime", "risky", "invalid", "failed"},
      NEW next \in {"scoring", "validation", "evolution", "memory"},
      <<at, next>> \in {<<"regime", "scoring">>, <<"risky", "validation">>,
                       <<"invalid", "evolution">>, <<"failed", "memory">>},
      Emit(at, type, next)
    PROVE  LoopInv'
BY DEF Emit

\* A layer before the risk layer: the next one, or the iteration is over.
LEMMA StageKeeps ==
    ASSUME LoopInv,
      NEW l \in {"data", "features", "strategy", "scoring"},
      NEW next \in {"features", "strategy", "intelligence", "risk"},
      Stage(l, next)
    PROVE  LoopInv'
BY FailsGoes, Healths DEF Stage, Raises, Abort, Passes, Works

\* Without a regime the loop goes on.
LEMMA IntelligenceKeeps ==
    ASSUME LoopInv, Intelligence
    PROVE  LoopInv'
BY FailsGoes, Healths DEF Intelligence, Raises, Abort, Passes, Works

\* Only an answer that allows leads on, and the permission stands from there.
LEMMA RiskKeeps ==
    ASSUME LoopInv, Risk
    PROVE  LoopInv'
BY FailsGoes, Healths DEF Risk, Raises, Abort, Passes, Works, Decide, ByDefault

\* The correlation of the positions is looked at.
LEMMA CorrelationKeeps ==
    ASSUME LoopInv, Correlation
    PROVE  LoopInv'
BY DEF Correlation

\* A validation may be due.
LEMMA ValidationKeeps ==
    ASSUME LoopInv, Validation
    PROVE  LoopInv'
BY DEF Validation

\* An evolution that is due runs before the order.
LEMMA EvolutionKeeps ==
    ASSUME LoopInv, Evolution
    PROVE  LoopInv'
BY DEF Evolution

\* The order is filled, or its layer fails, raises or is disabled.
LEMMA ExecutionKeeps ==
    ASSUME LoopInv, Execution
    PROVE  LoopInv'
<1>1. UNCHANGED <<kind, enabled, running, trades, evolved, opens, permit, frame, orders>>
  BY DEF Execution
<1>2. pc = "execution" /\ opens = trades /\ permit /\ (skipped \/ fills >= opens)
  BY DEF Execution
<1>3. CASE Fails("execution", "failed") /\ UNCHANGED <<fills, skipped>>
  <2>1. /\ healthy' \in [Layers -> BOOLEAN] /\ faults' \in Nat
        /\ pc' \in {"failed", "logging"} /\ logged' \in Resumed
    BY <1>3, FailsGoes
  <2> QED BY <1>1, <1>2, <1>3, <2>1
<1>4. CASE Raises("execution") /\ Abort /\ UNCHANGED <<healthy, faults, fills, skipped>>
  BY <1>1, <1>2, <1>4 DEF Abort
<1>5. CASE /\ Passes("execution") /\ Goto("opened")
           /\ skipped' = TRUE /\ UNCHANGED <<healthy, faults, fills>>
  BY <1>1, <1>2, <1>5
<1>6. CASE /\ Works("execution") /\ Healed("execution") /\ Goto("opened")
           /\ fills' = fills + 1 /\ UNCHANGED <<faults, skipped>>
  <2>1. healthy' \in [Layers -> BOOLEAN]
    BY <1>6, Healths
  <2>2. fills' \in Nat /\ (skipped \/ fills' > opens)
    BY <1>2, <1>6
  <2> QED BY <1>1, <1>2, <1>6, <2>1, <2>2
<1> QED BY <1>3, <1>4, <1>5, <1>6 DEF Execution

\* The opened trade is published.
LEMMA OpenedKeeps ==
    ASSUME LoopInv, Opened
    PROVE  LoopInv'
BY DEF Opened

\* The published trade is counted.
LEMMA CountKeeps ==
    ASSUME LoopInv, Count
    PROVE  LoopInv'
BY DEF Count

\* Whatever the memory answers, the iteration is over.
LEMMA MemoryKeeps ==
    ASSUME LoopInv, Memory
    PROVE  LoopInv'
BY FailsGoes, Healths DEF Memory, Passes, Works

\* SIGTERM arrives.
LEMMA SignalKeeps ==
    ASSUME LoopInv, Signal
    PROVE  LoopInv'
BY DEF Signal

\* The main thread unwinds, or goes on inside the logging of an error.
LEMMA ExitKeeps ==
    ASSUME LoopInv, Exit
    PROVE  LoopInv'
BY DEF Exit

\* The operator disables or enables a layer.
LEMMA SetEnabledKeeps ==
    ASSUME LoopInv, NEW l \in Touched, NEW on \in BOOLEAN, SetEnabled(l, on)
    PROVE  LoopInv'
<1>1. orders' = orders + 1 /\ orders \in Nat
  BY DEF SetEnabled, Order
<1>2. enabled' \in [Layers -> BOOLEAN]
  <2>1. enabled \in [Layers -> BOOLEAN] /\ enabled' = [enabled EXCEPT ![l] = on]
    BY DEF SetEnabled
  <2> QED BY <2>1
<1>4. orders' \in Nat
  BY <1>1
<1>3. UNCHANGED <<kind, healthy, running, pc, logged, books, permit, frame, faults>>
  BY DEF SetEnabled
<1> QED BY <1>2, <1>3, <1>4

\* The operator swaps a layer, whose health is then good.
LEMMA SwapKeeps ==
    ASSUME LoopInv, NEW l \in Touched, Swap(l)
    PROVE  LoopInv'
BY Healths, OrchestratorAssumption DEF Swap, Order, Shipped

\* The operator stops the loop.
LEMMA StopKeeps ==
    ASSUME LoopInv, Stop
    PROVE  LoopInv'
<1>1. orders' = orders + 1 /\ orders \in Nat /\ running' = FALSE
  BY DEF Stop, Order
<1>2. UNCHANGED <<wiring, pc, logged, books, permit, frame, faults>>
  BY DEF Stop
<1>3. orders' \in Nat
  BY <1>1
<1>4. running' \in BOOLEAN
  BY <1>1
<1> QED BY <1>2, <1>3, <1>4

\* The operator subscribes or unsubscribes a handler.
LEMMA RegisterKeeps ==
    ASSUME LoopInv, Register
    PROVE  LoopInv'
BY DEF Register, Order

\* A step inside publish.
LEMMA LoopStays ==
    ASSUME LoopInv, UNCHANGED orchVars
    PROVE  LoopInv'
BY DEF orchVars

HIDE DEF LoopInv, LoopType, CountInv, FillInv, PermitInv, EvolvedInv, Places, Resumed, Layers,
         Due, Main, Goto, LogThen, wiring, books, bounds
-----------------------------------------------------------------------------
(***************************************************************************)
(* The whole program.                                                      *)
(***************************************************************************)

\* What a step of the main thread does to the bus and to the frame above it.
LEMMA MainOnBus ==
    ASSUME MainStep
    PROVE  /\ \/ UNCHANGED busVars
              \/ \E type \in Types : Publish("main", type)
              \/ PublishStep("main")
           /\ frame # "stopping" /\ frame' = frame
<1>1. CASE Start \/ Opened
  <2>1. "start" \in Types /\ "opened" \in Types
    BY OrchestratorAssumption
  <2> QED BY <1>1, <2>1, Zenon DEF Start, Opened, Main
<1>2. CASE Loop \/ Logged
  BY <1>2 DEF Loop, Logged, Main
<1>3. ASSUME NEW l, NEW next, Stage(l, next)
      PROVE  UNCHANGED busVars /\ frame # "stopping" /\ frame' = frame
  BY <1>3 DEF Stage, Main
<1>4. CASE Intelligence \/ Risk \/ Correlation \/ Validation \/ Evolution
  BY <1>4 DEF Intelligence, Risk, Correlation, Validation, Evolution, Main
<1>5. ASSUME NEW at, NEW type \in Types, NEW next, Emit(at, type, next)
      PROVE  Publish("main", type) /\ frame # "stopping" /\ frame' = frame
  BY <1>5 DEF Emit, Main
<1>6. CASE Execution \/ Count \/ Memory
  BY <1>6 DEF Execution, Count, Memory, Main
<1>7. CASE MainPublishes
  BY <1>7 DEF MainPublishes, orchVars
<1>8. {"regime", "alert", "failed"} \subseteq Types
  BY OrchestratorAssumption
<1> QED BY <1>1, <1>2, <1>3, <1>4, <1>5, <1>6, <1>7, <1>8 DEF MainStep

\* Every step of the main thread keeps the invariant.
LEMMA MainKeeps ==
    ASSUME IInv, MainStep
    PROVE  IInv'
<1> USE DEF IInv
<1>1. "main" \in Threads
  BY OrchestratorAssumption
<1>2. BusInv'
  BY <1>1, MainOnBus, BusStays, PublishKeeps, PublishStepKeeps
<1>3. FrameInv'
  BY MainOnBus DEF FrameInv
<1>4. LoopInv'
  <2>1. CASE MainPublishes
    BY <2>1, LoopStays DEF MainPublishes
  <2>2. CASE \/ Stage("data", "features") \/ Stage("features", "strategy")
             \/ Stage("strategy", "intelligence") \/ Stage("scoring", "risk")
    BY <2>2, StageKeeps
  <2>3. CASE \/ Emit("regime", "regime", "scoring") \/ Emit("risky", "alert", "validation")
             \/ Emit("invalid", "alert", "evolution") \/ Emit("failed", "failed", "memory")
    <3>1. {"regime", "alert", "failed"} \subseteq Types
      BY OrchestratorAssumption
    <3> QED BY <2>3, <3>1, EmitKeeps
  <2>4. CASE Start \/ Loop \/ Logged \/ Intelligence \/ Risk
    BY <2>4, StartKeeps, LoopKeeps, LoggedKeeps, IntelligenceKeeps, RiskKeeps
  <2>5. CASE Correlation \/ Validation \/ Evolution
    BY <2>5, CorrelationKeeps, ValidationKeeps, EvolutionKeeps
  <2>6. CASE Execution \/ Opened \/ Count \/ Memory
    BY <2>6, ExecutionKeeps, OpenedKeeps, CountKeeps, MemoryKeeps
  <2> QED BY <2>1, <2>2, <2>3, <2>4, <2>5, <2>6 DEF MainStep
<1> QED BY <1>2, <1>3, <1>4

\* SIGTERM puts the handler above the main thread, which enters publish.
LEMMA SignalStepsKeep ==
    ASSUME IInv, Signal \/ SignalStep
    PROVE  IInv'
<1> USE DEF IInv
<1>1. {"signal", "main"} \subseteq Threads /\ NoThread # "main" /\ "stop" \in Types
  BY OrchestratorAssumption, BusAssumption
<1>2. CASE Signal
  <2>1. Publish("signal", "stop")
    BY <1>2 DEF Signal
  <2>2. call'["signal"].at = "entering"
    BY <1>1, <2>1 DEF Publish, BusInv, BusType
  <2> QED BY <1>1, <1>2, <2>1, <2>2, PublishKeeps, SignalKeeps DEF FrameInv
<1>3. CASE SignalPublishes
  <2>1. PublishStep("signal") /\ frame' = frame
    BY <1>3 DEF SignalPublishes, orchVars
  <2>2. lock' # "main" \/ (lock' = lock /\ call["signal"].at # "entering")
    BY <1>1, <2>1 DEF PublishStep, Record, Recorded, List, Listed, Deliver, Delivered, Acquire,
         Release
  <2>3. FrameInv'
    BY <2>1, <2>2 DEF FrameInv
  <2> QED BY <1>1, <1>3, <2>1, <2>3, PublishStepKeeps, LoopStays DEF SignalPublishes
<1>4. CASE Exit
  <2>1. frame' = "left" /\ lock' = lock /\ UNCHANGED <<subscribers, history, published>>
    BY <1>4 DEF Exit, busVars
  <2>2. lock # "main"
    BY <1>4 DEF Exit, FrameInv, Silent
  <2>3. call' = call \/ call' = [call EXCEPT !["main"] = Quiet]
    BY <1>4 DEF Exit, busVars
  <2>4. BusType' /\ Latests'
    BY <2>1, <2>3 DEF BusInv, BusType, Latests, Calls
  <2>5. ~Inside("main")
    BY <1>1, <2>2 DEF BusInv, LockInv
  <2>6. LockInv'
    BY <1>1, <2>1, <2>3, <2>5 DEF BusInv, BusType, LockInv, Inside, Quiet
  <2>7. FrameInv'
    BY <2>1 DEF FrameInv
  <2> QED BY <1>4, <2>4, <2>6, <2>7, ExitKeeps DEF BusInv
<1> QED BY <1>2, <1>3, <1>4 DEF SignalStep

\* An operator never disturbs the frame of the handler, and takes the lock in its own name.
LEMMA OperatorKeeps ==
    ASSUME IInv, Operate \/ OperatorPublishes
    PROVE  IInv'
<1> USE DEF IInv
<1>1. {"operator", "signal"} \subseteq Threads /\ NoThread # "main" /\ {"stop", "opened"} \subseteq Types
  BY OrchestratorAssumption, BusAssumption
<1>2. ASSUME NEW l \in Touched, NEW on \in BOOLEAN, SetEnabled(l, on) PROVE IInv'
  <2>1. UNCHANGED busVars /\ frame' = frame
    BY <1>2 DEF SetEnabled
  <2>2. FrameInv'
    BY <2>1 DEF FrameInv, busVars
  <2> QED BY <1>2, <2>1, <2>2, BusStays, SetEnabledKeeps
<1>3. ASSUME NEW l \in Touched, Swap(l) PROVE IInv'
  <2>1. UNCHANGED busVars /\ frame' = frame
    BY <1>3 DEF Swap
  <2>2. FrameInv'
    BY <2>1 DEF FrameInv, busVars
  <2> QED BY <1>3, <2>1, <2>2, BusStays, SwapKeeps
<1>4. CASE Stop
  <2>1. Publish("operator", "stop") /\ frame' = frame
    BY <1>4 DEF Stop
  <2>2. lock' = lock /\ call'["signal"] = call["signal"]
    BY <1>1, <2>1 DEF Publish, BusInv, BusType
  <2>3. FrameInv'
    BY <2>1, <2>2 DEF FrameInv
  <2> QED BY <1>1, <1>4, <2>1, <2>3, PublishKeeps, StopKeeps
<1>5. CASE Register
  <2>1. PICK h \in Handlers : Subscribe("opened", h) \/ Unsubscribe("opened", h)
    BY <1>5 DEF Register
  <2>2. UNCHANGED <<lock, call, frame>>
    BY <1>5, <2>1 DEF Register, Subscribe, Unsubscribe
  <2>3. FrameInv'
    BY <2>2 DEF FrameInv
  <2> QED BY <1>1, <1>5, <2>1, <2>3, SubscribeKeeps, RegisterKeeps
<1>6. CASE OperatorPublishes
  <2>1. PublishStep("operator") /\ frame' = frame
    BY <1>6 DEF OperatorPublishes, orchVars
  <2>2. (lock' # "main" \/ lock' = lock) /\ call'["signal"] = call["signal"]
    BY <1>1, <2>1 DEF PublishStep, Record, Recorded, List, Listed, Deliver, Delivered,
                        Acquire, Release, BusInv, BusType
  <2>3. FrameInv'
    BY <2>1, <2>2 DEF FrameInv
  <2> QED BY <1>1, <1>6, <2>1, <2>3, PublishStepKeeps, LoopStays DEF OperatorPublishes
<1> QED BY <1>2, <1>3, <1>4, <1>5, <1>6 DEF Operate

\* The invariant holds initially.
LEMMA InitHolds == Init => IInv
<1> SUFFICES ASSUME Init PROVE IInv
  OBVIOUS
<1>1. BusInv
  BY BusStarts DEF Init
<1>2. kind \in [Layers -> {"layer", "foreign", "none"}]
  BY DEF Init, Shipped
<1>3. LoopType
  BY <1>2 DEF Init, LoopType, Places, Resumed
<1>4. CountInv /\ FillInv /\ PermitInv /\ EvolvedInv /\ FrameInv
  BY DEF Init, CountInv, FillInv, PermitInv, EvolvedInv, FrameInv
<1> QED BY <1>1, <1>3, <1>4 DEF IInv, LoopInv

\* Every step of the program keeps the invariant.
LEMMA NextKeeps == IInv /\ [Next]_vars => IInv'
<1> SUFFICES ASSUME IInv, [Next]_vars PROVE IInv'
  OBVIOUS
<1>1. CASE UNCHANGED vars
  <2>1. UNCHANGED busVars /\ UNCHANGED orchVars
    BY <1>1 DEF vars
  <2>2. FrameInv'
    BY <2>1 DEF IInv, FrameInv, busVars, orchVars
  <2> QED BY <2>1, <2>2, BusStays, LoopStays DEF IInv
<1> QED BY <1>1, MainKeeps, SignalStepsKeep, OperatorKeeps DEF Next

\* The inductive invariant: the bus with its lock, the loop, and the frame above it.
THEOREM Invariance == Spec => []IInv
BY InitHolds, NextKeeps, PTL DEF Spec

\* Every variable of the bus and of the orchestrator keeps its type.
THEOREM TypeCorrect == Spec => [](BusType /\ LoopType)
<1>1. IInv => BusType /\ LoopType
  BY DEF IInv, BusInv, LoopInv
<1> QED BY <1>1, Invariance, PTL

\* The lock of the bus is held by exactly the thread inside a block of publish: the only
\* state in which SIGTERM waits for itself is one in which the main thread is inside one.
THEOREM HeldInside == Spec => []LockInv
<1>1. IInv => LockInv
  BY DEF IInv, BusInv
<1> QED BY <1>1, Invariance, PTL

\* OpenedIsFilled: what was counted was published, what was published was filled, and the
\* history has no gap.
THEOREM OpenedWereFilled == Spec => []OpenedIsFilled
<1>1. IInv => OpenedIsFilled
  BY DEF IInv, BusInv, Latests, LoopInv, LoopType, CountInv, FillInv, OpenedIsFilled
<1> QED BY <1>1, Invariance, PTL

\* Orders are filled by one action only.
LEMMA OnlyExecutionFills ==
    ASSUME IInv, [Next]_vars
    PROVE  fills' = fills \/ Execution
<1> USE DEF books
<1>1. CASE UNCHANGED vars
  BY <1>1 DEF vars, orchVars
<1>2. CASE MainStep
  <2>1. ASSUME NEW l, NEW next, Stage(l, next) PROVE fills' = fills
    BY <2>1 DEF Stage
  <2>2. ASSUME NEW at, NEW type, NEW next, Emit(at, type, next) PROVE fills' = fills
    BY <2>2 DEF Emit
  <2>3. CASE Start \/ Loop \/ Logged \/ Intelligence \/ Risk \/ Correlation \/ Validation \/ Evolution
    BY <2>3 DEF Start, Loop, Logged, Intelligence, Risk, Correlation, Validation, Evolution
  <2>4. CASE Opened \/ Count \/ Memory \/ MainPublishes
    BY <2>4 DEF Opened, Count, Memory, MainPublishes, orchVars
  <2> QED BY <1>2, <2>1, <2>2, <2>3, <2>4 DEF MainStep
<1>3. CASE Signal \/ SignalStep
  BY <1>3 DEF Signal, SignalStep, SignalPublishes, Exit, orchVars
<1>4. CASE Operate \/ OperatorPublishes
  BY <1>4 DEF Operate, SetEnabled, Swap, Stop, Register, OperatorPublishes, orchVars
<1> QED BY <1>1, <1>2, <1>3, <1>4 DEF Next

\* FillsAreChecked: no order is filled without the permission of the risk layer in the
\* same iteration, nor before an evolution that is due.
THEOREM FillsWereAllowed == Spec => FillsAreChecked
<1> DEFINE Checked == fills' > fills => permit /\ (Due(EvolveEvery) => trades \in evolved)
<1>1. IInv /\ [Next]_vars => [Checked]_vars
  <2> SUFFICES ASSUME IInv, [Next]_vars, fills' > fills
               PROVE  permit /\ (Due(EvolveEvery) => trades \in evolved)
    OBVIOUS
  <2>1. fills \in Nat
    BY DEF IInv, LoopInv, LoopType
  <2>2. Execution
    BY <2>1, OnlyExecutionFills
  <2> QED BY <2>2 DEF Execution, Main, IInv, LoopInv, PermitInv, EvolvedInv
<1> QED BY <1>1, Invariance, PTL DEF Spec, FillsAreChecked

\* A layer becomes healthy by its own success, which it was asked for as a healthy one, or
\* by a swap.
LEMMA OnlySwapHeals ==
    ASSUME IInv, [Next]_vars, NEW l \in Layers, ~healthy[l], healthy'[l]
    PROVE  l \in Touched /\ orders' = orders + 1
<1> USE DEF wiring
<1>1. healthy \in [Layers -> BOOLEAN]
  BY DEF IInv, LoopInv, LoopType
<1>2. healthy' # healthy
  OBVIOUS
<1>3. ASSUME NEW k \in Layers, Trusted(k), Healed(k) PROVE FALSE
  BY <1>1, <1>3 DEF Trusted, Healed
<1>4. ASSUME NEW k \in Layers, Marked(k) PROVE FALSE
  BY <1>1, <1>4 DEF Marked
<1>5. ASSUME NEW k \in Layers, NEW failed, Fails(k, failed) PROVE FALSE
  BY <1>2, <1>4, <1>5 DEF Fails
<1>6. ~UNCHANGED vars
  BY <1>2 DEF vars, orchVars
<1>7. ~MainStep
  <2>1. ASSUME NEW k \in Layers, NEW next, Stage(k, next) PROVE FALSE
    BY <1>2, <1>3, <1>5, <2>1 DEF Stage, Works
  <2>2. ASSUME NEW at, NEW type, NEW next, Emit(at, type, next) PROVE FALSE
    BY <1>2, <2>2 DEF Emit
  <2>3. ~Intelligence /\ ~Risk /\ ~Execution /\ ~Memory
    BY <1>2, <1>3, <1>5 DEF Intelligence, Risk, Execution, Memory, Works, Layers
  <2>4. ~Start /\ ~Loop /\ ~Logged /\ ~Correlation /\ ~Validation /\ ~Evolution
    BY <1>2 DEF Start, Loop, Logged, Correlation, Validation, Evolution
  <2>5. ~Opened /\ ~Count /\ ~MainPublishes
    BY <1>2 DEF Opened, Count, MainPublishes, orchVars
  <2>6. {"data", "features", "strategy", "scoring"} \subseteq Layers
    BY DEF Layers
  <2> QED BY <2>1, <2>2, <2>3, <2>4, <2>5, <2>6 DEF MainStep
<1>8. ~Signal /\ ~SignalStep /\ ~OperatorPublishes
  BY <1>2 DEF Signal, SignalStep, SignalPublishes, Exit, OperatorPublishes, orchVars
<1>9. ~Stop /\ ~Register /\ \A k \in Touched, on \in BOOLEAN : ~SetEnabled(k, on)
  BY <1>2 DEF Stop, Register, SetEnabled
<1>10. PICK k \in Touched : Swap(k)
  BY <1>6, <1>7, <1>8, <1>9 DEF Next, Operate
<1>11. k = l
  BY <1>1, <1>10 DEF Swap, Healed
<1> QED BY <1>10, <1>11 DEF Swap, Order

\* FailureLatches: a layer that was marked unhealthy works again only after a swap.
THEOREM FailuresLatch == Spec => FailureLatches
<1> DEFINE Latched == \A l \in Layers : ~healthy[l] /\ healthy'[l] => l \in Touched /\ orders' = orders + 1
<1>1. IInv /\ [Next]_vars => [Latched]_vars
  BY OnlySwapHeals
<1> QED BY <1>1, Invariance, PTL DEF Spec, FailureLatches
=============================================================================
