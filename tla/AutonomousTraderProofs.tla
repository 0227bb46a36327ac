----------------------- MODULE AutonomousTraderProofs -----------------------
(***************************************************************************)
(* Proofs about the trading process for every daily limit, every spacing,  *)
(* every set of prices and every number of faults, crashes, days and       *)
(* orders of the operator.                                                 *)
(*                                                                         *)
(* First what the parts of an action do to the parts of the type           *)
(* invariant, then the type invariant action by action, then the safety    *)
(* properties.                                                             *)
(***************************************************************************)
EXTENDS AutonomousTrader, FiniteSetTheorems, SequenceTheorems, TLAPS
-----------------------------------------------------------------------------
\* A counter that saturates stays in its range.
LEMMA UpToRange ==
    ASSUME NEW n \in Nat, NEW cap \in Nat
    PROVE  UpTo(n, cap) \in 0..cap /\ UpTo(n, cap) <= n
BY DEF UpTo

\* A failed request is counted, and hides the position at most once.
LEMMA FaultOK ==
    ASSUME WorldOK, NEW kind, Fault(kind)
    PROVE  /\ WorldOK' /\ faults' = faults + 1 /\ blind' >= blind
           /\ kind \in {"position", "outage"} => blind' = blind + 1
           /\ day' = day /\ restarts' = restarts /\ manualOrders' = manualOrders
BY TraderAssumption DEF Fault, WorldOK

\* An executed order leaves a position within the margin and a price to compare
\* with.
LEMMA FilledOK ==
    ASSUME ExchangeOK, NEW delta \in Int, pos + delta \in -MaxPosition..MaxPosition,
           Filled(delta)
    PROVE  ExchangeOK' /\ pos' = pos + delta
<1>1. pos' = pos + delta /\ market' = market
  BY DEF Filled
<1>2. market \in Nat /\ pos \in Int /\ entry \in Nat
  BY TraderAssumption DEF ExchangeOK
<1>3. (Abs(pos) * entry + market) \in Nat
  BY <1>2 DEF Abs
<1>4. pos + delta # 0 => (Abs(pos) * entry + market) \div Abs(pos + delta) \in Nat
  <2>1. SUFFICES ASSUME pos + delta # 0
                 PROVE  (Abs(pos) * entry + market) \div Abs(pos + delta) \in Nat
    OBVIOUS
  <2>2. Abs(pos + delta) \in Nat \ {0}
    BY <1>2, <2>1 DEF Abs
  <2>3. \A a \in Nat, b \in Nat \ {0} : a \div b \in Nat
    OBVIOUS
  <2> QED BY <1>3, <2>2, <2>3
<1>5. entry' \in Nat
  BY <1>2, <1>4 DEF Filled
<1> QED BY <1>1, <1>5 DEF ExchangeOK

\* A reduce-only order never makes the position larger.
LEMMA ReduceOnlyOK ==
    ASSUME ExchangeOK, NEW quantity \in Int, ReduceOnly(quantity)
    PROVE  ExchangeOK' /\ Abs(pos') <= Abs(pos)
<1> DEFINE delta == IF Abs(quantity) < Abs(pos) THEN -quantity ELSE -pos
<1>0. pos \in Int /\ pos \in -MaxPosition..MaxPosition /\ MaxPosition \in Nat
  BY TraderAssumption DEF ExchangeOK
<1>1. CASE Sign(pos) = Sign(quantity)
  <2>1. delta \in Int /\ pos + delta \in -MaxPosition..MaxPosition
        /\ Abs(pos + delta) <= Abs(pos)
    BY <1>0, <1>1 DEF Sign, Abs
  <2>2. Filled(delta)
    BY <1>1 DEF ReduceOnly
  <2> HIDE DEF delta
  <2> QED BY <2>1, <2>2, FilledOK
<1>2. CASE Sign(pos) # Sign(quantity)
  <2>1. UNCHANGED <<market, pos, entry>>
    BY <1>2 DEF ReduceOnly, exchange
  <2> QED BY <1>0, <2>1 DEF ExchangeOK, Abs
<1> QED BY <1>1, <1>2

\* Remembering a bar keeps at most 2 * Window - 1 of them.
LEMMA RememberedOK ==
    ASSUME NEW bars \in Seq(BOOLEAN), Len(bars) < 2 * Window, NEW bar \in BOOLEAN
    PROVE  Remembered(bars, bar) \in Seq(BOOLEAN) /\ Len(Remembered(bars, bar)) < 2 * Window
<1> DEFINE longer == Append(bars, bar)
<1>1. longer \in Seq(BOOLEAN) /\ longer # <<>> /\ Len(longer) = Len(bars) + 1
  BY AppendProperties
<1>2. Len(bars) \in Nat /\ 2 * Window \in Nat
  BY LenProperties, TraderAssumption
<1>3. Tail(longer) \in Seq(BOOLEAN) /\ Len(Tail(longer)) = Len(longer) - 1
  BY <1>1, HeadTailProperties
<1>4. Remembered(bars, bar) = IF Len(longer) < 2 * Window THEN longer ELSE Tail(longer)
  BY DEF Remembered
<1> HIDE DEF longer
<1>5. CASE Len(longer) < 2 * Window
  BY <1>1, <1>4, <1>5
<1>6. CASE ~(Len(longer) < 2 * Window)
  <2>1. Remembered(bars, bar) = Tail(longer)
    BY <1>4, <1>6
  <2>2. Len(Tail(longer)) < 2 * Window
    BY <1>1, <1>2, <1>3
  <2> QED BY <1>3, <2>1, <2>2
<1> QED BY <1>5, <1>6

\* Marking a trade closed changes neither the length nor the actions of the list.
LEMMA CloseFirstOpenOK ==
    ASSUME NEW ts \in Seq(Trades)
    PROVE  CloseFirstOpen(ts) \in Seq(Trades) /\ Len(CloseFirstOpen(ts)) = Len(ts)
<1> DEFINE n == First(OpenTrades(ts))
<1>1. CASE n \in DOMAIN ts /\ OpenTrades(ts) # {}
  <2>1. n \in 1..Len(ts) /\ ts[n] \in Trades
    BY <1>1, LenProperties, ElementOfSeq
  <2>2. [ts[n] EXCEPT !.open = FALSE] \in Trades
    BY <2>1 DEF Trades
  <2>3. CloseFirstOpen(ts) = [ts EXCEPT ![n] = [ts[n] EXCEPT !.open = FALSE]]
    BY <1>1 DEF CloseFirstOpen
  <2> HIDE DEF n
  <2> QED BY <2>1, <2>2, <2>3, ExceptSeq
<1>2. CASE n \notin DOMAIN ts /\ OpenTrades(ts) # {}
  <2>1. CloseFirstOpen(ts) = [ts EXCEPT ![n] = [ts[n] EXCEPT !.open = FALSE]]
    BY <1>2 DEF CloseFirstOpen
  <2>2. ts \in [1..Len(ts) -> Trades] /\ DOMAIN ts = 1..Len(ts)
    BY LenProperties
  <2> HIDE DEF n
  <2>3. CloseFirstOpen(ts) = ts
    BY <1>2, <2>1, <2>2
  <2> QED BY <2>3
<1>3. CASE OpenTrades(ts) = {}
  BY <1>3 DEF CloseFirstOpen
<1> QED BY <1>1, <1>2, <1>3

\* Booking a closed trade leaves the number of entries alone.
LEMMA RecordTradeOK ==
    ASSUME BooksOK, HistoryOK, LocalsOK, NEW won \in BOOLEAN, RecordTrade(won)
    PROVE  BooksOK' /\ HistoryOK' /\ Len(trades') = Len(trades)
<1>1. RecordCap \in Nat /\ wins \in Nat /\ losses \in Nat
  BY TraderAssumption DEF BooksOK, RecordCap
<1>2. wins' \in 0..RecordCap /\ losses' \in 0..RecordCap
  <2>1. /\ UpTo(wins + 1, RecordCap) \in 0..RecordCap
        /\ UpTo(losses + 1, RecordCap) \in 0..RecordCap
    BY <1>1 DEF UpTo
  <2>2. CASE won
    BY <2>1, <2>2, Zenon DEF RecordTrade, BooksOK
  <2>3. CASE ~won
    BY <2>1, <2>3, Zenon DEF RecordTrade, BooksOK
  <2> QED BY <2>2, <2>3
<1>3. trades' \in Seq(Trades) /\ Len(trades') = Len(trades)
  BY CloseFirstOpenOK DEF RecordTrade, BooksOK
<1>4. BooksOK'
  BY <1>2, <1>3 DEF RecordTrade, BooksOK
<1>5. lastRecord'.done = TRUE
  BY DEF RecordTrade
<1>6. HistoryOK'
  BY <1>5, Zenon DEF RecordTrade, HistoryOK
<1> QED BY <1>3, <1>4, <1>6

\* Leaving an iteration restores the locals.
LEMMA ForgetLocalsOK ==
    ASSUME LocalsOK, HistoryOK, ForgetLocals,
           error' \in {"none", "ZeroDivisionError", "AttributeError"},
           UNCHANGED placed
    PROVE  LocalsOK' /\ HistoryOK'
<1>1. 0 \in -MaxPosition..MaxPosition /\ 0 \in -1..1
  BY TraderAssumption
<1>2. seen' = Nothing /\ order' = NoOrder /\ lastRecord' = NoRecord
  BY DEF ForgetLocals
<1>3. LocalsOK'
  BY <1>1, <1>2 DEF LocalsOK, Nothing, NoOrder
<1>4. HistoryOK'
  BY <1>1, <1>2 DEF HistoryOK, NoRecord
<1> QED BY <1>3, <1>4

\* A breaker stays one whatever the trading process does to it: its answer to
\* can_execute, a failure, time, a new one.
LEMMA BreakersStay ==
    /\ Closed \in Breakers
    /\ \A b \in Breakers : Asked(b) \in Breakers /\ Failed(b) \in Breakers
    /\ \A b \in Breakers, d \in Nat : Aged(b, d) \in Breakers
<1> USE BreakerAssumption
<1>1. Closed \in Breakers
  BY DEF Closed, Breakers
<1>2. ASSUME NEW b \in Breakers PROVE Asked(b) \in Breakers
  <2>1. 0 \in 0..CountCap
    OBVIOUS
  <2> QED BY <2>1, Zenon DEF Asked, Breakers
<1>3. ASSUME NEW b \in Breakers PROVE Failed(b) \in Breakers
  <2> DEFINE counted == [b EXCEPT !.failures = Bump(@)]
  <2>1. Bump(b.failures) \in 0..CountCap
    BY DEF Bump, Breakers
  <2>2. counted \in Breakers
    BY <2>1 DEF Breakers
  <2>3. 0 \in {NotOpened} \cup 0..TimeoutDuration
    OBVIOUS
  <2>4. Trip(counted) \in Breakers
    BY <2>2, <2>3, Zenon DEF Trip, Breakers
  <2> QED BY <2>2, <2>4, Zenon DEF Failed
<1>4. ASSUME NEW b \in Breakers, NEW d \in Nat PROVE Aged(b, d) \in Breakers
  <2>1. CASE b.age = NotOpened
    BY <2>1 DEF Aged
  <2>2. CASE b.age # NotOpened
    <3> DEFINE older == IF b.age + d < TimeoutDuration THEN b.age + d ELSE TimeoutDuration
    <3>1. older \in 0..TimeoutDuration
      BY <2>2 DEF Breakers
    <3>2. Aged(b, d) = [b EXCEPT !.age = older]
      BY <2>2 DEF Aged
    <3> QED BY <3>1, <3>2 DEF Breakers
  <2> QED BY <2>1, <2>2
<1> QED BY <1>1, <1>2, <1>3, <1>4
-----------------------------------------------------------------------------
(* The type invariant, action by action.                                   *)

\* __init__ and initialize.
LEMMA TypeInit == Init => TypeOK
<1> SUFFICES ASSUME Init PROVE TypeOK
  OBVIOUS
<1> USE TraderAssumption, BreakerAssumption
<1>1. ExchangeOK
  BY DEF Init, ExchangeOK
<1>2. WorldOK /\ pc \in Steps
  BY DEF Init, WorldOK, Steps
<1>3. BooksOK
  <2>1. trades \in Seq(Trades) /\ zeroBars \in Seq(BOOLEAN) /\ Len(zeroBars) = 0
    BY EmptySeq DEF Init, FreshBooks
  <2>2. breaker \in Breakers
    BY BreakersStay DEF Init, FreshBooks
  <2>3. wins \in 0..RecordCap /\ losses \in 0..RecordCap
    BY DEF Init, FreshBooks, RecordCap
  <2> QED BY <2>1, <2>2, <2>3 DEF Init, FreshBooks, BooksOK
<1>4. LocalsOK
  BY DEF Init, Nothing, NoOrder, LocalsOK
<1>5. HistoryOK
  BY DEF Init, NoRecord, HistoryOK, PlacedCap
<1> QED BY <1>1, <1>2, <1>3, <1>4, <1>5 DEF TypeOK

\* The start of an iteration.
LEMMA TypeBegin == TypeOK /\ BeginIteration => TypeOK'
<1> SUFFICES ASSUME TypeOK, BeginIteration PROVE TypeOK'
  OBVIOUS
<1> USE TraderAssumption DEF TypeOK
<1>1. WorldOK' /\ seen' \in [amount : -MaxPosition..MaxPosition, entry : Nat,
                             price : Prices \cup {0}]
  <2>1. 0 \in -MaxPosition..MaxPosition
    OBVIOUS
  <2>2. /\ [amount |-> pos, entry |-> entry, price |-> market]
             \in [amount : -MaxPosition..MaxPosition, entry : Nat, price : Prices \cup {0}]
        /\ [amount |-> pos, entry |-> entry, price |-> 0]
             \in [amount : -MaxPosition..MaxPosition, entry : Nat, price : Prices \cup {0}]
        /\ Nothing \in [amount : -MaxPosition..MaxPosition, entry : Nat, price : Prices \cup {0}]
        /\ [Nothing EXCEPT !.price = market]
             \in [amount : -MaxPosition..MaxPosition, entry : Nat, price : Prices \cup {0}]
    BY <2>1 DEF ExchangeOK, Nothing
  <2>3. UNCHANGED world => WorldOK'
    BY DEF world, WorldOK
  <2> QED BY <2>2, <2>3, FaultOK DEF BeginIteration, GetStatus
<1>2. ExchangeOK' /\ HistoryOK'
  BY DEF BeginIteration, exchange, history, ExchangeOK, HistoryOK
<1>3. pc' \in Steps /\ error' \in {"none", "ZeroDivisionError", "AttributeError"} /\ order' = order
  BY DEF BeginIteration, Steps, LocalsOK
<1>4. LocalsOK'
  BY <1>1, <1>3 DEF LocalsOK
<1>5. zeroBars' \in Seq(BOOLEAN) /\ Len(zeroBars') < 2 * Window
  <2>1. (seen'.price = 0) \in BOOLEAN
    OBVIOUS
  <2> QED BY <2>1, RememberedOK DEF BeginIteration, BooksOK
<1>6. /\ count' \in Nat /\ trades' \in Seq(Trades) /\ lastReset' \in 0..MaxDays
      /\ wins' \in 0..RecordCap /\ losses' \in 0..RecordCap
  <2>1. 0 \in Nat /\ 0 \in 0..RecordCap /\ <<>> \in Seq(Trades) /\ day \in 0..MaxDays
    BY EmptySeq DEF RecordCap, WorldOK
  <2> QED BY <2>1, Zenon DEF BeginIteration, CheckDailyReset, BooksOK
<1>7. BooksOK'
  BY <1>5, <1>6 DEF BeginIteration, BooksOK
<1> QED BY <1>1, <1>2, <1>3, <1>4, <1>7

\* The decision to close.
LEMMA TypeManage == TypeOK /\ ManagePosition => TypeOK'
<1> SUFFICES ASSUME TypeOK, ManagePosition PROVE TypeOK'
  OBVIOUS
<1> USE TraderAssumption DEF TypeOK
<1>1. ExchangeOK' /\ WorldOK' /\ BooksOK' /\ HistoryOK'
  BY DEF ManagePosition, exchange, world, books, history, ExchangeOK, WorldOK, BooksOK,
         HistoryOK
<1>2. pc' \in Steps
  BY DEF ManagePosition, Steps
<1>3. order' \in [action : Actions \cup {"none", "stop_loss", "take_profit"},
                 quantity : -MaxPosition..MaxPosition \cup {1}]
  <2>1. 0 \in -MaxPosition..MaxPosition
    OBVIOUS
  <2> QED BY <2>1 DEF ManagePosition, LocalsOK
<1>4. LocalsOK'
  BY <1>3 DEF ManagePosition, LocalsOK
<1> QED BY <1>1, <1>2, <1>4

\* The close, in its two requests.
LEMMA TypeReadPosition == TypeOK /\ ReadPosition => TypeOK'
<1> SUFFICES ASSUME TypeOK, ReadPosition PROVE TypeOK'
  OBVIOUS
<1> USE TraderAssumption DEF TypeOK
<1>1. ExchangeOK' /\ seen' = seen /\ error' = error
  BY DEF ReadPosition, exchange, ExchangeOK
<1>2. WorldOK'
  <2>1. UNCHANGED world => WorldOK'
    BY DEF world, WorldOK
  <2> QED BY <2>1, FaultOK DEF ReadPosition
<1>3. pc' \in Steps
  BY DEF ReadPosition, Steps
<1>4. LocalsOK'
  <2>1. [order EXCEPT !.quantity = pos]
          \in [action : Actions \cup {"none", "stop_loss", "take_profit"},
              quantity : -MaxPosition..MaxPosition \cup {1}]
    BY DEF LocalsOK, ExchangeOK
  <2> QED BY <1>1, <2>1 DEF ReadPosition, LocalsOK
<1>5. BooksOK' /\ HistoryOK'
  <2>1. (order.action = "take_profit") \in BOOLEAN
    OBVIOUS
  <2>2. UNCHANGED <<books, history>> => BooksOK' /\ HistoryOK'
    BY DEF books, history, BooksOK, HistoryOK
  <2> QED BY <2>1, <2>2, RecordTradeOK DEF ReadPosition
<1> QED BY <1>1, <1>2, <1>3, <1>4, <1>5

\* The reduce-only order and the record of the trade, whatever the answer.
LEMMA TypeClosePosition == TypeOK /\ ClosePosition => TypeOK'
<1> SUFFICES ASSUME TypeOK, ClosePosition PROVE TypeOK'
  OBVIOUS
<1> USE TraderAssumption DEF TypeOK
<1>1. order.quantity \in Int
  BY DEF LocalsOK
<1>2. ExchangeOK'
  <2>1. UNCHANGED exchange => ExchangeOK'
    BY DEF exchange, ExchangeOK
  <2> QED BY <1>1, <2>1, ReduceOnlyOK DEF ClosePosition
<1>3. WorldOK'
  <2>1. UNCHANGED world => WorldOK'
    BY DEF world, WorldOK
  <2> QED BY <2>1, FaultOK DEF ClosePosition
<1>4. pc' \in Steps /\ LocalsOK'
  BY DEF ClosePosition, Steps, LocalsOK
<1>5. BooksOK' /\ HistoryOK'
  <2>1. (order.action = "take_profit") \in BOOLEAN
    OBVIOUS
  <2> QED BY <2>1, RecordTradeOK DEF ClosePosition
<1> QED BY <1>2, <1>3, <1>4, <1>5

\* The decision to open.
LEMMA TypeDecide == TypeOK /\ Decide => TypeOK'
<1> SUFFICES ASSUME TypeOK, Decide PROVE TypeOK'
  OBVIOUS
<1> USE TraderAssumption DEF TypeOK
<1>1. ExchangeOK' /\ WorldOK' /\ HistoryOK'
  BY DEF Decide, exchange, world, history, ExchangeOK, WorldOK, HistoryOK
<1>2. breaker' \in Breakers
  BY BreakersStay DEF Decide, BooksOK
<1>3. BooksOK'
  BY <1>2 DEF Decide, BooksOK
<1>4. pc' \in Steps /\ LocalsOK'
  <2>1. PICK action \in Actions \cup {"hold"}, confident \in BOOLEAN :
          IF ShouldTrade(action, confident)
          THEN order' = [action |-> action, quantity |-> 1] /\ pc' = "open"
          ELSE pc' = "tail" /\ UNCHANGED order
    BY DEF Decide
  <2>2. ShouldTrade(action, confident) => action \in Actions
    BY DEF ShouldTrade
  <2>3. order' \in [action : Actions \cup {"none", "stop_loss", "take_profit"},
                   quantity : -MaxPosition..MaxPosition \cup {1}]
    BY <2>1, <2>2 DEF LocalsOK
  <2>4. pc' \in Steps
    BY <2>1 DEF Steps
  <2> QED BY <2>3, <2>4 DEF Decide, LocalsOK
<1> QED BY <1>1, <1>3, <1>4

\* The order in hand is an entry while it is placed, as Decide has left it.
OrderIsEntry == pc = "open" => order.action \in Actions

\* The entry: executed or not, acknowledged or not, or without a price.
LEMMA TypeOpen == TypeOK /\ OrderIsEntry /\ OpenPosition => TypeOK'
<1> SUFFICES ASSUME TypeOK, OrderIsEntry, OpenPosition PROVE TypeOK'
  OBVIOUS
<1> USE TraderAssumption, BreakerAssumption DEF TypeOK
<1>1. order.action \in Actions /\ Direction(order.action) \in {-1, 1}
  BY DEF OpenPosition, OrderIsEntry, Direction
<1>2. /\ Executed => ExchangeOK' /\ placed' \in 0..PlacedCap
      /\ NotExecuted => ExchangeOK' /\ placed' \in 0..PlacedCap
  <2>1. ASSUME Executed PROVE ExchangeOK'
    <3>1. pos + Direction(order.action) \in -MaxPosition..MaxPosition
      BY <1>1, <2>1 DEF Executed, Abs, ExchangeOK
    <3> QED BY <1>1, <2>1, <3>1, FilledOK DEF Executed
  <2>2. ASSUME Executed PROVE placed' \in 0..PlacedCap
    BY <2>2 DEF Executed, HistoryOK, UpTo, PlacedCap
  <2> QED BY <2>1, <2>2 DEF NotExecuted, exchange, ExchangeOK, HistoryOK
<1>3. ExchangeOK' /\ placed' \in 0..PlacedCap
  BY <1>2 DEF OpenPosition, NoPriceForOrder, PlaceOrder
<1>4. WorldOK'
  <2>1. UNCHANGED world => WorldOK'
    BY DEF world, WorldOK
  <2> QED BY <2>1, FaultOK DEF OpenPosition, NoPriceForOrder, PlaceOrder
<1>5. /\ count' \in Nat /\ trades' \in Seq(Trades) /\ tradeAge' \in 0..TradeGap
  <2>1. ASSUME Acknowledged
        PROVE  /\ count' \in Nat /\ trades' \in Seq(Trades) /\ tradeAge' \in 0..TradeGap
    <3>1. [action |-> order.action, open |-> TRUE] \in Trades
      BY <1>1 DEF Trades
    <3> QED BY <2>1, <3>1, AppendProperties DEF Acknowledged, BooksOK
  <2>2. ASSUME NotAcknowledged
        PROVE  /\ count' \in Nat /\ trades' \in Seq(Trades) /\ tradeAge' \in 0..TradeGap
    BY <2>2 DEF NotAcknowledged, BooksOK, HistoryOK, UpTo
  <2> QED BY <2>1, <2>2 DEF OpenPosition, NoPriceForOrder, PlaceOrder, BooksOK, HistoryOK
<1>6. BooksOK'
  BY <1>5 DEF OpenPosition, BooksOK
<1>7. HistoryOK'
  BY <1>3, <1>5 DEF OpenPosition, HistoryOK
<1>8. pc' \in Steps /\ error' \in {"none", "ZeroDivisionError", "AttributeError"}
  BY DEF OpenPosition, NoPriceForOrder, PlaceOrder, Steps, LocalsOK
<1>9. LocalsOK'
  BY <1>8 DEF OpenPosition, LocalsOK
<1> QED BY <1>3, <1>4, <1>6, <1>7, <1>8, <1>9

\* The rest of the loop: dashboard, report, error handling, sleep.
LEMMA TypeFinish == TypeOK /\ FinishIteration => TypeOK'
<1> SUFFICES ASSUME TypeOK, FinishIteration PROVE TypeOK'
  OBVIOUS
<1> USE TraderAssumption DEF TypeOK
<1>1. ExchangeOK' /\ WorldOK'
  BY DEF FinishIteration, exchange, world, ExchangeOK, WorldOK
<1>2. BooksOK'
  <2>1. breaker' \in Breakers
    BY BreakersStay DEF FinishIteration, BooksOK
  <2> QED BY <2>1 DEF FinishIteration, BooksOK
<1>3. pc' \in Steps
  BY DEF FinishIteration, Steps
<1>4. LocalsOK' /\ HistoryOK'
  <2>1. error' \in {"none", "ZeroDivisionError", "AttributeError"}
    BY DEF FinishIteration, LocalsOK
  <2> QED BY <2>1, ForgetLocalsOK DEF FinishIteration
<1> QED BY <1>1, <1>2, <1>3, <1>4

\* The report: sent, or one of the two exceptions.
LEMMA TypeReport == TypeOK /\ SendReport => TypeOK'
<1> SUFFICES ASSUME TypeOK, SendReport PROVE TypeOK'
  OBVIOUS
<1> USE TraderAssumption DEF TypeOK
<1>1. ExchangeOK' /\ HistoryOK'
  BY DEF SendReport, exchange, history, ExchangeOK, HistoryOK
<1>2. WorldOK'
  <2>1. UNCHANGED world => WorldOK'
    BY DEF world, WorldOK
  <2> QED BY <2>1, FaultOK DEF SendReport
<1>3. BooksOK'
  <2>1. breaker' \in Breakers
    BY BreakersStay DEF SendReport, BooksOK
  <2>2. reportDue' \in BOOLEAN
    BY DEF SendReport, BooksOK
  <2> QED BY <2>1, <2>2 DEF SendReport, BooksOK
<1>4. pc' \in Steps /\ error' \in {"none", "ZeroDivisionError", "AttributeError"}
  BY DEF SendReport, Steps, LocalsOK
<1>5. LocalsOK'
  BY <1>4 DEF SendReport, LocalsOK
<1> QED BY <1>1, <1>2, <1>3, <1>4, <1>5

\* Time passes for the two clocks of the process.
LEMMA PassesOK ==
    ASSUME BooksOK, NEW d \in Nat, NEW b \in Breakers, Passes(d, b)
    PROVE  breaker' \in Breakers /\ tradeAge' \in 0..TradeGap
BY TraderAssumption, BreakersStay DEF Passes, BooksOK, UpTo

\* The error handler forgets the exception and lets some time pass.
LEMMA TypeHandleError == TypeOK /\ HandleError => TypeOK'
<1> SUFFICES ASSUME TypeOK, HandleError PROVE TypeOK'
  OBVIOUS
<1> USE TraderAssumption DEF TypeOK
<1>1. ExchangeOK' /\ WorldOK'
  BY DEF HandleError, exchange, world, ExchangeOK, WorldOK
<1>2. breaker' \in Breakers /\ tradeAge' \in 0..TradeGap
  <2>1. breaker \in Breakers /\ Failed(breaker) \in Breakers
    BY BreakersStay DEF BooksOK
  <2>2. PICK d \in 0..1 : Passes(d, IF MentionsApi(error) THEN Failed(breaker) ELSE breaker)
    BY DEF HandleError
  <2> QED BY <2>1, <2>2, PassesOK
<1>3. BooksOK'
  BY <1>2 DEF HandleError, BooksOK
<1>4. LocalsOK' /\ HistoryOK'
  BY ForgetLocalsOK DEF HandleError
<1>5. pc' \in Steps
  BY DEF HandleError, Steps
<1> QED BY <1>1, <1>3, <1>4, <1>5

\* The sleep lets the clocks advance, up to their bounds.
LEMMA TypeSleep == TypeOK /\ Sleep => TypeOK'
<1> SUFFICES ASSUME TypeOK, Sleep PROVE TypeOK'
  OBVIOUS
<1> USE TraderAssumption DEF TypeOK
<1>1. ExchangeOK' /\ WorldOK' /\ LocalsOK' /\ HistoryOK'
  BY DEF Sleep, exchange, world, locals, history, ExchangeOK, WorldOK, LocalsOK, HistoryOK
<1>2. breaker' \in Breakers /\ tradeAge' \in 0..TradeGap
  <2>1. PICK d \in 1..2 : Passes(d, breaker)
    BY DEF Sleep
  <2> QED BY <2>1, PassesOK DEF BooksOK
<1>3. reportDue' \in BOOLEAN
  BY DEF Sleep, BooksOK
<1>4. BooksOK' /\ pc' \in Steps
  BY <1>2, <1>3 DEF Sleep, BooksOK, Steps
<1> QED BY <1>1, <1>4

\* What happens around the process.
LEMMA TypeRestart == TypeOK /\ Restart => TypeOK'
BY DEF TypeOK, Restart, exchange, world, locals, history, ExchangeOK, WorldOK, BooksOK,
       LocalsOK, HistoryOK, Steps

\* A crash puts the memory of the process back to that of a new one.
LEMMA TypeCrash == TypeOK /\ Crash => TypeOK'
<1> SUFFICES ASSUME TypeOK, Crash PROVE TypeOK'
  OBVIOUS
<1> USE TraderAssumption, BreakerAssumption DEF TypeOK
<1>1. ExchangeOK' /\ WorldOK' /\ pc' \in Steps
  BY DEF Crash, exchange, ExchangeOK, WorldOK, Steps
<1>2. BooksOK'
  <2>1. trades' \in Seq(Trades) /\ zeroBars' \in Seq(BOOLEAN) /\ Len(zeroBars') = 0
    BY EmptySeq DEF Crash
  <2>2. breaker' \in Breakers
    BY BreakersStay DEF Crash
  <2> QED BY <2>1, <2>2 DEF Crash, BooksOK, RecordCap
<1>3. LocalsOK'
  BY DEF Crash, Nothing, NoOrder, LocalsOK
<1>4. HistoryOK'
  BY DEF Crash, NoRecord, HistoryOK
<1> QED BY <1>1, <1>2, <1>3, <1>4

\* The market quotes another price of Prices.
LEMMA TypeMarket == TypeOK /\ MarketMoves => TypeOK'
BY DEF TypeOK, MarketMoves, world, books, locals, history, ExchangeOK, WorldOK, BooksOK,
       LocalsOK, HistoryOK

\* A new day begins.
LEMMA TypeMidnight == TypeOK /\ Midnight => TypeOK'
BY TraderAssumption
   DEF TypeOK, Midnight, exchange, books, locals, ExchangeOK, WorldOK, BooksOK, LocalsOK,
       HistoryOK, PlacedCap

\* An order of the operator stays within the margin.
LEMMA TypeManual == TypeOK /\ ManualOrder => TypeOK'
<1> SUFFICES ASSUME TypeOK, ManualOrder PROVE TypeOK'
  OBVIOUS
<1> USE TraderAssumption DEF TypeOK
<1>1. ExchangeOK'
  <2>1. PICK delta \in {-1, 1} : Abs(pos + delta) <= MaxPosition /\ Filled(delta)
    BY DEF ManualOrder
  <2>2. delta \in Int /\ pos + delta \in -MaxPosition..MaxPosition
    BY <2>1 DEF Abs, ExchangeOK
  <2> QED BY <2>1, <2>2, FilledOK
<1>2. WorldOK'
  BY DEF ManualOrder, WorldOK
<1>3. pc' \in Steps /\ BooksOK' /\ LocalsOK' /\ HistoryOK'
  BY DEF ManualOrder, books, locals, history, BooksOK, LocalsOK, HistoryOK
<1> QED BY <1>1, <1>2, <1>3

\* Nothing happens.
LEMMA TypeStutter == TypeOK /\ UNCHANGED vars => TypeOK'
BY DEF TypeOK, vars, exchange, world, books, locals, history, ExchangeOK, WorldOK, BooksOK,
       LocalsOK, HistoryOK

\* OrderIsEntry holds with the type invariant: only Decide reaches "open".
LEMMA TypeStep == TypeOK /\ OrderIsEntry /\ [Next]_vars => TypeOK' /\ OrderIsEntry'
<1> SUFFICES ASSUME TypeOK, OrderIsEntry, [Next]_vars PROVE TypeOK' /\ OrderIsEntry'
  OBVIOUS
<1>1. CASE BeginIteration
  BY <1>1, TypeBegin DEF BeginIteration, OrderIsEntry
<1>2. CASE ManagePosition
  BY <1>2, TypeManage DEF ManagePosition, OrderIsEntry
<1>3. CASE ReadPosition
  BY <1>3, TypeReadPosition DEF ReadPosition, OrderIsEntry
<1>4. CASE ClosePosition
  BY <1>4, TypeClosePosition DEF ClosePosition, OrderIsEntry
<1>5. CASE Decide
  BY <1>5, TypeDecide DEF Decide, ShouldTrade, OrderIsEntry
<1>6. CASE OpenPosition
  BY <1>6, TypeOpen DEF OpenPosition, NoPriceForOrder, PlaceOrder, OrderIsEntry
<1>7. CASE FinishIteration
  BY <1>7, TypeFinish DEF FinishIteration, OrderIsEntry
<1>8. CASE SendReport
  BY <1>8, TypeReport DEF SendReport, OrderIsEntry
<1>9. CASE HandleError
  BY <1>9, TypeHandleError DEF HandleError, OrderIsEntry
<1>10. CASE Sleep
  BY <1>10, TypeSleep DEF Sleep, OrderIsEntry
<1>11. CASE Restart
  BY <1>11, TypeRestart DEF Restart, OrderIsEntry
<1>12. CASE Crash
  BY <1>12, TypeCrash DEF Crash, OrderIsEntry
<1>13. CASE MarketMoves
  BY <1>13, TypeMarket DEF MarketMoves, locals, OrderIsEntry
<1>14. CASE Midnight
  BY <1>14, TypeMidnight DEF Midnight, locals, OrderIsEntry
<1>15. CASE ManualOrder
  BY <1>15, TypeManual DEF ManualOrder, locals, OrderIsEntry
<1>16. CASE UNCHANGED vars
  BY <1>16, TypeStutter DEF vars, locals, OrderIsEntry
<1> QED BY <1>1, <1>2, <1>3, <1>4, <1>5, <1>6, <1>7, <1>8, <1>9, <1>10, <1>11, <1>12,
           <1>13, <1>14, <1>15, <1>16 DEF Next, Loop

\* Every variable keeps its type for every value of the constants.
THEOREM TypeCorrect == Spec => []TypeOK
<1>1. Init => TypeOK /\ OrderIsEntry
  BY TypeInit DEF Init, OrderIsEntry
<1>2. TypeOK /\ OrderIsEntry /\ [Next]_vars => (TypeOK /\ OrderIsEntry)'
  BY TypeStep
<1> QED BY <1>1, <1>2, PTL DEF Spec
-----------------------------------------------------------------------------
(***************************************************************************)
(* The safety properties: the limit of the books and of the calendar day,  *)
(* the spacing of the entries, the single position, the closed trades that *)
(* are counted and the open one that is held.                              *)
(*                                                                         *)
(* The limit is checked in one step and the trade counted in a later one,  *)
(* after a request to the exchange, so the invariants carry what Decide    *)
(* has seen over to OpenPosition (Ready, Alone), and what midnight leaves  *)
(* behind over to the next iteration (Carried).                            *)
(***************************************************************************)
\* The numbers the invariants compare.
LEMMA Numbers ==
    TypeOK => /\ count \in Nat /\ placed \in Nat /\ day \in Nat /\ lastReset \in Nat
              /\ faults \in Nat /\ restarts \in Nat /\ tradeAge \in Nat
              /\ Len(trades) \in Nat /\ pos \in Int /\ blind \in Nat
              /\ manualOrders \in Nat /\ seen.amount \in Int
BY LenProperties, TraderAssumption
   DEF TypeOK, ExchangeOK, WorldOK, BooksOK, LocalsOK, HistoryOK, PlacedCap

\* Faults are only ever counted up.
LEMMA FaultsGrow ==
    TypeOK /\ (UNCHANGED world \/ \E kind \in FaultKinds : Fault(kind))
        => /\ faults' >= faults /\ faults' \in Nat
           /\ restarts' = restarts /\ day' = day /\ manualOrders' = manualOrders
           /\ blind' >= blind /\ blind' \in Nat
BY DEF Fault, world, TypeOK, WorldOK

\* A step that leaves the counters alone and does not end between the decision and
\* the order preserves the invariant.
LEMMA QuietStep ==
    ASSUME TypeOK, SafetyInv, faults' \in Nat, faults' >= faults,
           UNCHANGED <<count, lastReset, placed, restarts, day>>,
           Len(trades') = Len(trades), pc' \notin {"act", "open"}
    PROVE  SafetyInv'
BY Numbers DEF SafetyInv, DailyLimit, Ready, Dates, Carried

\* A process that has just been started has placed and counted nothing.
LEMMA SafetyInit == Init => SafetyInv
BY TraderAssumption, Numbers, TypeInit
   DEF Init, FreshBooks, SafetyInv, DailyLimit, Ready, Dates, Carried

\* The reset: the day of the books catches up with the calendar.
LEMMA SafetyBegin == TypeOK /\ SafetyInv /\ BeginIteration => SafetyInv'
<1> SUFFICES ASSUME TypeOK, SafetyInv, BeginIteration PROVE SafetyInv'
  OBVIOUS
<1>1. /\ faults' >= faults /\ faults' \in Nat /\ restarts' = restarts /\ day' = day
      /\ placed' = placed /\ pc' # "open" /\ pc = "start"
  BY FaultsGrow DEF BeginIteration, GetStatus, Fault, history
<1>2. CASE day > lastReset
  <2>1. count' = 0 /\ trades' = <<>> /\ lastReset' = day
    BY <1>2 DEF BeginIteration, CheckDailyReset
  <2> QED BY <1>1, <1>2, <2>1, Numbers, TraderAssumption
          DEF SafetyInv, DailyLimit, Ready, Dates, Carried
<1>3. CASE ~(day > lastReset)
  <2>1. UNCHANGED <<count, trades, lastReset>>
    BY <1>3 DEF BeginIteration, CheckDailyReset
  <2> QED BY <1>1, <1>3, <2>1, Numbers
          DEF SafetyInv, DailyLimit, Ready, Dates, Carried
<1> QED BY <1>2, <1>3

\* The decision looks at the count and at the spacing.
LEMMA SafetyDecide == TypeOK /\ SafetyInv /\ Decide => SafetyInv'
<1> SUFFICES ASSUME TypeOK, SafetyInv, Decide PROVE SafetyInv'
  OBVIOUS
<1>1. /\ UNCHANGED <<count, trades, lastReset, placed, faults, restarts, day, tradeAge>>
      /\ pc = "act"
  BY DEF Decide, world, history
<1>2. pc' = "open" => count < MaxDailyTrades /\ tradeAge >= TradeGap
  BY DEF Decide, ShouldTrade
<1>3. pc' # "act"
  BY DEF Decide
<1> QED BY <1>1, <1>2, <1>3, Numbers DEF SafetyInv, DailyLimit, Ready, Dates, Carried

\* The order: what the exchange executes is counted, unless a request fails.
LEMMA SafetyOpen == TypeOK /\ OrderIsEntry /\ SafetyInv /\ OpenPosition => SafetyInv'
<1> SUFFICES ASSUME TypeOK, OrderIsEntry, SafetyInv, OpenPosition PROVE SafetyInv'
  OBVIOUS
<1>1. /\ pc = "open" /\ pc' \notin {"act", "open"} /\ lastReset' = lastReset
      /\ count < MaxDailyTrades
  BY DEF OpenPosition, NoPriceForOrder, PlaceOrder, SafetyInv, Ready
<1>2. CASE Executed /\ Acknowledged /\ UNCHANGED world
  <2>1. count' = count + 1 /\ Len(trades') = Len(trades) + 1
    <3>1. [action |-> order.action, open |-> TRUE] \in Trades
      BY <1>1 DEF OrderIsEntry, Trades
    <3> QED BY <1>2, <3>1, AppendProperties DEF Acknowledged, TypeOK, BooksOK
  <2>2. placed' <= placed + 1 /\ placed' \in Int
    BY <1>2, Numbers, TraderAssumption DEF Executed, UpTo, PlacedCap
  <2>3. UNCHANGED <<faults, restarts, day>>
    BY <1>2 DEF world
  <2> QED BY <1>1, <2>1, <2>2, <2>3, Numbers, TraderAssumption
          DEF SafetyInv, DailyLimit, Ready, Dates, Carried
<1>3. CASE NotAcknowledged /\ (Fault("lost_ack") \/ Fault("refused"))
  <2>1. faults' = faults + 1 /\ UNCHANGED <<restarts, day, count, trades>>
    BY <1>3 DEF Fault, NotAcknowledged
  <2> QED BY <1>1, <2>1, Numbers DEF SafetyInv, DailyLimit, Ready, Dates, Carried
<1>4. CASE NotExecuted /\ NotAcknowledged /\ UNCHANGED world
  BY <1>1, <1>4, Numbers, QuietStep DEF NotExecuted, NotAcknowledged, world
<1>5. CASE NoPriceForOrder
  <2>1. faults' = faults + 1 /\ UNCHANGED <<restarts, day, count, trades, placed>>
    BY <1>5 DEF NoPriceForOrder, Fault, NotExecuted
  <2> QED BY <1>1, <2>1, Numbers, QuietStep
<1> QED BY <1>2, <1>3, <1>4, <1>5 DEF OpenPosition, PlaceOrder

\* The close books a result and opens nothing.
LEMMA SafetyClose == TypeOK /\ SafetyInv /\ (ReadPosition \/ ClosePosition) => SafetyInv'
<1> SUFFICES ASSUME TypeOK, SafetyInv, ReadPosition \/ ClosePosition PROVE SafetyInv'
  OBVIOUS
<1>1. /\ faults' >= faults /\ faults' \in Nat /\ restarts' = restarts /\ day' = day
      /\ pc' \notin {"act", "open"}
  <2>1. pc' \notin {"act", "open"}
    BY DEF ReadPosition, ClosePosition
  <2>2. UNCHANGED world \/ Fault("position") \/ Fault("refused") \/ Fault("lost_ack")
    BY DEF ReadPosition, ClosePosition
  <2> QED BY <2>1, <2>2, FaultsGrow DEF Fault
<1>2. \/ UNCHANGED <<books, history>>
      \/ \E won \in BOOLEAN : RecordTrade(won)
  <2>1. (order.action = "take_profit") \in BOOLEAN
    OBVIOUS
  <2> QED BY <2>1 DEF ReadPosition, ClosePosition
<1>3. CASE UNCHANGED <<books, history>>
  BY <1>1, <1>3, QuietStep DEF books, history
<1>4. CASE \E won \in BOOLEAN : RecordTrade(won)
  <2>1. PICK won \in BOOLEAN : RecordTrade(won)
    BY <1>4
  <2>2. Len(trades') = Len(trades)
    BY <2>1, CloseFirstOpenOK DEF RecordTrade, TypeOK, BooksOK
  <2>3. UNCHANGED <<count, lastReset, placed>>
    BY <2>1 DEF RecordTrade
  <2> QED BY <1>1, <2>2, <2>3, QuietStep
<1> QED BY <1>2, <1>3, <1>4

\* Dashboard, report, errors and sleep leave the counters alone.
LEMMA SafetyQuiet ==
    TypeOK /\ SafetyInv /\ (\/ ManagePosition \/ FinishIteration \/ SendReport
                            \/ HandleError \/ Sleep)
        => SafetyInv'
<1> SUFFICES ASSUME TypeOK, SafetyInv,
                    ManagePosition \/ FinishIteration \/ SendReport \/ HandleError \/ Sleep
             PROVE  SafetyInv'
  OBVIOUS
<1>1. UNCHANGED <<count, trades, lastReset, placed>> /\ pc' \notin {"act", "open"}
  BY DEF ManagePosition, FinishIteration, SendReport, HandleError, Sleep, books, history
<1>2. UNCHANGED world \/ Fault("position")
  BY DEF ManagePosition, FinishIteration, SendReport, HandleError, Sleep
<1>3. faults' >= faults /\ faults' \in Nat /\ restarts' = restarts /\ day' = day
  BY <1>2, FaultsGrow DEF Fault
<1> QED BY <1>1, <1>3, QuietStep

\* A crash forgets the books, and a restart begins new ones on the current day.
LEMMA SafetyCrash == TypeOK /\ SafetyInv /\ (Crash \/ Restart) => SafetyInv'
<1> SUFFICES ASSUME TypeOK, SafetyInv, Crash \/ Restart PROVE SafetyInv'
  OBVIOUS
<1>1. CASE Crash
  <2>1. /\ restarts' = restarts + 1 /\ faults' = faults /\ day' = day /\ placed' = placed
        /\ count' = 0 /\ trades' = <<>> /\ lastReset' = lastReset /\ pc' = "down"
    BY <1>1 DEF Crash
  <2> QED BY <2>1, Numbers, TraderAssumption
          DEF SafetyInv, DailyLimit, Ready, Dates, Carried
<1>2. CASE Restart
  <2>1. /\ UNCHANGED <<count, trades, placed, faults, restarts, day>>
        /\ lastReset' = day /\ pc' = "start"
    BY <1>2 DEF Restart, world, history
  <2> QED BY <2>1, Numbers DEF SafetyInv, DailyLimit, Ready, Dates, Carried
<1> QED BY <1>1, <1>2

\* The world around the process.
LEMMA SafetyWorld ==
    TypeOK /\ SafetyInv /\ (MarketMoves \/ Midnight \/ ManualOrder \/ UNCHANGED vars)
        => SafetyInv'
<1> SUFFICES ASSUME TypeOK, SafetyInv,
                    MarketMoves \/ Midnight \/ ManualOrder \/ UNCHANGED vars
             PROVE  SafetyInv'
  OBVIOUS
<1>1. CASE Midnight
  <2>1. /\ UNCHANGED <<pc, count, trades, lastReset, tradeAge, faults, restarts>>
        /\ day' = day + 1 /\ placed' = 0
    BY <1>1 DEF Midnight, books
  <2> QED BY <2>1, Numbers DEF SafetyInv, DailyLimit, Ready, Dates, Carried
<1>2. CASE MarketMoves \/ ManualOrder \/ UNCHANGED vars
  <2>1. UNCHANGED <<pc, count, trades, lastReset, tradeAge, faults, restarts, day, placed>>
    BY <1>2 DEF MarketMoves, ManualOrder, vars, world, books, history
  <2> QED BY <2>1 DEF SafetyInv, DailyLimit, Ready, Dates, Carried
<1> QED BY <1>1, <1>2
-----------------------------------------------------------------------------
\* The inductive invariant: the types, what the order in hand is, and what is true
\* between the steps of an iteration.
IInv == TypeOK /\ OrderIsEntry /\ SafetyInv

\* The inductive invariant holds for every value of the constants.
THEOREM Invariance == Spec => []IInv
<1>1. Init => IInv
  BY TypeInit, SafetyInit DEF Init, OrderIsEntry, IInv
<1>2. IInv /\ [Next]_vars => IInv'
  BY TypeStep, SafetyBegin, SafetyDecide, SafetyOpen, SafetyClose, SafetyQuiet,
     SafetyCrash, SafetyWorld
  DEF IInv, Next, Loop
<1> QED BY <1>1, <1>2, PTL DEF Spec

\* The books and the gate of the next entry agree and respect the daily limit.
THEOREM BooksRespectLimit == Spec => []DailyLimit
BY Invariance, PTL DEF IInv, SafetyInv

\* Without faults and restarts the exchange never executes more than one order
\* above the limit in a calendar day.
THEOREM DayRespectsLimit == Spec => []CalendarLimit
<1>1. IInv => CalendarLimit
  BY Numbers, TraderAssumption
  DEF IInv, SafetyInv, DailyLimit, Dates, Carried, CalendarLimit
<1> QED BY <1>1, Invariance, PTL

\* Counted entries are at least TradeGap apart.
THEOREM EntriesAreSpaced == Spec => EntrySpacing
<1>1. IInv /\ [Next]_vars => [count' > count => tradeAge >= TradeGap]_vars
  <2> SUFFICES ASSUME IInv, Next, count' > count PROVE tradeAge >= TradeGap
    OBVIOUS
  <2>0. count \in Nat
    BY Numbers DEF IInv
  <2>1. CASE OpenPosition
    BY <2>1 DEF OpenPosition, IInv, SafetyInv, Ready
  <2>2. CASE ~OpenPosition
    <3>1. count' = count \/ count' = 0
      BY <2>2 DEF Next, Loop, BeginIteration, CheckDailyReset, ManagePosition, ReadPosition,
         ClosePosition, RecordTrade, Decide, FinishIteration, SendReport, HandleError, Sleep,
         Restart, Crash, MarketMoves, Midnight, ManualOrder, books
    <3> QED BY <2>0, <3>1
  <2> QED BY <2>1, <2>2
<1> QED BY <1>1, Invariance, PTL DEF Spec, EntrySpacing
-----------------------------------------------------------------------------
(* One position.                                                           *)

\* The account holds at most one order when the bot first starts.
InheritsOneOrder == \A p \in Inherited : Abs(p) <= 1

\* The account starts with at most one order.
LEMMA AloneInit == InheritsOneOrder /\ Init => Alone
BY TraderAssumption DEF Init, Alone, InheritsOneOrder, Abs

\* What the bot reads as flat is flat unless the request failed.
LEMMA AloneBegin == TypeOK /\ Alone /\ BeginIteration => Alone'
<1> SUFFICES ASSUME TypeOK, Alone, BeginIteration PROVE Alone'
  OBVIOUS
<1>1. pos' = pos /\ pos \in Int /\ blind \in Nat /\ pc' # "open"
  BY Numbers DEF BeginIteration, exchange
<1>2. CASE seen'.amount = pos /\ (UNCHANGED world \/ Fault("price"))
  <2>1. blind' >= blind /\ blind' \in Nat /\ manualOrders' = manualOrders
    BY <1>2, FaultsGrow DEF Fault
  <2>2. ASSUME manualOrders = 0 PROVE Abs(pos) <= 1 + blind
    BY <2>2 DEF Alone
  <2>3. ASSUME seen'.amount = 0 PROVE Abs(pos) = 0
    BY <1>2, <2>3 DEF Abs
  <2>4. Abs(pos) \in Int /\ Abs(pos') = Abs(pos)
    BY <1>1 DEF Abs
  <2> HIDE DEF Abs
  <2> QED BY <1>1, <2>1, <2>2, <2>3, <2>4 DEF Alone
<1>3. CASE Fault("position") \/ Fault("outage")
  <2>1. blind' = blind + 1 /\ manualOrders' = manualOrders
    BY <1>3 DEF Fault
  <2> QED BY <1>1, <2>1 DEF Alone, Abs
<1> QED BY <1>2, <1>3 DEF BeginIteration, GetStatus

\* The order is placed on the position the decision has seen.
LEMMA AloneOpen == TypeOK /\ OrderIsEntry /\ Alone /\ OpenPosition => Alone'
<1> SUFFICES ASSUME TypeOK, OrderIsEntry, Alone, OpenPosition, manualOrders' = 0
             PROVE  Alone'
  BY DEF Alone
<1>1. pos \in Int /\ blind \in Nat /\ pc = "open" /\ pc' \notin {"act", "open"}
  BY Numbers DEF OpenPosition, NoPriceForOrder, PlaceOrder
<1>2. blind' >= blind /\ blind' \in Nat /\ manualOrders' = manualOrders
  <2>1. UNCHANGED world \/ \E kind \in FaultKinds : Fault(kind)
    BY DEF OpenPosition, NoPriceForOrder, PlaceOrder, Fault
  <2> QED BY <2>1, FaultsGrow
<1>3. Abs(pos) <= blind
  BY <1>1, <1>2 DEF Alone
<1>4. pos' = pos \/ pos' = pos + Direction(order.action)
  BY DEF OpenPosition, NoPriceForOrder, PlaceOrder, Executed, NotExecuted, Filled, exchange
<1>5. Direction(order.action) \in {-1, 1}
  BY DEF Direction
<1> QED BY <1>1, <1>2, <1>3, <1>4, <1>5 DEF Alone, Abs

\* A close only ever reduces.
LEMMA AloneClose == TypeOK /\ Alone /\ ClosePosition => Alone'
<1> SUFFICES ASSUME TypeOK, Alone, ClosePosition PROVE Alone'
  OBVIOUS
<1>1. pos \in Int /\ blind \in Nat /\ order.quantity \in Int /\ pc' \notin {"act", "open"}
  BY Numbers, TraderAssumption DEF ClosePosition, TypeOK, LocalsOK
<1>2. blind' >= blind /\ blind' \in Nat /\ manualOrders' = manualOrders
  BY FaultsGrow DEF ClosePosition, Fault
<1>3. Abs(pos') <= Abs(pos) /\ pos' \in Int
  <2>1. UNCHANGED exchange \/ ReduceOnly(order.quantity)
    BY DEF ClosePosition
  <2>2. UNCHANGED exchange => pos' = pos
    BY DEF exchange
  <2>3. ReduceOnly(order.quantity) => Abs(pos') <= Abs(pos) /\ pos' \in Int
    BY <1>1, ReduceOnlyOK DEF TypeOK, ExchangeOK
  <2>4. UNCHANGED exchange => Abs(pos') <= Abs(pos) /\ pos' \in Int
    BY <1>1, <2>2 DEF Abs
  <2> QED BY <2>1, <2>3, <2>4
<1>4. ASSUME manualOrders = 0 PROVE Abs(pos) <= 1 + blind
  BY <1>4 DEF Alone
<1>5. Abs(pos) \in Int /\ Abs(pos') \in Int
  BY <1>1, <1>3 DEF Abs
<1> HIDE DEF Abs
<1> QED BY <1>1, <1>2, <1>3, <1>4, <1>5 DEF Alone

\* No other step of the process, and nothing but an order of the operator around
\* it, changes the position.
LEMMA AloneStep == TypeOK /\ OrderIsEntry /\ Alone /\ [Next]_vars => Alone'
<1> SUFFICES ASSUME TypeOK, OrderIsEntry, Alone, [Next]_vars PROVE Alone'
  OBVIOUS
<1>1. CASE Decide
  BY <1>1, Numbers DEF Decide, exchange, world, Alone
<1>2. CASE ManagePosition \/ ReadPosition \/ FinishIteration \/ SendReport
           \/ HandleError \/ Sleep \/ Restart \/ Crash
  <2>1. pos' = pos /\ pc' \notin {"act", "open"}
    BY <1>2 DEF ManagePosition, ReadPosition, FinishIteration, SendReport, HandleError, Sleep,
                Restart, Crash, exchange
  <2>2. \/ UNCHANGED <<blind, manualOrders>>
        \/ Fault("position")
    BY <1>2 DEF ManagePosition, ReadPosition, FinishIteration, SendReport, HandleError, Sleep,
                Restart, Crash, world
  <2>3. blind' >= blind /\ manualOrders' = manualOrders
    BY <2>2, Numbers DEF Fault
  <2>4. blind' \in Int
    BY <2>2, Numbers DEF Fault
  <2> QED BY <2>1, <2>3, <2>4, Numbers DEF Alone, Abs
<1>3. CASE MarketMoves \/ Midnight \/ UNCHANGED vars
  BY <1>3 DEF MarketMoves, Midnight, vars, exchange, world, locals, Alone
<1>4. CASE ManualOrder
  <2>1. manualOrders' # 0
    BY <1>4, Numbers DEF ManualOrder
  <2> QED BY <2>1 DEF Alone
<1> QED BY <1>1, <1>2, <1>3, <1>4, AloneBegin, AloneOpen, AloneClose DEF Next, Loop

\* The bot never holds more than one order plus one for each position that a
\* failed request hid from it, if the account started with at most one.
THEOREM HoldsOnePosition ==
    ASSUME InheritsOneOrder
    PROVE  Spec => []OnePosition
<1>1. Init => Alone
  BY AloneInit
<1>2. IInv /\ Alone /\ [Next]_vars => Alone'
  BY AloneStep DEF IInv
<1>3. Alone => OnePosition
  BY DEF Alone, OnePosition
<1> QED BY <1>1, <1>2, <1>3, Invariance, PTL DEF Spec
-----------------------------------------------------------------------------
(* The list of trades against the account and against the results.         *)

\* The first open trade, and no other, is marked closed.
LEMMA ClosesFirst ==
    ASSUME NEW ts \in Seq(Trades)
    PROVE  /\ OpenTrades(CloseFirstOpen(ts)) = OpenTrades(ts) \ {First(OpenTrades(ts))}
           /\ ClosedTrades(CloseFirstOpen(ts))
                \subseteq ClosedTrades(ts) \cup {First(OpenTrades(ts))}
<1> DEFINE n == First(OpenTrades(ts))
<1> DEFINE after == [ts EXCEPT ![n].open = FALSE]
<1>1. \A i \in DOMAIN ts : ts[i] \in Trades /\ ts[i].open \in BOOLEAN
  <2>1. DOMAIN ts = 1..Len(ts)
    BY LenProperties
  <2>2. \A i \in 1..Len(ts) : ts[i] \in Trades
    BY ElementOfSeq
  <2> QED BY <2>1, <2>2 DEF Trades
<1>2. CASE OpenTrades(ts) = {}
  <2>1. CloseFirstOpen(ts) = ts
    BY <1>2 DEF CloseFirstOpen
  <2> QED BY <1>2, <2>1
<1>3. CASE OpenTrades(ts) # {}
  <2>1. CloseFirstOpen(ts) = after
    BY <1>3 DEF CloseFirstOpen
  <2> HIDE DEF n
  <2>2. DOMAIN after = DOMAIN ts /\ \A i \in DOMAIN ts \ {n} : after[i] = ts[i]
    OBVIOUS
  <2>3. n \in DOMAIN ts => ~after[n].open
    BY <1>1 DEF Trades
  <2> HIDE DEF after
  <2> QED BY <2>1, <2>2, <2>3 DEF OpenTrades, ClosedTrades, n
<1> QED BY <1>2, <1>3

\* The trade of an acknowledged entry is open; the others stay as they are.
LEMMA AppendsOpen ==
    ASSUME NEW ts \in Seq(Trades), NEW action \in Actions
    PROVE  LET longer == Append(ts, [action |-> action, open |-> TRUE])
           IN  /\ OpenTrades(longer) = OpenTrades(ts) \cup {Len(ts) + 1}
               /\ ClosedTrades(longer) = ClosedTrades(ts)
               /\ longer[Len(ts) + 1].action = action
<1> DEFINE new == [action |-> action, open |-> TRUE]
<1>1. new \in Trades /\ new.open /\ new.action = action
  BY DEF Trades
<1> HIDE DEF new
<1> DEFINE longer == Append(ts, new)
<1>2. /\ Len(longer) = Len(ts) + 1 /\ longer[Len(ts) + 1] = new
      /\ \A i \in 1..Len(ts) : longer[i] = ts[i]
      /\ DOMAIN longer = 1..Len(longer) /\ DOMAIN ts = 1..Len(ts) /\ Len(ts) \in Nat
  BY <1>1, AppendProperties, LenProperties
<1> HIDE DEF longer
<1>3. DOMAIN longer = DOMAIN ts \cup {Len(ts) + 1} /\ Len(ts) + 1 \notin DOMAIN ts
  BY <1>2
<1>4. OpenTrades(longer) = OpenTrades(ts) \cup {Len(ts) + 1}
  BY <1>1, <1>2, <1>3 DEF OpenTrades
<1>5. ClosedTrades(longer) = ClosedTrades(ts)
  BY <1>1, <1>2, <1>3 DEF ClosedTrades
<1> QED BY <1>1, <1>2, <1>4, <1>5 DEF longer, new

\* There are no more trades of a kind than trades.
LEMMA FewerThanAll ==
    ASSUME NEW ts \in Seq(Trades)
    PROVE  /\ IsFiniteSet(ClosedTrades(ts))
           /\ Cardinality(ClosedTrades(ts)) \in Nat
           /\ Cardinality(ClosedTrades(ts)) <= Len(ts)
<1>1. Len(ts) \in Nat /\ ClosedTrades(ts) \subseteq 1..Len(ts)
  BY LenProperties DEF ClosedTrades
<1>2. IsFiniteSet(1..Len(ts)) /\ Cardinality(1..Len(ts)) = Len(ts)
  <2>1. /\ IsFiniteSet(1..Len(ts))
        /\ Cardinality(1..Len(ts)) = IF 1 > Len(ts) THEN 0 ELSE Len(ts) - 1 + 1
    <3>1. 1 \in Int /\ Len(ts) \in Int
      BY <1>1
    <3> QED BY <3>1, FS_Interval, Zenon
  <2> QED BY <1>1, <2>1
<1> QED BY <1>1, <1>2, FS_Subset, FS_CardinalityType

\* Marking one more trade closed adds one to them at most.
LEMMA ClosesOneAtMost ==
    ASSUME NEW ts \in Seq(Trades)
    PROVE  Cardinality(ClosedTrades(CloseFirstOpen(ts))) <= Cardinality(ClosedTrades(ts)) + 1
<1> DEFINE more == ClosedTrades(ts) \cup {First(OpenTrades(ts))}
<1>1. IsFiniteSet(ClosedTrades(ts)) /\ Cardinality(ClosedTrades(ts)) \in Nat
  BY FewerThanAll
<1>2. IsFiniteSet(more) /\ Cardinality(more) <= Cardinality(ClosedTrades(ts)) + 1
  <2>1. /\ IsFiniteSet(more)
        /\ \/ Cardinality(more) = Cardinality(ClosedTrades(ts))
           \/ Cardinality(more) = Cardinality(ClosedTrades(ts)) + 1
    BY <1>1, FS_AddElement, Zenon
  <2> QED BY <1>1, <2>1
<1>3. ClosedTrades(CloseFirstOpen(ts)) \subseteq more
  BY ClosesFirst
<1>4. Cardinality(ClosedTrades(CloseFirstOpen(ts))) <= Cardinality(more)
  BY <1>2, <1>3, FS_Subset
<1>5. /\ Cardinality(more) \in Nat
      /\ Cardinality(ClosedTrades(CloseFirstOpen(ts))) \in Nat
  BY <1>2, CloseFirstOpenOK, FewerThanAll, FS_CardinalityType
<1> HIDE DEF more
<1> QED BY <1>1, <1>2, <1>4, <1>5

\* A result is counted for it, unless both counts are full; and then the daily limit
\* leaves fewer trades than they count.
LEMMA CountedRecord ==
    ASSUME TypeOK, DailyLimit, ClosedAreCounted, NEW won \in BOOLEAN, RecordTrade(won)
    PROVE  ClosedAreCounted'
<1> DEFINE closed == Cardinality(ClosedTrades(trades))
<1>1. trades \in Seq(Trades) /\ wins \in 0..RecordCap /\ losses \in 0..RecordCap
  BY DEF TypeOK, BooksOK
<1>2. /\ closed \in Nat /\ closed <= MaxDailyTrades /\ closed <= wins + losses
  BY <1>1, FewerThanAll, TraderAssumption, LenProperties DEF DailyLimit, ClosedAreCounted
<1>3. /\ Cardinality(ClosedTrades(trades')) <= closed + 1
      /\ Cardinality(ClosedTrades(trades')) \in Nat
  BY <1>1, ClosesOneAtMost, FewerThanAll, CloseFirstOpenOK DEF RecordTrade
<1>4. wins' + losses' >= closed + 1 /\ wins' + losses' \in Nat
  <2>1. RecordCap = MaxDailyTrades + 1 /\ MaxDailyTrades \in Nat
    BY TraderAssumption DEF RecordCap
  <2>2. \/ wins' = UpTo(wins + 1, RecordCap) /\ losses' = losses
        \/ losses' = UpTo(losses + 1, RecordCap) /\ wins' = wins
    BY DEF RecordTrade
  <2> HIDE DEF closed
  <2> QED BY <1>1, <1>2, <2>1, <2>2 DEF UpTo
<1>5. ClosedAreCounted' <=> Cardinality(ClosedTrades(trades')) <= wins' + losses'
  BY DEF ClosedAreCounted
<1>6. closed \in Nat
  BY <1>2
<1> HIDE DEF closed
<1> QED BY <1>3, <1>4, <1>5, <1>6

\* Every step keeps the closed trades counted: a reset and a crash forget both sides.
LEMMA CountedStep == IInv /\ ClosedAreCounted /\ [Next]_vars => ClosedAreCounted'
<1> SUFFICES ASSUME TypeOK, OrderIsEntry, DailyLimit, ClosedAreCounted, [Next]_vars
             PROVE  ClosedAreCounted'
  BY DEF IInv, SafetyInv
<1>0. Cardinality(ClosedTrades(<<>>)) = 0
  <2>1. ClosedTrades(<<>>) = {}
    BY DEF ClosedTrades
  <2> QED BY <2>1, FS_EmptySet
<1>1. CASE UNCHANGED <<trades, wins, losses>>
  BY <1>1 DEF ClosedAreCounted
<1>2. CASE trades' = <<>> /\ wins' = 0 /\ losses' = 0
  BY <1>0, <1>2 DEF ClosedAreCounted
<1>3. CASE \E won \in BOOLEAN : RecordTrade(won)
  BY <1>3, CountedRecord
<1>4. CASE OpenPosition
  <2>1. order.action \in Actions /\ trades \in Seq(Trades)
    BY <1>4 DEF OpenPosition, OrderIsEntry, TypeOK, BooksOK
  <2>2. Acknowledged \/ trades' = trades
    BY <1>4 DEF OpenPosition, PlaceOrder, NoPriceForOrder, NotAcknowledged
  <2>3. ClosedTrades(trades') = ClosedTrades(trades)
    BY <2>1, <2>2, AppendsOpen DEF Acknowledged
  <2> QED BY <1>4, <2>3 DEF OpenPosition, ClosedAreCounted
<1>5. CASE BeginIteration
  BY <1>1, <1>2, <1>5 DEF BeginIteration, CheckDailyReset
<1>6. CASE ReadPosition \/ ClosePosition
  <2>1. (order.action = "take_profit") \in BOOLEAN
    OBVIOUS
  <2>2. UNCHANGED books \/ \E won \in BOOLEAN : RecordTrade(won)
    BY <1>6, <2>1 DEF ReadPosition, ClosePosition
  <2> QED BY <1>1, <1>3, <2>2 DEF books
<1>7. CASE ManagePosition \/ Decide \/ FinishIteration \/ SendReport \/ HandleError \/ Sleep
           \/ Restart \/ MarketMoves \/ Midnight \/ ManualOrder \/ UNCHANGED vars
  BY <1>1, <1>7 DEF ManagePosition, Decide, FinishIteration, SendReport, HandleError, Sleep,
                    Restart, MarketMoves, Midnight, ManualOrder, vars, books
<1>8. CASE Crash
  BY <1>2, <1>8 DEF Crash
<1> QED BY <1>4, <1>5, <1>6, <1>7, <1>8 DEF Next, Loop

\* A closed trade was counted as a win or a loss, in every list the daily reset, the
\* failed closes and the crashes leave.
THEOREM EveryCloseIsCounted == Spec => []ClosedAreCounted
<1>1. Init => ClosedAreCounted
  <2>1. ClosedTrades(<<>>) = {}
    BY DEF ClosedTrades
  <2>2. Cardinality(ClosedTrades(<<>>)) = 0
    BY <2>1, FS_EmptySet
  <2>3. Init => trades = <<>> /\ wins = 0 /\ losses = 0
    BY DEF Init, FreshBooks
  <2> QED BY <2>2, <2>3 DEF ClosedAreCounted
<1> QED BY <1>1, CountedStep, Invariance, PTL DEF Spec

-----------------------------------------------------------------------------
\* The list and the account, for what the account does in one step.
LEMMA HeldUnlessMoved ==
    ASSUME OpenTradeIsHeld, pos' = pos, trades' = trades \/ trades' = <<>>,
           manualOrders' = 0 /\ blind' = 0 => manualOrders = 0 /\ blind = 0
    PROVE  OpenTradeIsHeld'
<1>1. OpenTrades(<<>>) = {}
  BY DEF OpenTrades
<1> QED BY <1>1 DEF OpenTradeIsHeld

\* A booked close leaves no trade open, because there was at most one.
LEMMA HeldAfterRecord ==
    ASSUME TypeOK, OpenTradeIsHeld, trades' = CloseFirstOpen(trades),
           manualOrders' = 0 /\ blind' = 0 => manualOrders = 0 /\ blind = 0
    PROVE  OpenTradeIsHeld'
<1> SUFFICES ASSUME manualOrders = 0, blind = 0 PROVE OpenTrades(trades') = {}
  BY DEF OpenTradeIsHeld
<1>1. trades \in Seq(Trades)
  BY DEF TypeOK, BooksOK
<1>2. OpenTrades(trades') = OpenTrades(trades) \ {First(OpenTrades(trades))}
  BY <1>1, ClosesFirst
<1>3. ASSUME NEW i \in OpenTrades(trades) PROVE First(OpenTrades(trades)) = i
  <2>1. OpenTrades(trades) = {i} /\ i \in Int
    BY <1>1, <1>3, LenProperties DEF OpenTradeIsHeld, OpenTrades
  <2> QED BY <2>1 DEF First
<1> QED BY <1>2, <1>3

\* The order is placed on a flat account: no open trade can be there, and the new one
\* is on the side the exchange has executed.
LEMMA HeldAfterOpen ==
    TypeOK /\ OrderIsEntry /\ Alone /\ OpenTradeIsHeld /\ OpenPosition => OpenTradeIsHeld'
<1> SUFFICES ASSUME TypeOK, OrderIsEntry, Alone, OpenTradeIsHeld, OpenPosition,
                    manualOrders' = 0, blind' = 0
             PROVE  OpenTradeIsHeld'
  BY DEF OpenTradeIsHeld
<1>1. pc = "open" /\ order.action \in Actions /\ trades \in Seq(Trades) /\ pos \in Int
  BY Numbers DEF OpenPosition, OrderIsEntry, TypeOK, BooksOK
<1>2. manualOrders = 0 /\ blind = 0
  <2>1. UNCHANGED world \/ \E kind \in FaultKinds : Fault(kind)
    BY DEF OpenPosition, NoPriceForOrder, PlaceOrder, Fault
  <2> QED BY <2>1, FaultsGrow, Numbers
<1>3. pos = 0
  BY <1>1, <1>2 DEF Alone, Abs
<1>4. OpenTrades(trades) = {}
  <2>1. ASSUME NEW i \in OpenTrades(trades) PROVE FALSE
    <3>1. Sign(pos) = Direction(trades[i].action)
      BY <1>2 DEF OpenTradeIsHeld
    <3> QED BY <1>3, <3>1 DEF Sign, Direction
  <2> QED BY <2>1
<1>5. CASE Executed /\ Acknowledged
  <2>1. pos' = Direction(order.action)
    BY <1>3, <1>5 DEF Executed, Filled, Direction
  <2>2. /\ OpenTrades(trades') = {Len(trades) + 1}
        /\ trades'[Len(trades) + 1].action = order.action
    BY <1>1, <1>4, <1>5, AppendsOpen DEF Acknowledged
  <2>3. Sign(pos') = Direction(order.action)
    BY <2>1 DEF Sign, Direction
  <2> QED BY <2>2, <2>3 DEF OpenTradeIsHeld
<1>6. CASE trades' = trades
  BY <1>4, <1>6 DEF OpenTradeIsHeld
<1> QED BY <1>5, <1>6 DEF OpenPosition, NoPriceForOrder, PlaceOrder, NotAcknowledged

\* Every step keeps the open trade on the account.
LEMMA HeldStep == IInv /\ Alone /\ OpenTradeIsHeld /\ [Next]_vars => OpenTradeIsHeld'
<1> SUFFICES ASSUME TypeOK, OrderIsEntry, Alone, OpenTradeIsHeld, [Next]_vars
             PROVE  OpenTradeIsHeld'
  BY DEF IInv
<1>1. manualOrders \in Nat /\ blind \in Nat
  BY Numbers
<1>2. CASE OpenPosition
  BY <1>2, HeldAfterOpen
<1>3. CASE ReadPosition \/ ClosePosition
  <2>1. UNCHANGED world \/ \E kind \in FaultKinds : Fault(kind)
    BY <1>3 DEF ReadPosition, ClosePosition, Fault
  <2>2. manualOrders' = 0 /\ blind' = 0 => manualOrders = 0 /\ blind = 0
    BY <1>1, <2>1, FaultsGrow
  <2>3. \/ trades' = CloseFirstOpen(trades)
        \/ trades' = trades /\ pos' = pos
    <3>1. \A won : RecordTrade(won) => trades' = CloseFirstOpen(trades)
      BY DEF RecordTrade
    <3>2. CASE ReadPosition
      <4>1. pos' = pos
        BY <3>2 DEF ReadPosition, exchange
      <4>2. UNCHANGED books \/ RecordTrade(order.action = "take_profit")
        BY <3>2 DEF ReadPosition
      <4> QED BY <3>1, <4>1, <4>2 DEF books
    <3>3. CASE ClosePosition
      BY <3>1, <3>3 DEF ClosePosition
    <3> QED BY <1>3, <3>2, <3>3
  <2> QED BY <2>2, <2>3, HeldAfterRecord, HeldUnlessMoved
<1>4. CASE BeginIteration \/ ManagePosition \/ Decide \/ FinishIteration \/ SendReport
           \/ HandleError \/ Sleep \/ Restart \/ Crash
  <2>1. UNCHANGED <<blind, manualOrders>> \/ \E kind \in FaultKinds : Fault(kind)
    BY <1>4 DEF BeginIteration, GetStatus, ManagePosition, Decide, FinishIteration, SendReport,
                HandleError, Sleep, Restart, Crash, world, Fault
  <2>2. manualOrders' = 0 /\ blind' = 0 => manualOrders = 0 /\ blind = 0
    BY <1>1, <2>1, FaultsGrow
  <2>3. pos' = pos /\ (trades' = trades \/ trades' = <<>>)
    BY <1>4 DEF BeginIteration, CheckDailyReset, ManagePosition, Decide, FinishIteration,
                SendReport, HandleError, Sleep, Restart, Crash, books, exchange
  <2> QED BY <2>2, <2>3, HeldUnlessMoved
<1>5. CASE MarketMoves \/ Midnight \/ UNCHANGED vars
  BY <1>5, HeldUnlessMoved DEF MarketMoves, Midnight, vars, exchange, world, books
<1>6. CASE ManualOrder
  <2>1. manualOrders' # 0
    BY <1>1, <1>6 DEF ManualOrder
  <2> QED BY <2>1 DEF OpenTradeIsHeld
<1> QED BY <1>2, <1>3, <1>4, <1>5, <1>6 DEF Next, Loop

\* While nobody else trades on the account and every position was read, the trade the
\* books show as open is the only one and is held on the side they say.
THEOREM OpenTradesAreHeld ==
    ASSUME InheritsOneOrder
    PROVE  Spec => []OpenTradeIsHeld
<1>1. Init => Alone /\ OpenTradeIsHeld
  <2>1. OpenTrades(<<>>) = {}
    BY DEF OpenTrades
  <2> QED BY <2>1, AloneInit DEF Init, FreshBooks, OpenTradeIsHeld
<1>2. IInv /\ Alone /\ OpenTradeIsHeld /\ [Next]_vars => (Alone /\ OpenTradeIsHeld)'
  BY AloneStep, HeldStep DEF IInv
<1> QED BY <1>1, <1>2, Invariance, PTL DEF Spec
=============================================================================
