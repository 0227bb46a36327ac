-------------------------- MODULE AutonomousTrader --------------------------
(***************************************************************************)
(* The trading process (autonomous_trading.py), the Binance Futures        *)
(* account it trades on, and the people and failures around it.            *)
(*                                                                         *)
(* The process is one thread: an iteration of trading_loop reads the       *)
(* account, then either manages the position it saw or decides whether to  *)
(* open one, then writes the dashboard, sometimes sends the report, and    *)
(* sleeps.  Every request to the exchange is a step of its own, because    *)
(* the market, the operator (who trades on the same account through the    *)
(* Telegram bot, in another process), midnight and a crash can come        *)
(* between two of them, and because each one can fail.                     *)
(*                                                                         *)
(* The account outlives the process.  Everything else is in its memory.    *)
(*                                                                         *)
(* Amounts are in units of one order (5% of the balance).  One tick of     *)
(* time is the 30 seconds of check_interval.  What the signal modules      *)
(* compute is left open: any action with any confidence.                   *)
(***************************************************************************)
EXTENDS BreakerState, Sequences, FiniteSets

CONSTANTS
    MaxDailyTrades,   \* self.max_daily_trades
    TradeGap,         \* ticks between two entries (60 s)
    StopLossPct,      \* percent
    TakeProfitPct,    \* percent
    Window,           \* bars the regime and the volatility look back on (20)
    Prices,           \* what the market can quote
    Inherited,        \* positions the account may hold when the bot first starts
    FaultKinds,       \* which requests may fail
    \* Bounds on what surrounds the process.
    MaxPosition,      \* units the margin allows
    MaxFaults, MaxRestarts, MaxDays, MaxManualOrders

ASSUME TraderAssumption ==
    /\ MaxDailyTrades \in Nat \ {0}
    /\ TradeGap \in Nat
    /\ StopLossPct \in Nat /\ TakeProfitPct \in Nat
    /\ Window \in Nat \ {0}
    /\ Prices \subseteq Nat \ {0} /\ Prices # {}
    /\ MaxPosition \in Nat
    /\ Inherited \subseteq -MaxPosition..MaxPosition
    /\ FaultKinds \subseteq {"position", "price", "outage", "refused", "lost_ack"}
    /\ MaxFaults \in Nat /\ MaxRestarts \in Nat
    /\ MaxDays \in Nat /\ MaxManualOrders \in Nat

VARIABLES
    \* the exchange
    market,       \* the price
    pos,          \* net position of the account: > 0 long, < 0 short
    entry,        \* its average entry price, 0 when flat
    \* the world
    day, faults, restarts, manualOrders,
    blind,        \* how many of the faults hid the position from the process
    \* the process
    pc,           \* where in the loop it is; "down" when it does not run
    count,        \* self.daily_trade_count
    trades,       \* self.daily_trades
    wins, losses, \* self.daily_wins, self.daily_losses
    lastReset,    \* self.last_reset_date
    tradeAge,     \* ticks since self.last_trade_time, saturating at TradeGap
    zeroBars,     \* the latest bars of price_history: was the price read as 0?
    breaker,      \* self.circuit_breaker.order_circuit
    reportDue,    \* report_interval has passed since last_report_time
    seen,         \* locals of trading_loop: what get_status returned
    order,        \* locals: the action being carried out, and its quantity
    error,        \* the exception caught by start()
    \* history
    placed,       \* entries the exchange executed for the bot since midnight
    lastRecord    \* what the latest _record_trade of this iteration did

exchange == <<market, pos, entry>>
world    == <<day, faults, restarts, manualOrders, blind>>
books    == <<count, trades, wins, losses, lastReset, tradeAge, zeroBars,
              breaker, reportDue>>
locals   == <<seen, order, error>>
history  == <<placed, lastRecord>>
vars     == <<exchange, world, pc, books, locals, history>>
-----------------------------------------------------------------------------
Actions == {"buy", "sell"}

Steps == {"start", "act", "open", "read_position", "close", "tail",
          "report", "sleep", "error", "down"}

\* The quantities that saturate, and where.
RecordCap == MaxDailyTrades + 1
PlacedCap == MaxDailyTrades + 2
UpTo(n, cap) == IF n < cap THEN n ELSE cap

Sign(n) == IF n > 0 THEN 1 ELSE IF n < 0 THEN -1 ELSE 0
Abs(n) == IF n < 0 THEN -n ELSE n

Nothing == [amount |-> 0, entry |-> 0, price |-> 0]
NoOrder == [action |-> "none", quantity |-> 0]
NoRecord == [done |-> FALSE, fed |-> "none", own |-> "none"]

\* (price - entry) / entry, in percent, compared with a bound.
PnlAtMost(price, base, pct)  == (price - base) * 100 <= pct * base
PnlAtLeast(price, base, pct) == (price - base) * 100 >= pct * base

\* An executed order of one net unit: the account averages, nets or flips.
Filled(delta) ==
    LET after == pos + delta IN
    /\ pos' = after
    /\ entry' = IF after = 0 THEN 0
                ELSE IF pos = 0 \/ Sign(after) # Sign(pos) THEN market
                ELSE IF Sign(delta) = Sign(pos)
                     THEN (Abs(pos) * entry + market) \div Abs(after)
                ELSE entry
    /\ UNCHANGED market

Fault(kind) == /\ kind \in FaultKinds
               /\ faults < MaxFaults
               /\ faults' = faults + 1
               /\ blind' = blind + (IF kind \in {"position", "outage"} THEN 1 ELSE 0)
               /\ UNCHANGED <<day, restarts, manualOrders>>

Direction(action) == IF action = "buy" THEN 1 ELSE -1
-----------------------------------------------------------------------------
\* A process that has just been started (__init__, initialize): no trades, no
\* last trade, a report due at once because last_report_time is 0.
FreshBooks(today) ==
    /\ count = 0 /\ trades = <<>> /\ wins = 0 /\ losses = 0
    /\ lastReset = today
    /\ tradeAge = TradeGap
    /\ zeroBars = <<>>
    /\ breaker = Closed
    /\ reportDue = TRUE

Init ==
    /\ market \in Prices
    /\ pos \in Inherited
    /\ entry = IF pos = 0 THEN 0 ELSE market
    /\ day = 0 /\ faults = 0 /\ restarts = 0 /\ manualOrders = 0 /\ blind = 0
    /\ pc = "start"
    /\ FreshBooks(0)
    /\ seen = Nothing /\ order = NoOrder /\ error = "none"
    /\ placed = 0 /\ lastRecord = NoRecord
-----------------------------------------------------------------------------
(* The iteration of trading_loop.                                          *)

\* Mutants of CheckDailyReset: last_reset_date is not advanced; the trade list is
\* not emptied.
ResetForgetsDate ==
    /\ IF day > lastReset
       THEN count' = 0 /\ trades' = <<>> /\ wins' = 0 /\ losses' = 0
       ELSE UNCHANGED <<count, trades, wins, losses>>
    /\ UNCHANGED lastReset

ResetKeepsTrades ==
    IF day > lastReset
    THEN count' = 0 /\ wins' = 0 /\ losses' = 0 /\ lastReset' = day /\ UNCHANGED trades
    ELSE UNCHANGED <<count, trades, wins, losses, lastReset>>

\* _check_daily_reset.  The trade list is emptied too, open trades included.
CheckDailyReset ==
    IF day > lastReset
    THEN /\ count' = 0 /\ trades' = <<>> /\ wins' = 0 /\ losses' = 0
         /\ lastReset' = day
    ELSE UNCHANGED <<count, trades, wins, losses, lastReset>>

\* Mutant of GetStatus: the bot believes its own list of trades.
StatusFromBooks ==
    LET open == {i \in DOMAIN trades : trades[i].open} IN
    /\ seen' = [amount |-> IF open = {} THEN 0
                           ELSE Direction(trades[CHOOSE i \in open : TRUE].action),
                entry |-> entry, price |-> market]
    /\ UNCHANGED world

\* get_status: a position that cannot be read is None, and trading_loop takes
\* that for "flat"; a price that cannot be read is 0.0; an outage hits both.
GetStatus ==
    \/ /\ seen' = [amount |-> pos, entry |-> entry, price |-> market]
       /\ UNCHANGED world
    \/ /\ Fault("position")
       /\ seen' = [Nothing EXCEPT !.price = market]
    \/ /\ Fault("price")
       /\ seen' = [amount |-> pos, entry |-> entry, price |-> 0]
    \/ /\ Fault("outage")
       /\ seen' = Nothing

\* Mutant of Remembered: a full history keeps its oldest bars.
RememberedOldest(bars, bar) ==
    IF Len(bars) < 2 * Window - 1 THEN Append(bars, bar) ELSE bars

\* price_history.append(price).  The detector starts to be fed when Window bars
\* are there, so its own window is full after 2 * Window - 1 of them.
Remembered(bars, bar) ==
    LET longer == Append(bars, bar) IN
    IF Len(longer) < 2 * Window THEN longer ELSE Tail(longer)

\* _estimate_regime_simple divides by the oldest price of its window, and nothing on
\* the way up to start() catches the ZeroDivisionError.  The ensemble feeds the same
\* detector up to twice in a bar, when it has a price: j bars later a price of 0 is
\* followed by j to 3j - 1 others, and this bar fails if they are Window - 1.
RegimeFails(bars) ==
    \E j \in 0 .. Window - 1 :
        /\ j = Window - 1 \/ Window <= 3 * j
        /\ Len(bars) - j >= Window
        /\ bars[Len(bars) - j]

\* _calculate_volatility divides by every price of its window but the latest.
VolatilityFails(bars) ==
    /\ Len(bars) >= Window
    /\ \E i \in Len(bars) - Window + 1 .. Len(bars) - 1 : bars[i]

BeginIteration ==
    /\ pc = "start"
    /\ CheckDailyReset
    /\ GetStatus
    /\ zeroBars' = Remembered(zeroBars, seen'.price = 0)
    /\ \/ RegimeFails(zeroBars') /\ pc' = "error" /\ error' = "ZeroDivisionError"
       \/ pc' = "act" /\ UNCHANGED error
    /\ UNCHANGED <<exchange, tradeAge, breaker, reportDue, order, history>>

\* _manage_position: the same formula for long and short positions.
StopLoss   == PnlAtMost(seen.price, seen.entry, -StopLossPct)
TakeProfit == ~StopLoss /\ PnlAtLeast(seen.price, seen.entry, TakeProfitPct)

ManagePosition ==
    /\ pc = "act"
    /\ seen.amount # 0
    /\ IF StopLoss \/ TakeProfit
       THEN /\ order' = [action |-> IF StopLoss THEN "stop_loss" ELSE "take_profit",
                         quantity |-> 0]
            /\ pc' = "read_position"
       ELSE pc' = "tail" /\ UNCHANGED order
    /\ UNCHANGED <<exchange, world, books, seen, error, history>>
\* _record_trade: one more win or loss, the first open trade of the day is
\* marked closed, and the learning modules are fed the action of the first trade
\* of the day that is closed by then.
OpenTrades(ts)   == {i \in DOMAIN ts : ts[i].open}
ClosedTrades(ts) == {i \in DOMAIN ts : ~ts[i].open}
First(indices)   == CHOOSE i \in indices : \A j \in indices : i <= j

CloseFirstOpen(ts) ==
    IF OpenTrades(ts) = {} THEN ts ELSE [ts EXCEPT ![First(OpenTrades(ts))].open = FALSE]

OriginalAction(ts) ==
    IF ClosedTrades(ts) = {} THEN "hold" ELSE ts[First(ClosedTrades(ts))].action

OwnAction(ts) ==
    IF OpenTrades(ts) = {} THEN "none" ELSE ts[First(OpenTrades(ts))].action

RecordTrade(won) ==
    /\ IF won THEN wins' = UpTo(wins + 1, RecordCap) /\ UNCHANGED losses
              ELSE losses' = UpTo(losses + 1, RecordCap) /\ UNCHANGED wins
    /\ trades' = CloseFirstOpen(trades)
    /\ lastRecord' = [done |-> TRUE, fed |-> OriginalAction(trades'), own |-> OwnAction(trades)]
    /\ UNCHANGED <<count, lastReset, tradeAge, zeroBars, breaker, reportDue, placed>>

\* close_position first asks for the position.  An unreadable or flat one ends
\* the call with a message; _manage_position records the trade all the same.
ReadPosition ==
    /\ pc = "read_position"
    /\ \/ /\ pos # 0
          /\ order' = [order EXCEPT !.quantity = pos]
          /\ pc' = "close"
          /\ UNCHANGED <<world, books, history>>
       \/ /\ pos = 0
          /\ RecordTrade(order.action = "take_profit")
          /\ pc' = "tail"
          /\ UNCHANGED <<world, order>>
       \/ /\ Fault("position")
          /\ RecordTrade(order.action = "take_profit")
          /\ pc' = "tail"
          /\ UNCHANGED order
    /\ UNCHANGED <<exchange, seen, error>>

\* The reduce-only order of close_position: it can shrink the position it was
\* meant for, never open one.  The caller looks at no result.
ReduceOnly(quantity) ==
    IF Sign(pos) = Sign(quantity)
    THEN Filled(IF Abs(quantity) < Abs(pos) THEN -quantity ELSE -pos)
    ELSE UNCHANGED exchange

ClosePosition ==
    /\ pc = "close"
    /\ \/ ReduceOnly(order.quantity) /\ UNCHANGED world
       \/ Fault("refused") /\ UNCHANGED exchange
       \/ Fault("lost_ack") /\ ReduceOnly(order.quantity)
    /\ RecordTrade(order.action = "take_profit")
    /\ pc' = "tail"
    /\ UNCHANGED <<seen, order, error>>

\* Mutants of ShouldTrade: the limit is off by one; the spacing is not looked at.
ShouldTradeOnceMore(action, confident) ==
    /\ count <= MaxDailyTrades
    /\ Permits(breaker) /\ confident /\ tradeAge >= TradeGap
    /\ action \in Actions

ShouldTradeAtOnce(action, confident) ==
    /\ count < MaxDailyTrades
    /\ Permits(breaker) /\ confident
    /\ action \in Actions

\* _should_trade.  health_ok is always true, because HealthMonitor has no method
\* check() and trading_loop swallows the AttributeError; check_risk is given no
\* positions, no peak and an empty trade history and allows everything.
\* check_order_allowed is reached, and may half-open the breaker, only below the
\* daily limit.
ShouldTrade(action, confident) ==
    /\ count < MaxDailyTrades
    /\ Permits(breaker)
    /\ confident
    /\ tradeAge >= TradeGap
    /\ action \in Actions

Decide ==
    /\ pc = "act"
    /\ seen.amount = 0
    /\ breaker' = IF count < MaxDailyTrades THEN Asked(breaker) ELSE breaker
    /\ \E action \in Actions \cup {"hold"}, confident \in BOOLEAN :
          IF ShouldTrade(action, confident)
          THEN order' = [action |-> action, quantity |-> 1] /\ pc' = "open"
          ELSE pc' = "tail" /\ UNCHANGED order
    /\ UNCHANGED <<exchange, world, count, trades, wins, losses, lastReset, tradeAge,
                   zeroBars, reportDue, seen, error, history>>

\* _open_position with open_long / open_short and place_order.  The entry counts
\* only if the answer arrives; a lost answer and a refusal look alike.
Acknowledged ==
    /\ count' = count + 1
    /\ trades' = Append(trades, [action |-> order.action, open |-> TRUE])
    /\ tradeAge' = 0

\* Mutant of NotAcknowledged: the answer is not looked at, as in _manage_position.
TakenForExecuted ==
    /\ count' = count + 1
    /\ trades' = Append(trades, [action |-> order.action, open |-> TRUE])
    /\ tradeAge' = 0

NotAcknowledged == UNCHANGED <<count, trades, tradeAge>>

Executed ==
    /\ Abs(pos + Direction(order.action)) <= MaxPosition
    /\ Filled(Direction(order.action))
    /\ placed' = UpTo(placed + 1, PlacedCap)

NotExecuted == UNCHANGED <<exchange, placed>>

NoPriceForOrder ==  \* get_price() = 0.0: position_value / price raises
    /\ Fault("price")
    /\ NotExecuted
    /\ error' = "ZeroDivisionError"
    /\ pc' = "error"
    /\ UNCHANGED <<count, trades, tradeAge>>

PlaceOrder ==
    /\ \/ Executed /\ Acknowledged /\ UNCHANGED world
       \/ Executed /\ NotAcknowledged /\ Fault("lost_ack")
       \/ NotExecuted /\ NotAcknowledged /\ Fault("refused")
       \/ /\ Abs(pos + Direction(order.action)) > MaxPosition
          /\ NotExecuted /\ NotAcknowledged /\ UNCHANGED world
    /\ pc' = "tail"
    /\ UNCHANGED error

OpenPosition ==
    /\ pc = "open"
    /\ NoPriceForOrder \/ PlaceOrder
    /\ UNCHANGED <<wins, losses, lastReset, zeroBars, breaker, reportDue,
                   seen, order, lastRecord>>
\* The locals of trading_loop go out of scope when it returns or raises.
ForgetLocals == seen' = Nothing /\ order' = NoOrder /\ lastRecord' = NoRecord

\* The rest of the iteration: the learning modules and the dashboard, whose
\* circuit_breaker_ok entry is a call of check_order_allowed.
FinishIteration ==
    /\ pc = "tail"
    /\ breaker' = Asked(breaker)
    /\ pc' = IF reportDue THEN "report" ELSE "sleep"
    /\ ForgetLocals
    /\ UNCHANGED <<exchange, world, count, trades, wins, losses, lastReset, tradeAge,
                   zeroBars, reportDue, error, placed>>

\* _send_decision_report, called by start().  It divides by the remembered
\* prices, and asks None for its 'amount' when the position cannot be read; in
\* both cases last_report_time stays, so the next iteration tries again.
SendReport ==
    /\ pc = "report"
    /\ \/ /\ ~VolatilityFails(zeroBars)
          /\ breaker' = Asked(breaker)
          /\ reportDue' = FALSE
          /\ pc' = "sleep"
          /\ UNCHANGED <<world, error>>
       \/ /\ VolatilityFails(zeroBars)
          /\ error' = "ZeroDivisionError"
          /\ pc' = "error"
          /\ UNCHANGED <<world, breaker, reportDue>>
       \/ /\ Fault("position")
          /\ error' = "AttributeError"
          /\ pc' = "error"
          /\ UNCHANGED <<breaker, reportDue>>
    /\ UNCHANGED <<exchange, count, trades, wins, losses, lastReset, tradeAge, zeroBars,
                   seen, order, history>>

\* d ticks pass for the two clocks of the process.
Passes(d, b) ==
    /\ tradeAge' = UpTo(tradeAge + d, TradeGap)
    /\ breaker' = Aged(b, d)

\* _handle_error looks for 'API' or 'connection' in the text of the exception.
\* The requests of the client swallow theirs, so the exceptions that arrive are
\* the two above, and neither text holds one of the words.
MentionsApi(exception) == exception \notin {"none", "ZeroDivisionError", "AttributeError"}

HandleError ==  \* then time.sleep(10): a third of a tick
    /\ pc = "error"
    /\ \E d \in 0..1 :
          Passes(d, IF MentionsApi(error) THEN Failed(breaker) ELSE breaker)
    /\ error' = "none"
    /\ pc' = "start"
    /\ ForgetLocals
    /\ UNCHANGED <<exchange, world, count, trades, wins, losses, lastReset, zeroBars,
                   reportDue, placed>>

Sleep ==  \* check_interval, and the time the requests took
    /\ pc = "sleep"
    /\ \E d \in 1..2 : Passes(d, breaker)
    /\ reportDue' \in {reportDue, TRUE}
    /\ pc' = "start"
    /\ UNCHANGED <<exchange, world, count, trades, wins, losses, lastReset, zeroBars,
                   locals, history>>

\* Nothing in the repository does this but the operator.
Restart ==
    /\ pc = "down"
    /\ pc' = "start"
    /\ lastReset' = day
    /\ UNCHANGED <<exchange, world, count, trades, wins, losses, tradeAge, zeroBars,
                   breaker, reportDue, locals, history>>

Loop == \/ BeginIteration \/ ManagePosition \/ ReadPosition \/ ClosePosition
        \/ Decide \/ OpenPosition \/ FinishIteration \/ SendReport
        \/ HandleError \/ Sleep
-----------------------------------------------------------------------------
(* Around the process.                                                     *)

\* SIGTERM (_signal_handler exits at once), a kill or a power failure: the
\* memory of the process is gone, the account is not.
Crash ==
    /\ pc # "down"
    /\ restarts < MaxRestarts
    /\ restarts' = restarts + 1
    /\ pc' = "down"
    /\ count' = 0 /\ trades' = <<>> /\ wins' = 0 /\ losses' = 0
    /\ tradeAge' = TradeGap /\ zeroBars' = <<>>
    /\ breaker' = Closed /\ reportDue' = TRUE
    /\ seen' = Nothing /\ order' = NoOrder /\ error' = "none"
    /\ lastRecord' = NoRecord
    /\ UNCHANGED <<exchange, lastReset, day, faults, manualOrders, blind, placed>>

MarketMoves ==
    /\ market' \in Prices \ {market}
    /\ UNCHANGED <<pos, entry, world, pc, books, locals, history>>

Midnight ==
    /\ day < MaxDays
    /\ day' = day + 1
    /\ placed' = 0
    /\ UNCHANGED <<exchange, faults, restarts, manualOrders, blind, pc, books, locals,
                   lastRecord>>

\* /long, /short and /close of the Telegram bot: its own engine, the same account.
ManualOrder ==
    /\ manualOrders < MaxManualOrders
    /\ manualOrders' = manualOrders + 1
    /\ \E delta \in {-1, 1} : Abs(pos + delta) <= MaxPosition /\ Filled(delta)
    /\ UNCHANGED <<day, faults, restarts, blind, pc, books, locals, history>>

Next == Loop \/ Restart \/ Crash \/ MarketMoves \/ Midnight \/ ManualOrder

Spec == Init /\ [][Next]_vars

\* while self.running: every exception is caught and every request has a timeout,
\* so a process that lives goes on.  Nothing is assumed about a dead one.
FairSpec == Spec /\ WF_vars(Loop)
-----------------------------------------------------------------------------
Trades == [action : Actions, open : BOOLEAN]

ExchangeOK == /\ market \in Prices
              /\ pos \in -MaxPosition..MaxPosition
              /\ entry \in Nat

WorldOK == /\ day \in 0..MaxDays /\ faults \in 0..MaxFaults
           /\ restarts \in 0..MaxRestarts /\ manualOrders \in 0..MaxManualOrders
           /\ blind \in 0..faults

BooksOK == /\ count \in Nat
           /\ trades \in Seq(Trades)
           /\ wins \in 0..RecordCap /\ losses \in 0..RecordCap
           /\ lastReset \in 0..MaxDays
           /\ tradeAge \in 0..TradeGap
           /\ zeroBars \in Seq(BOOLEAN) /\ Len(zeroBars) < 2 * Window
           /\ breaker \in Breakers
           /\ reportDue \in BOOLEAN

LocalsOK ==
    /\ seen \in [amount : -MaxPosition..MaxPosition, entry : Nat, price : Prices \cup {0}]
    /\ order \in [action : Actions \cup {"none", "stop_loss", "take_profit"},
                  quantity : -MaxPosition..MaxPosition \cup {1}]
    /\ error \in {"none", "ZeroDivisionError", "AttributeError"}

HistoryOK ==
    /\ placed \in 0..PlacedCap
    /\ lastRecord.done \in BOOLEAN

TypeOK == ExchangeOK /\ WorldOK /\ pc \in Steps /\ BooksOK /\ LocalsOK /\ HistoryOK

\* The number that gates the next entry and the list behind the daily report
\* agree at every moment, across midnight, lost answers and crashes, and never
\* pass the limit although the check and the increment are separate steps.
DailyLimit == count = Len(trades) /\ count <= MaxDailyTrades

\* The limit of the calendar day.  The date is looked at once per iteration, so
\* an iteration that midnight interrupts may place one more order than the new
\* day allows, and never more than one, as long as no answer is lost and the
\* process is not restarted.
CalendarLimit ==
    faults = 0 /\ restarts = 0 => placed <= MaxDailyTrades + 1

\* Every trade of the list that is closed was counted as a win or a loss:
\* neither the reset nor a failed close loses one.
ClosedAreCounted == Cardinality(ClosedTrades(trades)) <= wins + losses

\* While nobody else trades on the account, the bot adds to a position only when
\* a request hid the position from it, and then by one order: not after a lost
\* answer, a failed close or a crash between the order and its bookkeeping,
\* because it asks the exchange first.
OnePosition == manualOrders = 0 => Abs(pos) <= 1 + blind

\* Under the same conditions, if every position was read, a trade that the books
\* show as open is held on the account, on the side the books say, and it is the
\* only one.
OpenTradeIsHeld ==
    manualOrders = 0 /\ blind = 0 =>
        \A i \in OpenTrades(trades) :
            /\ OpenTrades(trades) = {i}
            /\ Sign(pos) = Direction(trades[i].action)

\* Entries the process knows of are at least TradeGap apart, also across
\* midnight and after errors, which shorten the sleep.
EntrySpacing == [][count' > count => tradeAge >= TradeGap]_vars

\* If the price settles and the process is not left dead, the position is closed
\* or within its band of stop loss and take profit in the end, whatever faults,
\* crashes and orders of the operator came before.
WithinBand(price) ==
    pos # 0 => /\ ~PnlAtMost(price, entry, -StopLossPct)
               /\ ~PnlAtLeast(price, entry, TakeProfitPct)

SettledPriceIsActedUpon ==
    \A price \in Prices :
        <>[](market = price) /\ []<>(pc # "down") => <>[](WithinBand(price))

\* A due report is sent in the end: neither an unreadable position nor the zero
\* prices remembered from an outage block it for ever.
ReportIsSent == reportDue ~> ~reportDue \/ pc = "down"
-----------------------------------------------------------------------------
(* Why the safety properties hold: what is true between the steps of an    *)
(* iteration.                                                              *)

\* Between the decision and the order nothing counts a trade and no time passes
\* for the spacing.
Ready == pc = "open" => count < MaxDailyTrades /\ tradeAge >= TradeGap

Dates == lastReset <= day

\* Without faults and restarts only an iteration that midnight has interrupted
\* can have placed an order the books of the day do not show.
Carried ==
    faults = 0 /\ restarts = 0 =>
        /\ lastReset = day => placed <= count + 1
        /\ lastReset < day => placed <= 1
        /\ lastReset < day /\ pc \in {"act", "open"} => placed = 0

\* A position read as flat is flat, up to the requests that hid it.
Alone ==
    manualOrders = 0 =>
        /\ Abs(pos) <= 1 + blind
        /\ pc = "act" /\ seen.amount = 0 => Abs(pos) <= blind
        /\ pc = "open" => Abs(pos) <= blind

SafetyInv == DailyLimit /\ Ready /\ Dates /\ Carried
-----------------------------------------------------------------------------
(* What the documentation says and the code does not do.                   *)

\* autonomous_trading.py:933 "Use ORIGINAL trade action".
FeedsOriginalAction ==
    lastRecord.done /\ lastRecord.own # "none" => lastRecord.fed = lastRecord.own
=============================================================================
