# Verification of the trading platform

TLA+ models of the parts of this repository whose correctness depends on order,
failure and concurrency, the TLC configurations that check them on small
instances, and proofs of their most important properties for every value of the
constants.  Paths are relative to the root of the repository; `AT` stands for
`src/autonomous_trading.py`, `VN` for `src/vnpy_engine/vnpy_local`, `PT` for
`src/paper_trading`, `TW` for `src/telegram_watchtower`, `DL` for `src/data_lab`.

1. [The system](#1-the-system)
2. [The modules and the code](#2-the-modules-and-the-code)
3. [The runs](#3-the-runs)
4. [Fairness](#4-fairness)
5. [The proofs](#5-the-proofs)
6. [What the models show of the code](#6-what-the-models-show-of-the-code)
7. [What is not modelled](#7-what-is-not-modelled)
8. [Plan](#8-plan)
9. [Running it](#9-running-it)

---

## 1. The system

The repository holds several programs that share some libraries.  They run as
separate processes and meet only in the exchange account, in Redis, in files and
in Telegram chats.

### 1.1 The autonomous trader (`AT`, run on its own)

One thread.  `start()` repeats `trading_loop()`, sends a report when one is due,
and sleeps 30 s; an exception goes to `_handle_error()` and 10 s of sleep.  One
iteration resets the books of the day if the date has changed, asks the futures
client for position and price, makes an action of them, and then either manages
the position it has seen or decides whether to open one; then it learns, and on
some counts of trades it validates and evolves.

| part | state | operations |
|---|---|---|
| trader (`AT`) | `daily_trade_count`, `daily_trades`, `daily_wins/losses`, `last_reset_date`, `last_trade_time`, `last_report_time`, `price_history` | the loop, `_check_daily_reset`, `_should_trade`, `_open_position`, `_manage_position`, `_record_trade`, `_send_decision_report`, `_handle_error`, `_signal_handler` |
| futures client and engine (`PT/layers/layer1_data/binance_futures.py`) | the account, on the exchange | `get_position`, `get_price`, `place_order`, `close_position`; all exceptions are swallowed and turned into `None`, `0.0` or a message |
| circuit breaker (`PT/layers/layer2_risk/circuit_breaker.py`) | state, failures, successes, time opened | `record_failure`, `record_success`, `can_execute`, `get_state`, `force_open`, `force_close` |
| strategies, regime detector, ensemble (layers 3 and 4) | price windows, what each compared with last | `_generate_signal`, for the loop, the dashboard and reports |
| self-learning (layer 4) | experiences, model, its file | add, retrain, predict, save, load |
| exploration, validation, evolution | outcomes of trades, population | ask, record, validate, evolve |
| Telegram bot (`TW`), another process | an engine of its own on the same account | `/long`, `/short`, `/close`, stop |

*Hard:* the exchange, the operator, midnight and a crash come between any two
requests of an iteration; every request can fail, be refused, or be executed
without an answer; nothing of the books is stored, while the account stays; three
callers feed the strategies that compare with the price before.
*Correct when:* the books agree with each other and with the account as far as
they can; the daily limit holds; the bot does not add to a position it has not
been kept from seeing; it acts on stop loss and take profit and sends its report
in the end; what is learned is of the trades that were made, and is kept.

### 1.2 The VN.PY engine (`VN`, run by `watchdog.py`)

`run_watchdog` starts the watchdog thread and serves the API, whose startup
handler starts the engine, which starts a market data thread.  The state layer
has a reconnection and a backup thread.  The CTA strategies run in vnpy's own
engine.

| part | state | operations |
|---|---|---|
| engine (`main_engine.py`) | `running`, `positions`, `strategies`, orders | `start`, `stop`, `process_market_data`, `_execute_action`, `set_position_target`, `place_order` |
| market data (`market_data.py`) | `_running`, its thread | `start`, `stop`, callbacks into the engine |
| state layer (`shared_state.py`) | cache, Redis, backup files | `_redis_set`, `_redis_get`, `get_all_positions`, reconnection, backup, restore |
| watchdog (`watchdog.py`) | `failure_count` | health check every 30 s, restart after three failures |
| API (`api_gateway.py`) | none of its own | startup, shutdown, orders, position targets, status |
| strategies (`strategies/cta_strategies.py`) | `pos`, orders that rest, the agent's approval | `on_bar`; start, stop and remove by the manager |

*Hard:* three threads read, change, serialise and send the same dictionary
without a lock; Redis fails and returns; the process crashes between an order and
its storage; a backup may be torn or older than Redis, and the cache it fills
overrides Redis; the restart may itself fail half way; a strategy decides by a
position that does not know of resting orders.
*Correct when:* what is stored and what the engine holds is the sum of the
orders; a stopped engine is started again; restarts are earned by failures; a
strategy's position is never more than one entry.

### 1.3 The paper trading engine (`PT/engine.py`, run by `run_paper_trading.py`)

An update loop in a thread; a threaded Flask dashboard, Telegram commands and a
signal handler that start and stop it.

| part | state | operations |
|---|---|---|
| engine | `running`, `update_thread`, its own `positions` (never filled), capital and daily result (never changed) | `start`, `stop`, `emergency_stop`, `_update_loop` |
| order manager (`PT/layers/layer5_execution/order_manager.py`) | `positions`, `orders` | `execute`: open long, open short, close, reduce; unrealised profit |
| risk engine (`PT/layers/layer2_risk/risk_engine.py`) | peak capital | `check_risk`; with what the engine passes it, it always allows |
| health monitor (`PT/layers/layer6_orchestration/health_monitor.py`) | `running`, failure counts | started and stopped by the engine |
| dashboard, Telegram commands | none | test the running flag, then call the engine |

*Hard:* requests cross; a stop waits for its loop no longer than the loop sleeps;
an update under way outlives the stop; two loops can then exist and share an
order manager.
*Correct when:* there is one loop; the position is the sum of the orders and the
profit what the fills earned; a stopped engine stops trading.

### 1.4 The data lab (`DL`)

| part | state | operations |
|---|---|---|
| stream manager (`redis_stream_manager.py`) | Redis streams, fallback queues, `connected`, counters | publish, backpressure check, drop, consume, acknowledge |
| alert handler (`backpressure.py`) | a singleton: last alert per stream, `_enabled` | handle an alert, enable, disable |
| request limit (`auth/jwt_auth.py`) | accepted requests of each client | `check_rate_limit` |

*Hard:* publishing, consuming and dropping by several processes; a stream at its
limit; loss of Redis in the middle of a publication; a singleton its first users
initialise at the same time; times taken before a lock is.
*Correct when:* what backpressure drops is of low priority and dropping ends;
what was published is delivered until acknowledged, in order, once to a group;
alerts of a stream keep their distance; a client stays within its limits.

### 1.5 The layered platform (`PT/orchestrator`, `PT/layers`)

| part | state | operations |
|---|---|---|
| orchestrator | layers with health, trade counter | gates in order: data, features, regime, signal, score, risk, execution, memory; enable, disable, swap, stop |
| event bus (layer 10) | subscribers, history, statistics | subscribe, unsubscribe, publish |
| auto restart, health monitor (layer 6) | counts of failures and restarts | check, alert, restart with delay, reset |
| configuration reload (layer 6) | configuration, file time | load, watch, reload, hand out |
| emergency stops (layer 2) | four stops with triggered, reason, callbacks | trigger, reset, ask |
| memory (layer 9) | PostgreSQL rows, Redis cache, pool of connections | save, update, read, delete |

*Hard:* a signal handler that runs on top of a thread which holds a lock; health
that latches; a restart budget checked before a delay and spent after it; a file
written between its reading and its time stamp; a cache set and deleted beside
the commits; flags read without the lock they are written under.
*Correct when:* no order is filled that the risk layer did not allow; shutdown
ends; a bounded number of restarts, and what is down is restarted; a newer file
is looked at in the end; the cache becomes current again; whoever asks for a stop
is told of it.

### 1.6 The watchtower and the processes around it

| part | state | operations |
|---|---|---|
| bot (`TW/bot_controller.py`, `command_processor.py`, `bot_menu.py`) | offset, dialogs that wait for a confirmation, administrators | poll, answer commands and buttons, trade, start and stop the programs, itself included |
| tailer and alerts (`TW/log_tailer.py`, `bot_controller.py`) | position in each log, time of the last alert | read, throttle, send; a health thread warns on its own |
| health check (`src/health_check.py`) | status file | compare, save, tell; every five minutes and by hand |
| workflow (`src/workflows/process_workflow.py`) | the workflow and its file, `processing_active` | start, stop, step through tasks |

*Hard:* an update whose handling ends the process that handles it; confirmations
that stay in the chat; logs that grow, are cut, and are read while half written;
a status saved before it is told.
*Correct when:* a process repeats no order, an update is confirmed in the end; a
critical line is processed once; administrators learn what is down; a workflow
that was started finishes.

---

## 2. The modules and the code

| module | models |
|---|---|
| `BreakerState` | the methods of a circuit breaker as operators on a record (`circuit_breaker.py`) |
| `TradingGate` | *abstract:* what a breaker promises its callers |
| `CircuitBreaker` | one breaker under every sequence of calls; implements `TradingGate` |
| `AutonomousTrader` | the trading process with its account and its surroundings (`AT`, the client's requests) |
| `Ensemble` | from prices to an action: strategies, aggregator, self-learning model, vote |
| `Learning` | experiences, retraining, the stored model |
| `Exploration` | outcomes of trades: exploration, validation, evolution |
| `SharedState`, `VnpyEngine` | cache, Redis and backup; engine, feed, API and watchdog on top of them |
| `CtaStrategies` | the four strategies of `VN/strategies`, as vnpy runs them |
| `PaperEngine` | the paper engine, its order manager, the requests |
| `PaperBook` | the order manager as a book: sizes, average price, profit |
| `Mailbox` | *abstract:* what a stream of events promises its users |
| `StreamManager` | one Redis stream, request by request; implements `Mailbox` |
| `PressureAlerts` | the alert handler of `DL/backpressure.py` between threads |
| `RateLimiter` | the request limit of `DL/auth/jwt_auth.py` |
| `EventBus`, `Orchestrator` | publishing under the bus's lock; the autonomous loop, the operator, SIGTERM |
| `SelfHealing` | health monitor and bounded restarts |
| `ConfigReload` | the file, its watcher, its callers |
| `EmergencyStop` | the four stops between operators and askers |
| `TradeStore` | rows, cache and connections of the memory layer |
| `Watchtower` | Telegram's queue, the bot, its dialogs, its processes |
| `AlertFeed` | log, tailer, throttle, health thread |
| `HealthCheck`, `Workflow` | the daemon and the check by hand; the workflow's thread and file |
| `MCAutonomousTrader`, `MCVnpyEngine` | values, symmetry and a constraint for TLC |
| `MCServices`, `MCModels`, `MCGuards` | several small modules in one run each (3.2); `MCGuards` is `CircuitBreaker` next to `MCModels` |
| `*Proofs` | theorems (section 5) |

`PROJECT.json` maps every definition to its lines.  An operator that is called a
*mutant* in its comment is a plausible bug in the definition that follows it; it
is used only to see that the properties notice it.

### 2.1 `BreakerState` and `CircuitBreaker`

The breaker is a record.  The code looks at the clock only to compare
`time.time() - opened_at` with `timeout_duration`, so the record keeps that
difference, saturating.  Counters saturate at `CountCap`, no lower than their
thresholds: no comparison in the code can tell.  `Asked` is the side effect of
`can_execute` (an open breaker that waited long enough becomes half open),
`Permits` its answer.  `get_state` evaluates `can_execute`, so a status page has
the same side effect.

`TradingGate` knows no counters: a gate trips, grants nothing before `Cooldown`
ticks after the latest trip, and is not opened by reported successes.
`ImplementsGate` maps `blocked` to the open state and `quiet` to the age of the
opening.

### 2.2 `AutonomousTrader`

One action per stretch of code between two requests to the exchange:

| action | code |
|---|---|
| `BeginIteration` | `trading_loop` 624-681: daily reset, status, price history, regime |
| `ManagePosition`, `ReadPosition`, `ClosePosition` | `_manage_position` 878-906 with `close_position`, `_record_trade` |
| `Decide` | `_should_trade` 790-816; the signal is any action with any confidence |
| `OpenPosition` | `_open_position` 818-876 with `open_long`/`open_short`, `place_order` |
| `FinishIteration`, `SendReport` | dashboard (asks the breaker), `_send_decision_report` |
| `HandleError`, `Sleep` | `start` 497-516, `_handle_error` 1076-1084 |
| `Crash`, `Restart` | `_signal_handler` 368-372, `main`; the books are gone, the account stays |
| `MarketMoves`, `Midnight`, `ManualOrder` | the surroundings |

`pc` is where the process is; `seen` and `order` are the locals that live across
requests.  Failures are chosen by `Fault(kind)` where the code has a swallowed
exception: `position` (None, taken for flat), `price` (0.0, remembered in
`price_history`), `outage` (both), `refused`, `lost_ack` (executed, unanswered).

Facts of the code that the model keeps because the properties depend on them:
the health check calls a method that does not exist and swallows the error; the
risk check is passed values with which it always allows; the result of `close()`
is ignored; `_record_trade` closes the first open trade; the profit formula is
that of a long position; a remembered price of 0 divides 20 bars later.

### 2.3 `Ensemble`, `Learning`, `Exploration`

These are the inside of the signal that `Decide` leaves open, each as deep as its
own hazards need.  `Ensemble` has the windows of the two strategies, what each
compared with last, the labelled experiences and the three callers; what a tree
or a policy computes from its features is any answer.  `told` is the last
crossing told to anybody.  `Learning` has the buffer of experiences, of which
`recent` prices may be 0, retraining that raises on them, and the file, emptied
before it is written; saves and loads may fail, and the process goes on.
`Exploration` has the last outcomes, how they lower the confidence, the trade
counter and what runs on its multiples and may raise, and persons who trade by
Telegram.

### 2.4 `SharedState` and `VnpyEngine`

A position is a Python dictionary to which the engine, the cache and a thread in
the middle of an order may all refer, so the model has a heap of references
(`Refs`), and a copy exists only where the code makes one (`json.dumps`,
`json.loads`).  An order is five steps: chosen, read, written, serialised, sent.
`Feeds`, `Api` and `Dog` are the threads.  The API handlers never await inside
the engine, so the API is one thread.

Races are *named* rather than excluded: `doubt` is raised by the steps that can
separate the stored position from the orders (a write over a changed position, a
send that Redis does not take or that a later one has overtaken, a cache that
overrides Redis with another size, a start without Redis, a crash with an order
in memory only, an order into an engine that has not loaded its positions).  The
invariants say that nothing else can.  The same style is used throughout: where
the code promises less than one would like, a history variable names the events
after which the promise is off (`excused`, `overlap`, `overlooked`, `overtaken`,
`crowded`, `spoiled`, `deviations`), each raised by one step of the code, and the property shows that
the list is complete.

### 2.5 `PaperEngine` and `PaperBook`

`Loops` are the update threads that can be alive, `Requests` the threads that
serve requests.  An update is `Round` (look at the flag), then `NoSignal` or
`Execute` and `Fill` (read the position, write it), then `Wake`.  A start is
`AllowStart` (the caller's test and that of `start()`), `SetRunning`, `Launch`; a
stop is `AllowStop`, `ClearRunning`, `Join` or `JoinTimesOut`, `EndStop`.
`crossed` records that two loops have filled at the same time, `leaked` that
requests have crossed or that a stop gave up waiting.

`PaperBook` has the arithmetic: an order averages into a position of its side,
and takes the place of one of the other side; a close realises a profit and
reduces.  Against it stand the cash and the net amount that the same fills make.
`deviations` names the ways in which the code's book parts from them: a reduction
whose profit is not realised, a position that is turned, a short one that is
closed, a close of more than there is.  One more is the model's own: its numbers
are integers, so that an average may have to be `Rounded`, and the book is then
not asked for the exact money.

### 2.6 `StreamManager` and `Mailbox`

A publisher goes through `xadd` with its trim, `xlen`, and perhaps the `xread` and
`xdel` of the dropping loop, each a request that another process may come between
and that may fail.  The first failure
disconnects the manager; the fallback, whose queues are empty and hence false in
`if queue:`, raises for every event.  `Mailbox` has entries, a cursor and the open
ones: a step of the manager is an acceptance (perhaps with the loss of the oldest),
a removal of low priority, a hand-out in order, an acknowledgement, or a stutter.

### 2.7 `Orchestrator` on `EventBus`

`pc` is where the main thread is in an iteration, `call[t]` where each thread is
inside `publish`; a body of `with self._lock` is a state of its own, so that a
signal can arrive in it.  `Signal` puts `frame` on top of the main thread, which
does not move until `Exit`.  A layer is a `BaseLayer`, an object that is none
(without `health_check`, so that the call raises), or `None`: with the layers that
the program makes itself, no iteration reaches its end, so the model also starts
with layers plugged in.

### 2.8 `Watchtower` and `AlertFeed`

`sent` is what the person sent, `acked` what the offset of a request has
confirmed, `offset` what this process has handled.  The kinds of update are the
commands and buttons that change something: an order, a dialog and its
confirmation, and the starting and stopping of programs, which may be the bot.
`AlertFeed` has the log as a sequence of lines and halves of lines, the tailer's
position in it, and the broadcast that iterates over a set another thread may
change.

### 2.9 The small services

`SelfHealing`, `ConfigReload`, `TradeStore`, `EmergencyStop`, `PressureAlerts`,
`RateLimiter`, `HealthCheck` and `Workflow` follow one scheme: a program counter
per thread, one action per stretch that another thread can come between, files
and locks as the operating system gives them (a file is `whole`, `emptied` or
missing), and the end of a process where state survives it.

---

## 3. The runs

| run | module, cfg | distinct states | shows |
|---|---|---|---|
| `trader_safety` | `MCAutonomousTrader`, `TraderSafety.cfg` | 2.1 M | daily and calendar limit, books, single position, spacing, under three kinds of fault, one crash, one midnight |
| `trader_liveness` | `MCAutonomousTrader`, `TraderLiveness.cfg` | 279 k | a settled price is acted upon; a due report is sent; all kinds of fault, a crash, the operator |
| `feeds_original_action` | `MCAutonomousTrader`, `TraderFeedDoc.cfg` | - | section 6 |
| `vnpy_safety` | `MCVnpyEngine`, `VnpyEngine.cfg` | 1.7 M | Redis and the engine hold the sum of the orders unless a named race or failure has happened |
| `vnpy_liveness` | `MCVnpyEngine`, `VnpyLiveness.cfg` | 704 k | a stopped engine runs again; restarts are earned |
| `paper_engine` | `PaperEngine` | 489 k | one loop, the position is the sum, trading stops |
| `stream_manager` | `StreamManager` | 465 k | the mailbox is implemented; failed publications; dropping ends or why it does not |
| `orchestrator` | `Orchestrator` | 317 k | gates, health that latches, the event history, shutdown |
| `watchtower` | `Watchtower` | 720 k | no process repeats an order; buttons; every update is confirmed or why it is not |
| `services` | `MCServices`, `Services.cfg` | 422 k | store, configuration, healing, alerts, health check, workflow |
| `models` | `MCGuards`, `Models.cfg` | 544 k | the breaker's half-open discipline, the gate it implements, its recovery; ensemble, learning, exploration, book, strategies, stops, alert handler, request limit |
| `agent_validates` | `MCModels`, `AgentDoc.cfg` | - | section 6 |

### 3.1 The properties

*Circuit breaker.* `OneStrike`: an opening nobody forced keeps its full count, so
that one failed probe opens it again; this is what distinguishes the half-open
state from the closed one and rests on `_attempt_reset` *not* clearing the
failures.  `ProbedBeforeClosing`: successes reported before the breaker was half
open do not count.  `Recovers`: an open breaker leaves that state once failures
stop (it is not open for good) - not before, because a failure while it is open
restarts the wait.
`ImplementsGate`: the refinement.

*Trader.* `DailyLimit`: the counter and the list agree and stay within the limit
although check and increment are separated by two requests.  `CalendarLimit`:
without faults and restarts, one order more than the limit per calendar day, and
never two.  `ClosedAreCounted`: a closed trade was counted as a win or a loss.
`OnePosition`, `OpenTradeIsHeld`: alone on the account, the bot holds one order
plus one for every time a failed request hid the position, and an open trade in
the books is held, on that side.  `EntrySpacing`: also after errors, which
shorten the sleep.  `SettledPriceIsActedUpon`, `ReportIsSent`: liveness after the
last fault, with zero prices still in the history.

*VN.PY.* `StoredIsNet`, `HeldIsNet`: see 2.4.  `RestartIsEarned`: `max_failures`
new failures before each restart.  `Heals`: if the process and Redis stay, the
engine is running again and again, although the watchdog's own restart may have
failed before and left `running` set with the status "stopped".

*Paper engine.* `PositionIsNet`: the position is the sum of the filled orders and
its side the sign of that, unless two loops filled at once; with the one order
size the engine uses, no order turns a position over, where the code would be
wrong.  `OneLoop`: a second loop comes only from crossing requests or an
abandoned join.  `TradingStops`: if the engine stays stopped, every loop ends, the
abandoned ones too.

*Stream manager.* `MailboxSpec`: the refinement.  `OrphansAreFailures`: events that
are stored although their publisher was told of an error are no more than failed
requests.  `HandedIsSeenOrOpen`: a lost reply never makes an event look
acknowledged.  `DropEnds`: dropping ends, unless the first entries of the stream,
which the loop reads over and over, hold none of low priority; in that state the
code does not return.

*Orchestrator.* `FillsAreChecked`: an order is filled only in an iteration in which
the risk layer itself said yes, whatever the operator disables, enables or swaps
meanwhile, and not before an evolution that was due.  `OpenedIsFilled`: the event
of an opened trade, the counter and the fills agree, but for a disabled execution
layer, whose empty success counts as a trade.  `FailureLatches`: an unhealthy layer
is never asked again; only a swap makes it work.  `ShutdownEnds`: the signal handler
ends the program, unless it interrupted the main thread between `acquire` and
`release` of the bus's lock: then it waits for a lock that nobody can release.

*Watchtower.* `RepeatedByLossOnly`: one process places the order of no update
twice; only a process that ended before it confirmed has it placed again.
`UpdatesAreConfirmed`: in the end, unless the bot was stopped for good or the
updates themselves end every process that handles them.  `ButtonsAreBound`: a
confirmation is carried out once, and not after a restart; an administrator is
denied only by a process that closed a trade in the menu.

*Services.*

| property | parts |
|---|---|
| `CopiesAreExplained` | a stale cached row has a writer about to delete it, or a named lost or overtaken request (`StaleIsExplained`); the configuration is what its file holds, or the file is seen to be newer, but for a write between its reading and its time or within the same time (`ConfigIsFile`), and the components hold it (`AppliedIsConfig`), both but for overlapping reloads; the saved status is what the administrators believe, but for named losses (`FileIsTold`) |
| `NothingIsLost` | every connection of the pool is free or in one client's hands (`PoolIsWhole`); lines before the tailer's position were processed or wait, none twice without an error (`ReadIsProcessed`); an alert that holds back others was sent (`ThrottledIsTold`) |
| `ThreadsAreCounted` | restarts exceed their maximum by no more than the threads that overlapped, but where a count was set back below what another thread had read and goes on from (`RestartsAreBounded`); an active workflow has a loop (`ActiveHasLoop`) |
| `ServicesSettle` | again and again: the cache is current, a newer file was looked at, what is down was restarted or its budget is spent, written lines are read, what is down was told, a started workflow is done or was stopped |

*Models.*

| property | parts |
|---|---|
| `AnswersAreExplained` | when the averages lie to one side, a crossing to that side was the last one told to loop, dashboard or report (`TrendWasTold`); the ensemble's answer is to hold unless the vote raised (`HoldUnlessRaised`) |
| `LearningIsKept` | the running trader knows no less than its last successful save, unless a later save or a load failed (`SavedIsKept`); a validation on a multiple is of all trades closed, unless it raised in that iteration (`ValidationIsCurrent`); evolution never learns of a trade (`BestIsFirst`) |
| `DegradedStays`, `PoisonLeaves` | bad outcomes that stopped the trader stay the last ones; experiences that make retraining raise leave the buffer |
| `BooksAreExplained` | position and money come to the fills but for orders of the named kinds (`PositionIsSum`, `MoneyIsKept`); one entry at a time unless an order rested (`OneEntryAtATime`) |
| `SharedIsKept` | a stop is triggered with a reason (`ReasonsAreKept`) and who asks is told (`AskedIsTrue`); alerts keep their distance and their switch but for a second initialisation (`HandlerIsKept`); the windows of accepted requests (`WindowsAreKept`) |

### 3.2 Runs of several modules

No program of the repository wires these services to each other: the only
`HealthMonitor` that runs is the one of the paper engine (`PT/engine.py` 84, 114,
133), and nothing else uses `ConfigManager` or `on_health_alert`.  So `MCServices`
has a variable `focus` and `MCModels` one called `part`, chosen in the initial
state: a behaviour is one of the module in focus while the others stand still, and
a state of the run is one of that module.  Each conjunct of a property is thus
checked over the whole state space of its module, and the fairness conditions,
which name the threads of whichever module is in focus, are the ones of that module
alone.  `MCGuards` puts `CircuitBreaker` next to `MCModels` in the same way, with a
variable `guarding`; it is the module of the run `models`.  What the breaker's
properties assume of fairness (time passes, the owner asks) is required only while
the breaker is in focus.

Both take their threads, sizes and limits from CONSTANTS, so that they can be
proved about as well as run; the values of the runs are those of `Services.cfg` and
`Models.cfg`.  The variables of `MCModels` that several of its modules use under one
name have another name each (`opened` is the position of `Exploration`, `stamped`
the `last` of `PressureAlerts`).

Two modules are joined for real where the code joins them: `Orchestrator` and
`EventBus`, `VnpyEngine` and `SharedState`, `AutonomousTrader` and `BreakerState`,
`StreamManager` and `Mailbox`, `CircuitBreaker` and `TradingGate`.

### 3.3 Bounds, and why they are enough

* *Breaker:* thresholds 3 and 2, wait 2, cap 4: every comparison on both sides of
  its threshold.  The theorems cover all values.
* *Trader safety:* two trades a day, a gap of two ticks (60 s at 30 s a tick, as
  in the code), one midnight, one crash, two faults, prices 90 and 110 around
  both bounds of profit and loss; the account may start long, short or flat.
  Two days are enough because the books of a day do not reach into the one after
  the next; the limit, the spacing and the single position are proved for all
  values.  Price faults are left to the other run, where they matter.
* *Trader liveness:* `Window` = 2 instead of 20: a zero price travels through the
  whole history and out of it.  One fault of each kind at a time, a crash, one
  order of the operator, who can also leave the account inverted.
* *VN.PY:* position -1..1, three dictionaries (the engine's, the cache's and that
  of a thread), one feed, the API and the watchdog; a start waits for the slot of
  the old feed thread, so two feeds at the same time are not reached, but the API
  is a second thread with the same orders.  Both can be inside `start` at once,
  between its look at `running` and the setting of it.  `MaxFailures` is 1 where the number
  does not matter and 2 where it does.  `CONSTRAINT Sure` cuts a behaviour after
  its first doubtful step: doubt is never lifted and both invariants hold
  vacuously under it, so nothing is lost.  `SYMMETRY Dicts` is used only in a run
  of invariants.
* *Paper engine:* two loops and two requests: the smallest number of each that
  can cross.  Order size 2 with positions to 4 lets the position go flat, turn
  and be averaged.  The safety properties are proved for all values.
* *Stream manager:* a stream of two entries, dropping from two on, two publishers
  and four events: the stream overflows, is dropped from and trimmed while the
  other publisher measures it.  One failed request.
* *Orchestrator:* two layers that the operator changes once, one layer that fails,
  four events, history of two, validation at every count and evolution at every
  second.  What is proved holds for every bound.
* *Watchtower:* one administrator, three updates of thirteen kinds: enough for a
  dialog, its confirmation and a press of the old button; one kill from outside on
  top of the kills by commands.
* *Services:* two loops and a caller, two writes, one or two faults; a pool of one
  connection, so that every wait for it happens; two restarts at most, since with
  one no thread can pass the check a second time; two administrators and two
  components, so that a check can tell one of them and not the other; three tasks
  of two steps.
* *Models:* windows of two prices, a buffer of four, thresholds of one to three;
  the book has two sizes, two prices whose averages are exact for two fills
  and may be rounded by the third, and four orders; the limit is 2 a minute and 3 an hour, where an hour is 5
  ticks and a minute 2.  Outcomes are one very bad, one bad, one good.

Deadlock is checked in the runs of the trader, VN.PY and the paper engine (time can
always pass for the breaker).  In the others the system may really stop: the updates or events that are
followed run out, a workflow is done, a process was stopped for good, and the
signal handler may wait for ever.

---

## 4. Fairness

* *Trader:* `WF(Loop)`.  `start()` catches every exception, every request has a
  timeout, so a process that is alive goes on.  Nothing is assumed about a dead
  one (nothing restarts it), about the market or the operator.
* *Breaker:* `WF(Tick)` and `WF(CanExecute)`: time passes, and the dashboard asks
  in every iteration.
* *VN.PY:* every thread in the middle of something goes on (requests to Redis
  have timeouts, the watchdog's loop catches everything); Redis comes back
  (`restart: unless-stopped` in `vnpy_engine/docker-compose.yml`), so does the
  process.  No request, order, crash or outage has to happen.
* *Paper engine:* `WF` of each loop and of each request once it has begun: the
  loop catches exceptions, the join has a timeout.  Nobody has to make a request.
* *Stream manager:* `WF` of a publisher's own steps inside a publication.
* *Orchestrator:* `WF` of the main thread, the handler and the operator's
  publishing: threads are scheduled; nothing makes a signal or an operator come.
* *Watchtower:* `WF` of the bot's steps, and of the start of a bot that
  `start_systemd.sh` has killed and starts again.  One that was stopped for good
  stays so.
* *Services:* `WF` of the steps of each thread (`ThreadStep(t)`), of the tailer's
  reads (`Reads`) and of the health check (`Looks`): their loops catch everything.
  Keys in Redis expire (`Expires`).  Nobody has to call, write or fail.
* *Models:* `WF` of the trader's bars, for `PoisonLeaves` only.

---

## 5. The proofs

Checked by TLAPS for every value of the constants that the named assumptions
allow: `BreakerAssumption`, `TraderAssumption`, `PaperAssumption`,
`BusAssumption`, `OrchestratorAssumption`, `WatchtowerAssumption`,
`StreamAssumption`, `SharedStateAssumption` and `VnpyAssumption` (a feed exists,
there are finitely many, the API and the watchdog are threads of their own, every
target is a size the bound allows), `ServicesAssumption` (finitely many loops, at
least one, finitely many callers and administrators, limits that are natural
numbers), and `ModelsAssumption` (windows of at least one price, the fast one no
longer than the slow one; positive prices and sizes; a list of stops that is not
empty; operators and askers are different threads; a minute and the longest wait
for the lock fit into an hour).  TLC evaluates each of them in the runs.

| module | theorems | argument |
|---|---|---|
| `AutonomousTraderProofs` | `TypeCorrect`, `BooksRespectLimit`, `DayRespectsLimit`, `EntriesAreSpaced`, `EveryCloseIsCounted`; `HoldsOnePosition`, `OpenTradesAreHeld` | `IInv`; `Alone` |
| `VnpyEngineProofs` | `TypeCorrect`, `StoredIsTheNet`, `HeldIsTheNet`, `RestartsAreEarned` | `IInv`: `TypeInv`, `DownInv`, `Certain`; `CountInv` |
| `PaperEngineProofs` | `Types`, `Sums`, `Single`, `Monitored` | `IInv` |
| `OrchestratorProofs` | `TypeCorrect`, `HeldInside`, `OpenedWereFilled`, `FillsWereAllowed`, `FailuresLatch` | `IInv`: `BusInv`, `LoopInv`, `FrameInv` |
| `WatchtowerProofs` | `RepeatedByLoss`, `ButtonsStayBound` | `IInv`: `QueueInv`, `MenuInv` |
| `StreamManagerProofs` | `OrphansAreCounted`; `NothingHandedIsLost`, `ImplementsMailbox` | `IInv`; `GroupInv` |
| `ServicesProofs` | `CopiesExplained`, `NothingLost`, `ThreadsCounted` | `IInv`: one invariant for each of the six services |
| `GuardsProofs`, the breaker | `TypeCorrect`, `ClosedHasRoom`, `OneStrikeOpens`, `ClosesAfterProbes`, `Refinement` | `IInv`; what each operator of `BreakerState` returns |
| `GuardsProofs`, `MCModels` | `AnswersExplained`, `LearningKept`, `BooksExplained`, `SharedKept`, `DegradedStaysStopped` | `ModelsIInv`: one invariant for each of the eight parts |

A module whose invariant carries several theorems has also `Invariance`
(`ModelsInvariance`): that invariant holds.  The type invariants of these modules are proved and therefore not
repeated in the runs.

*Breaker.* The stated invariants are inductive only together with two facts: an
open breaker has an age (otherwise it could never be asked to close, and the
mapping to `TradingGate` would break), and a half-open one has counted no more
successes than were probes.  `Refinement` maps every call to a step or a stutter
of the gate; liveness is not part of it.

*Trader.* `_should_trade` looks at the counter, the breaker and the clock; the
order is placed and counted in a later step.  So the invariant carries the
decision across the request: `Ready` (between decision and order there is room
below the limit and the gap has passed).  `CalendarLimit` needs what midnight
leaves behind: `Carried` relates the orders of the calendar day to the counter
of the books' day, which may be yesterday's (`lastReset < day`), in the two
phases in which an iteration can have been interrupted.  `HoldsOnePosition` needs
`Alone`: in every phase that leads to an order, the account holds no more than
the number of requests that hid the position.  It assumes that the account is
inherited with at most one order, and is proved for any number of faults,
crashes and days.  `EveryCloseIsCounted` needs the daily limit: the model counts
wins and losses up to `RecordCap`, and the limit keeps the list too short for that
cap to matter.  `OpenTradesAreHeld` needs `Alone` at the place of an order (an order
is placed on a flat account only, so no open trade is there yet) and itself at that
of a close, which marks the *first* open trade of the list: there is no second.

*VN.PY.* A number that the engine reads, changes, writes to its dictionary, to Redis
and to the backup passes five steps, between which a stop, a start of another
thread, a crash or the end of Redis may come.  `Certain` says what holds while no
step of those has been doubtful: every order on its way is about the dictionary of
the engine (`OrderInv`), that dictionary is right from the moment it is loaded
(`HeldInv`), and so is Redis between orders.  `HeldInv` speaks of more than the
property: a dictionary that is on the way to the engine, and the one that a
stopped engine still has.  A start loads whichever of dictionary, Redis and backup
the code finds; `LoadKeeps` shows that without a doubt each of them is right.  The
watchdog has an invariant of its own (`CountInv`): the count it compares never
runs ahead of the failures since the last restart, except between the decision and
the reset of the count.

*Paper engine.* `SumInv` says that the position is a multiple of the order size;
this is why an order can never be larger than the position it meets.  `FillInv`
keeps the position a filling loop has read valid until it writes.  `LoopInv`
follows a start and a stop through their steps as long as requests do not cross:
no loop between the end of a join and the next launch, one loop otherwise.
`Monitored` states what the checks of the health monitor rest on: between requests
that did not cross it runs exactly when the engine does.

*Orchestrator on its bus.* The invariant has a part for each of the two and one for
what joins them.  `LockInv`: the lock is held by exactly the thread that is inside a
block of `publish`, which is what makes the exception of `ShutdownEnds` precise:
the handler waits for ever only if it interrupted the main thread inside one.
`CountInv` and `FillInv` follow a trade from the fill over the event to the counter;
SIGTERM can end the program between the last two.  `PermitInv` carries the answer
of the risk layer over the six places between it and the order; an iteration that
begins again forgets it.  `FillsWereAllowed` and `FailuresLatch` are action
properties: one lemma shows which single action can fill an order or heal a layer
(`OnlyExecutionFills`, `OnlySwapHeals`).  The lemmas of the bus speak of one call of
`publish` by any thread, those of the loop of one step of the main thread, and the
step of the whole is put together from them.

*Watchtower.* Every step of the bot has one of few shapes (`Answered`, `GoesOn`,
`Gone` for the queue; `Asks`, `Forgets`, `CarriesOut`, `Untouched` for the menu), and
each shape keeps the invariant.  `NowInv` is the reason why no order is repeated: an
order placed by this process belongs to an update before the one being handled, or
to this one when all that is left is the answer; a fetch never goes back behind
`offset`, and the end of a process turns every *now* into *before*.  That each dialog
is carried out once needs that there are never more actions pending than were asked
for: `asked` alone is not inductive.

*Stream manager.* `OrphansAreFailures` is inductive with the types of the counters
and of the place of each publisher: a publication that is stored has a publisher
inside `publish_event`, who either counts it or is refused by a failure.
`NothingHandedIsLost` and the refinement rest on `GroupInv`: the entries of the
stream are in the order of their ids, and none is newer than the last (`Ordered`).
Trimming and dropping leave a part of the stream in its order (`Thinned`), so that
the entries that follow the first unread one are those with greater ids.  `ImplementsMailbox` maps every step to one of the mailbox
or a stutter: a publication to the acceptance of an event after which the oldest may
leave, a delivery to handing out every entry between the old cursor and the new one,
whether its reply arrives or is lost.

*Services.* Each of the six has an invariant of its own, a lemma for each of its
steps, one for what it implies, and one that it stands still while another service
is in focus; `IInvNext` puts them together.
* `StoreInv`: where each client is determines whether it holds a connection, and of
  which pool (`Placed`); free and held connections of the pool add up; a stale row
  is explained.
* `ConfigInv`: unless reloads have overlapped, at most one thread is between the
  assignment of a configuration and its callbacks, and it knows what was read and
  what the components hold.  `FileIsSeen` needs that no time is taken before the
  file has it (`Times`): only then is a later write newer.
* `HealingInv`: what a thread has read is not above the count, and the count *and the
  threads that were allowed a restart they have not counted* stay within the bound
  (`Budget`).  The bound alone is not inductive.
* `AlertInv`: a line before the tailer's position was processed or waits; without an
  error nothing is read twice, because the halves of a line lie in the log in order.
* `StatusInv`: a check no other overlaps knows what the administrators believe and
  what is in the file (`Knows`); of checks that overlap everything counts as missed.
* `WorkInv`: an active workflow has a loop that has not passed its last look at the
  flag.

*Models, books and guards.* Each of the eight parts has an invariant, a lemma for
each of its steps and one that it stands still while another part is in focus;
`ModelsIInvNext` puts them together.
* `EnsembleInv`: the history holds as many prices as the windows need once a crossing
  was told.  A price that is added moves the averages to what they are told by
  (`Side`), and forgetting the oldest price of a full history changes no window: so
  the crossing that was told last stays the side the averages are on.  That the
  vote is to hold rests on the choice of `Combined` alone (`TreeWins`): with one vote
  or two, the first has at least as many as any other.
* `LearningInv`: a count of retrainings stands for a model there is (`Counted`), in
  memory and in the file, and a file that is being written is empty.  Unless
  something failed since, the file holds what the last successful save wrote, or the
  process is about to write it again (`FileIsSaved`).  A start loads
  the count only together with a model: a file with a count and no model would be
  one that the trader knows less than.
* `ExplorationInv`: no genome was ever counted a trade for (`Unchosen`), so that all
  are equally fit and sorting and mutating leave the first in its place.
  `ExploringIsUnsure` is the arithmetic of the confidence: what is left of it while
  exploring never reaches the bar.  `DegradedStep` adds that the outcomes change only
  by a close, which needs a position.
* `BookInv`: what is realised less what the position has cost is the cash
  (`Balanced`).  `MoneyIsKept` speaks of one price; this equation is the same for all
  of them, and it is what an average that was not rounded preserves.
* `CtaInv`: at most one order rests, and the position is one entry before *and* after
  it is filled, whole or in part.
* `StopInv`: no two threads have the lock of one stop (`Alone`), the flag goes before
  the reason (`FlagFirst`), and what a thread that asks may still answer (`Sees`):
  while nothing was calm or reset since it began, a stop that it has not read yet is
  triggered.  The property itself speaks only of the answer that was given.
* `PressureInv`: one thread makes the handler, and who uses it finds it made
  (`MadeOnce`); unless it was filled in twice, who is about to stamp an alert comes a
  cooldown after the last one or has overlapped (`Due`).
* `LimiterInv`: a request is forgotten when it is an hour old (`Forgotten`), also for
  those who still wait, unless one was overtaken.  A minute and the longest wait fit
  into an hour, so the minute keeps its limit even then.

*Only model-checked.* Liveness (`Recovers`, `SettledPriceIsActedUpon`,
`ReportIsSent`, `Heals`, `TradingStops`, `DropEnds`, `ShutdownEnds`,
`UpdatesAreConfirmed`, `ServicesSettle`, `PoisonLeaves`), ENABLED and recursive
definitions are beyond the prover.  Every invariant and every action property of
the runs that pass is proved.

---

## 6. What the models show of the code

In two runs TLC finds the counterexample to what the source or its documents say:

* `feeds_original_action`: from the second closed trade of a day on, the learning
  modules are fed the action of the first one (`AT` 935, against the comment at 933).
* `agent_validates`: the order of a crossing that the agent rejects is sent by the
  branch without a crossing, whose averages lie the same way (`cta_strategies.py`
  393, against the docstring at 295 and `test_rl_cta_integration.py` 261).

The rest was met while modelling and is part of the models; the properties state
what does hold instead.

*Trader.*
* An iteration that midnight interrupts books its order on the old day and forgets
  it: one order more than the documented maximum in a day (`CalendarLimit`).
* Profit is computed as for a long position (`AT` 886): a short is closed as a take
  profit when the price has risen.
* The client swallows its exceptions, so the order circuit is never told of a
  failed order (`AT` 1080) and there is no pause on API failures.
* The vote of the ensemble is "hold" whatever the signals are: the tree is never
  trained, ties go to the first vote; only a `ZeroDivisionError` of the regime
  detector skips the vote and lets a signal through (`HoldUnlessRaised`;
  `AUTONOMOUS_TRADING.md` 158-159 says that all signals are combined).
* The strategies are fed two or three times a bar, by loop, dashboard and report; a
  crossing that only the dashboard's call sees is never acted upon
  (`TrendWasTold`).
* The trader never opens while it explores: the multiplier lowers the confidence
  (`AT` 682) and never reaches `_open_position`, which takes its 5 percent of the
  balance; what counts as exploration is a trade that closes while the trader
  explores.  `exploration_engine.py` 39 and `SYSTEM_DOCUMENTATION.md` 706 speak of a
  smaller capital for exploratory trades.  Bad outcomes, one of -100 % from an
  unread price among them, stop it for the rest of the process (`DegradedStays`).
* Retraining fails while an experience with a price of 0 is in the buffer; a retrain
  inside the ensemble's validation is not saved; a save that fails after it has
  emptied the file leaves nothing to load (`SavedIsKept`).  No trade is ever counted for a
  genome, so evolution keeps the first one (`BestIsFirst`).  Validation and
  evolution repeat on every bar while the count rests on a multiple.

*VN.PY.*
* A process that started while Redis was unreachable loses its position in a restart
  by the watchdog (`VN/shared_state.py` 143).
* Strategies send orders while another one rests, and mean reversion can be left
  short.

*Paper trading.*
* The emergency stop closes the positions of a dictionary that is always empty and
  leaves those of the order manager (`PT/engine.py` 240).
* An order of the other side takes the place of the position with its full size and
  realises nothing; closing a short makes it larger; the unrealised profit stays
  after closing (the `deviations` of `PaperBook`).

*Data lab.*
* Dropping does not return when its first entries are all of higher priority
  (`DropEnds`).  After one failed request the manager is disconnected for good and
  the fallback raises for every event.
* A second first user of the alert handler forgets the alerts of the first and
  switches them on again.  The limit of an hour can be exceeded when a request is
  overtaken on its way to the lock (`WindowsAreKept`).

*Layers.*
* SIGTERM while the main thread publishes leaves the program waiting for itself
  (`ShutdownEnds`).  A layer that failed once stays unhealthy (`FailureLatches`).  The
  layers the program makes itself never complete an iteration.  The size the
  uncertainty model reduces is overwritten (`trading_orchestrator.py` 451 against the
  comment at 404; `SYSTEM_DOCUMENTATION.md` 681); `execute_command` (688-707), which
  nothing calls, goes past the risk layer.
* The restart budget is exceeded by threads that overlap (`RestartsAreBounded`).  They
  exceed it by more than one each when a late write sets the count back and lets
  those that have had their turn pass the check again; with a budget of one this
  cannot happen, and the attempt at a proof for every budget is what showed it.
  A
  write between the reading of the configuration and its time stamp is looked at
  only with the next one (`ConfigIsFile`); an empty file leaves no configuration and makes every later
  reload raise.  Whoever asks for a stop can be told "Risk: None", or of none while
  another is triggered behind him (`AskedIsTrue`).

*Watchtower.*
* `/systemon` starts a script that kills the bot which handles it, before the update
  is confirmed, so that the next bot handles it again (`UpdatesAreConfirmed`).
* Closing a trade in the menu takes the administrator out of the set, and he is
  denied from then on (`ButtonsAreBound`).
* `/long` answers "Order failed" for what `test_telegram_bot.py` 453 expects to
  succeed (`command_processor.py` 513).
* The health check saves its status before it tells of it; a lost message is not
  repeated, and a partial recovery is told as "All systems back online!"
  (`health_check.py` 208).  The stop of the workflow gives up two seconds before its
  loop can end.

---

## 7. What is not modelled

* *Code that cannot run:* `order_book_manager.py`, `latency_monitor.py`,
  `queue_monitor.py`, `tick_validator.py` (they use `sys` without importing it and
  fail on import), the layer 6 `security.py` (it imports a name its library does not
  have), the exchange connectors (an abstract method is left undefined),
  `duckdb_manager.py` (its inserts leave out the primary key).
* *Code nothing calls:* `event_monitor.py`, `RiskEngine.update_peak_capital`,
  `RiskLayer.record_trade`, the recording functions of `agent_optimizer.py`, the
  `VN` risk manager, `RlCtaSignal`, cancelling and rejecting an order.
* *Numerics:* indicators, trees, policies, portfolio, correlation, statistics.  Where
  a loop asks for one of their answers the model allows every one; the divisions
  that raise are modelled.
* *Amounts* in the trading loops are units and prices two or three values; the book
  has sizes and averages.
* *Output:* menus, reports, dashboards, logs, metrics, simulated risk scores.
* *Libraries and services:* Redis, PostgreSQL, the exchange, Telegram, vnpy, the
  operating system: as the code uses them, marked external in `PROJECT.json`.
* *`VN`:* the websocket feed, whose stop always raises, status endpoints, and the
  deployment in which engine, API and watchdog are separate processes that compete
  for a port.
* *Scripts, tests, generated and patching files.*

---

## 8. Plan

1. Done: every component of section 1 with its hazards, the two abstract
   specifications, and the proofs above.
2. Done: a proof of every invariant and every action property that the passing runs check.
   What is left to TLC is liveness.
3. *Model further:* `Ensemble` composed with `AutonomousTrader` in place of the free
   signal, once the state space allows it; the websocket feed.

---

## 9. Running it

```
cd tla
tlc -workers 2 -config TraderSafety.cfg MCAutonomousTrader.tla
tlc -workers 2 -config Orchestrator.cfg Orchestrator.tla
tlc -workers 2 -config Services.cfg MCServices.tla
tlapm AutonomousTraderProofs.tla
tlapm GuardsProofs.tla
```

The longest run takes a few minutes, the proofs about
twenty together, `GuardsProofs` thirteen of them.
