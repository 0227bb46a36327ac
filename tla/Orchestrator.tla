---------------------------- MODULE Orchestrator ----------------------------
(***************************************************************************)
(* paper_trading/orchestrator/trading_orchestrator.py with the layers of   *)
(* interfaces/base.py and the event bus.  The main thread runs             *)
(* _autonomous_loop; an operator's thread calls disable_layer,             *)
(* enable_layer, swap_layer and stop; SIGTERM interrupts the main thread   *)
(* wherever it is and runs _signal_handler on top of it.  The orders of    *)
(* execute_command go past all of this to the execution layer, and change  *)
(* none of it.                                                             *)
(*                                                                         *)
(* What stands in the dictionary of layers is a BaseLayer ("layer"), an    *)
(* object that is none ("foreign": no health_check) or None ("none").  The *)
(* program's own _create_layer gives a BaseLayer for the memory only; the  *)
(* others are plugged in.                                                  *)
(***************************************************************************)
EXTENDS EventBus

CONSTANTS Touched,         \* the layers the operator changes
          ValidateEvery,   \* the 50 of step 6d
          EvolveEvery,     \* the 100 of step 6e
          MaxPublished,    \* bound: iterations start while fewer events were published
          MaxFaults,       \* bound: layers that fail
          MaxOrders        \* bound: what the operator does

Layers == {"data", "features", "strategy", "intelligence", "scoring", "risk", "execution", "memory"}

ASSUME OrchestratorAssumption ==
  /\ Touched \subseteq Layers
  /\ {ValidateEvery, EvolveEvery} \subseteq Nat \ {0}
  /\ {MaxPublished, MaxFaults, MaxOrders} \subseteq Nat
  /\ Threads = {"main", "signal", "operator"}
  /\ Types = {"start", "regime", "alert", "opened", "failed", "stop"}

VARIABLES
  kind,         \* what stands in self.layers
  enabled,      \* BaseLayer.enabled
  healthy,      \* BaseLayer._healthy
  running,      \* self.running
  pc,           \* where the main thread is in start and execute
  logged,       \* where it goes on when _log_error returns
  trades,       \* _trade_count
  evolved,      \* history: the values of _trade_count at which evolve ran
  permit,       \* history: the risk layer itself allowed the order of this iteration
  frame,        \* the signal handler: "none", "stopping", "left"
  opens,        \* history: TRADE_OPENED events published
  fills,        \* history: orders the loop had the execution layer fill
  skipped,      \* history: the loop "executed" with the layer disabled
  faults, orders

orchVars == <<kind, enabled, healthy, running, pc, logged, trades, evolved, permit, frame, opens, fills, skipped, faults, orders>>
vars == <<busVars, orchVars>>
wiring == <<kind, enabled, healthy>>
books == <<trades, evolved, opens, fills, skipped>>
bounds == <<faults, orders>>

\* What _create_layer makes of each name.
Shipped(l) ==
  CASE l = "memory" -> "layer"
    [] l \in {"strategy", "scoring"} -> "none"
    [] OTHER -> "foreign"

Init ==
  /\ BusInit
  /\ \/ kind = [l \in Layers |-> Shipped(l)]
     \/ kind = [l \in Layers |-> "layer"]
  /\ enabled = [l \in Layers |-> TRUE]
  /\ healthy = [l \in Layers |-> TRUE]
  /\ running = FALSE
  /\ pc = "off" /\ logged = "off"
  /\ trades = 0 /\ evolved = {} /\ opens = 0 /\ fills = 0
  /\ skipped = FALSE /\ permit = FALSE
  /\ frame = "none"
  /\ faults = 0 /\ orders = 0

-----------------------------------------------------------------------------
\* The main thread goes on only when nothing interrupts it and it is not inside
\* publish.
Main(at) == pc = at /\ frame # "stopping" /\ Silent("main")

Goto(at) == pc' = at /\ UNCHANGED logged

\* _log_error, which swallows whatever is raised in it, and then on to "at".
LogThen(at) == pc' = "logging" /\ logged' = at

Start ==
  /\ Main("off")
  /\ running' = TRUE
  /\ Publish("main", "start")
  /\ Goto("loop")
  /\ UNCHANGED <<wiring, books, permit, frame, bounds>>

\* Mutant of Continue: the loop does not look at self.running.
ContinueAlways == TRUE

\* while self.running
Continue == running

\* _autonomous_loop: the next iteration, or the end of it.  sleep(update_interval) is in between.
Loop ==
  /\ Main("loop")
  /\ published < MaxPublished \/ ~Continue
  /\ Goto(IF Continue THEN "data" ELSE "ended")
  /\ permit' = FALSE
  /\ UNCHANGED <<busVars, wiring, running, books, frame, bounds>>

Logged ==
  /\ Main("logging")
  /\ Goto(logged)
  /\ UNCHANGED <<busVars, wiring, running, books, permit, frame, bounds>>

\* Mutant of Trusted: an unhealthy layer is tried again.
TrustedAlways(l) == TRUE

\* layer.health_check()
Trusted(l) == healthy[l]

Healed(l) == healthy' = [healthy EXCEPT ![l] = TRUE]
Marked(l) == healthy' = [healthy EXCEPT ![l] = FALSE]

\* _safe_execute returns a result that is not a success.
Fails(l, failed) ==
  \/ kind[l] = "none" /\ Goto(failed) /\ UNCHANGED <<healthy, faults>>
  \/ kind[l] = "layer" /\ enabled[l] /\ ~Trusted(l) /\ LogThen(failed) /\ Marked(l) /\ UNCHANGED faults
  \/ /\ kind[l] = "layer" /\ enabled[l] /\ Trusted(l)
     /\ faults < MaxFaults /\ faults' = faults + 1
     /\ Marked(l)
     /\ LogThen(failed) \/ Goto(failed)

\* _safe_execute raises: health_check, or enabled, is missing.
Raises(l) == kind[l] = "foreign" /\ enabled[l]

\* _safe_execute returns a success without a result: the layer is disabled.
Passes(l) == kind[l] # "none" /\ ~enabled[l]

Works(l) == kind[l] = "layer" /\ enabled[l] /\ Trusted(l)

\* An iteration ends with an exception, which _autonomous_loop logs.
Abort == LogThen("loop")

\* Steps 1 to 3 and 5: a failure ends the iteration.
Stage(l, next) ==
  /\ Main(l)
  /\ \/ Fails(l, "loop")
     \/ Raises(l) /\ Abort /\ UNCHANGED <<healthy, faults>>
     \/ Passes(l) /\ Goto(next) /\ UNCHANGED <<healthy, faults>>
     \/ Works(l) /\ Healed(l) /\ Goto(next) /\ UNCHANGED faults
  /\ UNCHANGED <<busVars, kind, enabled, running, books, permit, frame, orders>>

\* Step 4: without a regime the loop goes on, the regime counts as sideways.
Intelligence ==
  /\ Main("intelligence")
  /\ \/ Fails("intelligence", "scoring")
     \/ Raises("intelligence") /\ Abort /\ UNCHANGED <<healthy, faults>>
     \/ Passes("intelligence") /\ Goto("scoring") /\ UNCHANGED <<healthy, faults>>
     \/ /\ Works("intelligence") /\ Healed("intelligence") /\ UNCHANGED faults
        /\ Goto("scoring") \/ Goto("regime")
  /\ UNCHANGED <<busVars, kind, enabled, running, books, permit, frame, orders>>

\* The event of a regime that changed, of a correlation risk or of a failed validation.
Emit(at, type, next) ==
  /\ Main(at)
  /\ Publish("main", type)
  /\ Goto(next)
  /\ UNCHANGED <<wiring, running, books, permit, frame, bounds>>

\* Mutant of ByDefault: a result that says nothing permits.
ByDefaultAllowed == TRUE

\* risk_result.get('allowed', False): the result of a disabled layer is empty.
ByDefault == FALSE

\* A rejection ends the iteration.
Decide(allowed) ==
  /\ Goto(IF allowed THEN "correlation" ELSE "loop")

\* Step 6.  The balance is asked of the execution layer first.
Risk ==
  /\ Main("risk")
  /\ \/ (kind["execution"] # "layer" \/ Raises("risk")) /\ Abort /\ UNCHANGED <<healthy, faults, permit>>
     \/ /\ kind["execution"] = "layer"
        /\ \/ Fails("risk", "loop") /\ UNCHANGED permit
           \/ Passes("risk") /\ Decide(ByDefault) /\ UNCHANGED <<healthy, faults, permit>>
           \/ /\ Works("risk") /\ Healed("risk") /\ UNCHANGED faults
              /\ permit' \in BOOLEAN /\ Decide(permit')
  /\ UNCHANGED <<busVars, kind, enabled, running, books, frame, orders>>

\* self._trade_count % n == 0, for as long as the count rests there.
Due(n) == trades % n = 0

\* Steps 6b and 6d: an alert is published, or there is no reason to.
Correlation ==
  /\ Main("correlation")
  /\ Goto("risky") \/ Goto("validation")
  /\ UNCHANGED <<busVars, wiring, running, books, permit, frame, bounds>>

\* Steps 6c to 6d.  What the portfolio and the uncertainty of the forecast make of the
\* size is left out: step 7 puts the one of the risk layer in its place.
Validation ==
  /\ Main("validation")
  /\ Goto("evolution") \/ (Due(ValidateEvery) /\ Goto("invalid"))
  /\ UNCHANGED <<busVars, wiring, running, books, permit, frame, bounds>>

\* Step 6e.
Evolution ==
  /\ Main("evolution")
  /\ evolved' = IF Due(EvolveEvery) THEN evolved \cup {trades} ELSE evolved
  /\ Goto("execution")
  /\ UNCHANGED <<busVars, wiring, running, trades, opens, fills, skipped, permit, frame, bounds>>

\* Step 7.
Execution ==
  /\ Main("execution")
  /\ \/ Fails("execution", "failed") /\ UNCHANGED <<fills, skipped>>
     \/ Raises("execution") /\ Abort /\ UNCHANGED <<healthy, faults, fills, skipped>>
     \/ /\ Passes("execution") /\ Goto("opened")
        /\ skipped' = TRUE /\ UNCHANGED <<healthy, faults, fills>>
     \/ /\ Works("execution") /\ Healed("execution") /\ Goto("opened")
        /\ fills' = fills + 1 /\ UNCHANGED <<faults, skipped>>
  /\ UNCHANGED <<busVars, kind, enabled, running, trades, evolved, opens, permit, frame, orders>>

Opened ==
  /\ Main("opened")
  /\ Publish("main", "opened")
  /\ opens' = opens + 1
  /\ Goto("count")
  /\ UNCHANGED <<wiring, running, trades, evolved, fills, skipped, permit, frame, bounds>>

Count ==
  /\ Main("count")
  /\ trades' = trades + 1
  /\ Goto("memory")
  /\ UNCHANGED <<busVars, wiring, running, evolved, opens, fills, skipped, permit, frame, bounds>>

\* Step 8: whatever the memory answers, the iteration is over.
Memory ==
  /\ Main("memory")
  /\ \/ Fails("memory", "loop")
     \/ Passes("memory") /\ Goto("loop") /\ UNCHANGED <<healthy, faults>>
     \/ Works("memory") /\ Healed("memory") /\ Goto("loop") /\ UNCHANGED faults
  /\ UNCHANGED <<busVars, kind, enabled, running, books, permit, frame, orders>>

MainPublishes ==
  /\ frame # "stopping"
  /\ PublishStep("main")
  /\ UNCHANGED orchVars

MainStep ==
  \/ Start \/ Loop \/ Logged
  \/ Stage("data", "features") \/ Stage("features", "strategy") \/ Stage("strategy", "intelligence")
  \/ Intelligence \/ Emit("regime", "regime", "scoring")
  \/ Stage("scoring", "risk") \/ Risk \/ Correlation \/ Emit("risky", "alert", "validation")
  \/ Validation \/ Emit("invalid", "alert", "evolution") \/ Evolution
  \/ Execution \/ Opened \/ Count \/ Emit("failed", "failed", "memory") \/ Memory
  \/ MainPublishes

-----------------------------------------------------------------------------
\* SIGTERM: stop() runs on top of whatever the main thread was doing.
Signal ==
  /\ pc \notin {"off", "ended"}
  /\ frame = "none"
  /\ frame' = "stopping"
  /\ running' = FALSE
  /\ Publish("signal", "stop")
  /\ UNCHANGED <<wiring, pc, logged, books, permit, bounds>>

SignalPublishes ==
  /\ PublishStep("signal")
  /\ UNCHANGED orchVars

\* sys.exit: the main thread unwinds, unless it was inside the bare except of
\* _log_error, where it goes on as if nothing had been raised.
Exit ==
  /\ frame = "stopping"
  /\ Silent("signal")
  /\ frame' = "left"
  /\ IF pc = "logging"
     THEN Goto(logged) /\ UNCHANGED busVars
     ELSE /\ Goto("ended")
          /\ call' = [call EXCEPT !["main"] = Quiet]
          /\ UNCHANGED <<lock, subscribers, history, published>>
  /\ UNCHANGED <<wiring, running, books, permit, bounds>>

-----------------------------------------------------------------------------
Order == orders < MaxOrders /\ orders' = orders + 1

\* disable_layer and enable_layer set the attribute of whatever is there.
SetEnabled(l, on) ==
  /\ Order
  /\ kind[l] # "none"
  /\ enabled' = [enabled EXCEPT ![l] = on]
  /\ UNCHANGED <<busVars, kind, healthy, running, pc, logged, books, permit, frame, faults>>

\* swap_layer: the new type is only written down, _create_layer makes the same
\* object for every type; a name it has no object for keeps the old one.
Swap(l) ==
  /\ Order
  /\ Shipped(l) # "none"
  /\ kind' = [kind EXCEPT ![l] = Shipped(l)]
  /\ enabled' = [enabled EXCEPT ![l] = TRUE]
  /\ Healed(l)
  /\ UNCHANGED <<busVars, running, pc, logged, books, permit, frame, faults>>

\* stop() from another thread: the iteration under way is finished.
Stop ==
  /\ Order
  /\ pc # "off"
  /\ running' = FALSE
  /\ Publish("operator", "stop")
  /\ UNCHANGED <<wiring, pc, logged, books, permit, frame, faults>>

Register ==
  /\ Order
  /\ \E h \in Handlers : Subscribe("opened", h) \/ Unsubscribe("opened", h)
  /\ UNCHANGED <<wiring, running, pc, logged, books, permit, frame, faults>>

OperatorPublishes ==
  /\ PublishStep("operator")
  /\ UNCHANGED orchVars

Operate ==
  \/ \E l \in Touched : (\E on \in BOOLEAN : SetEnabled(l, on)) \/ Swap(l)
  \/ Stop
  \/ Register

SignalStep == SignalPublishes \/ Exit

Next == MainStep \/ Signal \/ SignalStep \/ Operate \/ OperatorPublishes

\* The threads are scheduled; nothing makes a signal or an operator come.
Fairness == WF_vars(MainStep) /\ WF_vars(SignalStep) /\ WF_vars(OperatorPublishes)

Spec == Init /\ [][Next]_vars /\ Fairness

-----------------------------------------------------------------------------
\* The layers, the trade counter and the event history agree: each trade that was
\* counted was published, each that was published was filled by the execution
\* layer, unless that layer was disabled, which counts as an opened trade; and
\* the history holds the latest events without a gap.
OpenedIsFilled ==
  /\ opens - trades \in {0, 1}
  /\ fills >= opens \/ skipped
  /\ \A i \in 1..Len(history) : history[i].number = published - Len(history) + i

\* A layer that was marked unhealthy is not asked again, whatever its error was:
\* only an object put in its place by swap_layer makes the layer work again.
FailureLatches ==
  [][\A l \in Layers : ~healthy[l] /\ healthy'[l] => l \in Touched /\ orders' = orders + 1]_vars

\* The loop fills no order unless the risk layer itself allowed it in the same
\* iteration, neither while that layer is disabled nor after it failed, and none
\* at a count at which the population is due to evolve before it has evolved.
FillsAreChecked == [][fills' > fills => permit /\ (Due(EvolveEvery) => trades \in evolved)]_vars

\* SIGTERM ends the program, unless it arrived while the main thread held the
\* lock of the event bus: then stop() waits for that lock, on top of the only
\* thread that could release it, for ever.
ShutdownEnds == frame = "stopping" ~> (pc = "ended" \/ lock = "main")
=============================================================================
