----------------------------- MODULE VnpyEngine -----------------------------
(***************************************************************************)
(* The VN.PY trading engine (vnpy_local/main_engine.py) as the watchdog    *)
(* process runs it: one process in which the API serves requests, a market *)
(* data thread feeds the engine, the watchdog restarts it, and the state   *)
(* layer of SharedState stores its position.  The API handlers never       *)
(* await inside the engine, so the API is one thread.                      *)
(*                                                                         *)
(* Nothing in the engine is locked.  A step of the model is what happens   *)
(* between two points where another thread can matter: reading a position, *)
(* writing it, serialising it, sending it.  What the learned policy        *)
(* decides is left open; the CTA strategies only write log entries.        *)
(***************************************************************************)
EXTENDS SharedState, FiniteSets

CONSTANTS Feeds,        \* market data threads that can exist at once
          Api, Dog,     \* the API thread and the watchdog thread
          Traders,      \* the threads whose market data leads to orders
          Targets,      \* sizes asked for through /api/v1/position/set
          MaxFailures   \* Watchdog.max_failures

Threads == Feeds \cup {Api, Dog}

ASSUME VnpyAssumption ==
    /\ MaxFailures \in Nat \ {0}
    /\ Targets \subseteq Sizes
    /\ Api # Dog /\ {Api, Dog} \cap Feeds = {}
    /\ Feeds # {} /\ IsFiniteSet(Feeds)
    /\ Traders \subseteq Feeds \cup {Api}

VARIABLES
    running,   \* engine.running
    armed,     \* "RL_Strategy" in engine.strategies
    held,      \* engine.positions[symbol]: a reference, or absent
    feeding,   \* market_data._running
    failures,  \* watchdog.failure_count
    pc,        \* where each thread is in an order, a start, a stop or a check
    job,       \* locals of each thread: the action, the dict, the number read
    \* history
    net,       \* what the orders add up to, while there is no doubt
    doubt,     \* something has happened that can separate them from the position
    blamed     \* failures handled since the process or the last restart began

engine == <<running, armed, held, feeding>>
ghosts == <<net, doubt, blamed>>
vars   == <<stores, engine, failures, pc, job, ghosts>>

NoJob == [action |-> "save", ref |-> Absent, number |-> 0]

Init ==
    /\ StoresInit
    /\ running = FALSE /\ armed = FALSE /\ held = Absent /\ feeding = FALSE
    /\ failures = 0
    /\ pc = [t \in Threads |-> "off"]
    /\ job = [t \in Threads |-> NoJob]
    /\ net = 0 /\ doubt = FALSE /\ blamed = 0

Goto(t, step) == pc' = [pc EXCEPT ![t] = step]

\* A dict nobody refers to.
Fresh(r) == r \notin {held, cache.position} \cup {job[t].ref : t \in Threads}

\* Once in doubt, the sum of the orders is no longer followed.
Follow(sum, why) ==
    /\ doubt' = (doubt \/ why)
    /\ net' = IF doubt' THEN 0 ELSE sum
-----------------------------------------------------------------------------
(***************************************************************************)
(* The process.  run_watchdog imports the state layer, starts the watchdog *)
(* thread and serves the API, whose startup handler starts the engine.     *)
(***************************************************************************)
Boot(r) ==
    /\ ~up
    /\ Connect(r)
    /\ pc' = [t \in Threads |-> CASE t = Api -> "starting"
                                  [] t = Dog -> "idle"
                                  [] OTHER   -> "off"]
    /\ UNCHANGED <<engine, failures, job, ghosts>>

\* A crash, a kill, or the exit after the shutdown handler.  An order that was
\* filled in memory but not stored yet is lost with it.
Down ==
    /\ up
    /\ Forget
    /\ running' = FALSE /\ armed' = FALSE /\ held' = Absent /\ feeding' = FALSE
    /\ failures' = 0 /\ blamed' = 0
    /\ pc' = [t \in Threads |-> "off"]
    /\ job' = [t \in Threads |-> NoJob]
    /\ Follow(net, \E t \in Threads : pc[t] \in {"written", "dumped"})
-----------------------------------------------------------------------------
(***************************************************************************)
(* Orders.  process_market_data checks that the engine runs, reads the     *)
(* position for the policy, and carries out what it decides.  Both the     *)
(* feed and the API (place_order, the websocket) enter here; place_order   *)
(* drops the action it was asked for.                                      *)
(***************************************************************************)
ProcessMarketData(t) ==
    /\ pc[t] = "idle" /\ t \in Traders
    /\ t \in Feeds => feeding
    /\ running /\ armed
    /\ job' = [job EXCEPT ![t].action = "policy"]
    /\ Goto(t, "chosen")
    /\ UNCHANGED <<stores, engine, failures, ghosts>>

\* set_position_target moves by one order towards the target, whatever the
\* distance, and whether or not the engine runs.
SetPositionTarget ==
    \E target \in Targets \ {SizeOf(held)} :
        /\ pc[Api] = "idle"
        /\ job' = [job EXCEPT ![Api].action =
                      IF target > SizeOf(held) THEN "buy" ELSE "sell"]
        /\ Goto(Api, "chosen")
        /\ UNCHANGED <<stores, engine, failures, ghosts>>

After(action, n) == CASE action = "buy"  -> n + 1
                      [] action = "sell" -> n - 1
                      [] OTHER           -> 0

\* _execute_action finds or makes the position and reads its size.  (The policy
\* decides before that; its decision is looked at only here.  MaxSize bounds it.)
\* In doubt if the engine has not loaded its positions: the API serves already
\* when it finds the engine being started by the watchdog.
ReadPosition(t, r) ==
    LET ref == IF held = Absent THEN r ELSE held
    IN  /\ pc[t] = "chosen" /\ (held = Absent => Fresh(r))
        /\ \E a \in {"buy", "sell", "close"} :
              /\ job[t].action \in {"policy", a}
              /\ After(a, SizeOf(held)) \in Sizes
              /\ job' = [job EXCEPT ![t] = [action |-> a, ref |-> ref,
                                           number |-> SizeOf(held)]]
        /\ held' = ref
        /\ heap' = IF held = Absent THEN [heap EXCEPT ![r] = 0] ELSE heap
        /\ Goto(t, "read")
        /\ Follow(net, ~armed)
        /\ UNCHANGED <<redisUp, redis, up, client, cache, disk, backing, running,
                       armed, feeding, failures, blamed>>

\* The new size is computed from the number read.  In doubt if the position has
\* changed since, or if the engine has dropped this dict meanwhile.
WritePosition(t) ==
    LET ref == job[t].ref
    IN  /\ pc[t] = "read"
        /\ heap' = [heap EXCEPT ![ref] = After(job[t].action, job[t].number)]
        /\ held' = ref
        /\ Goto(t, "written")
        /\ Follow(After(job[t].action, net),
                  heap[ref] # job[t].number \/ held # ref)
        /\ UNCHANGED <<redisUp, redis, up, client, cache, disk, backing, running,
                       armed, feeding, failures, job, blamed>>

\* set_position: first json.dumps ...
DumpPosition(t) ==
    /\ pc[t] = "written"
    /\ job' = [job EXCEPT ![t].number = heap[job[t].ref]]
    /\ Goto(t, "dumped")
    /\ UNCHANGED <<stores, engine, failures, ghosts>>

\* ... then Redis.  In doubt if Redis does not take it, or if the position has
\* changed since it was serialised.
SendPosition(t) ==
    LET ref == job[t].ref
    IN  /\ pc[t] = "dumped"
        /\ SetPosition(ref, job[t].number)
        /\ Goto(t, IF job[t].action = "save" THEN "reporting" ELSE "idle")
        /\ job' = [job EXCEPT ![t] = NoJob]
        /\ Follow(net, ~client \/ ~redisUp \/ job[t].number # heap[ref])
        /\ UNCHANGED <<redisUp, up, client, heap, disk, backing, engine, failures, blamed>>

\* A feed thread looks at _running between two rounds.
FeedEnds(t) ==
    /\ pc[t] = "idle" /\ t \in Feeds /\ ~feeding
    /\ Goto(t, "off")
    /\ UNCHANGED <<stores, engine, failures, job, ghosts>>
-----------------------------------------------------------------------------
(***************************************************************************)
(* stop(): by the shutdown handler of the API and by the watchdog.         *)
(***************************************************************************)
Shutdown ==
    /\ pc[Api] = "idle"
    /\ Goto(Api, "stopping")
    /\ UNCHANGED <<stores, engine, failures, job, ghosts>>

\* Mutant of StopEngine: the engine still believes it runs.
StopEngineHalfway(t) ==
    /\ pc[t] = "stopping"
    /\ running' = running /\ feeding' = FALSE
    /\ IF held = Absent
       THEN Goto(t, "reporting") /\ UNCHANGED job
       ELSE Goto(t, "written") /\ job' = [job EXCEPT ![t] = [NoJob EXCEPT !.ref = held]]
    /\ UNCHANGED <<stores, armed, held, failures, ghosts>>

StopEngine(t) ==
    /\ pc[t] = "stopping"
    /\ running' = FALSE /\ feeding' = FALSE
    /\ IF held = Absent
       THEN Goto(t, "reporting") /\ UNCHANGED job
       ELSE Goto(t, "written") /\ job' = [job EXCEPT ![t] = [NoJob EXCEPT !.ref = held]]
    /\ UNCHANGED <<stores, armed, held, failures, ghosts>>

\* The status is the last thing stop() sets.  The process of the API then ends.
ReportStopped(t) ==
    /\ pc[t] = "reporting"
    /\ SetSystemStatus("stopped")
    /\ Goto(t, IF t = Dog THEN "sleeping" ELSE "off")
    /\ UNCHANGED <<redisUp, redis, up, client, heap, disk, backing, engine, failures,
                   job, ghosts>>

(***************************************************************************)
(* start(): by the startup handler of the API and by the watchdog.         *)
(***************************************************************************)
StartEngine(t) ==
    /\ pc[t] = "starting"
    /\ IF running
       THEN Goto(t, "idle") /\ failures' = IF t = Dog THEN 0 ELSE failures
       ELSE Goto(t, "claiming") /\ UNCHANGED failures
    /\ UNCHANGED <<stores, engine, job, ghosts>>

\* What the other thread did since running was looked at does not matter; the feed, if
\* the other one has started it, is not started again.
StartFeed(t) ==
    /\ pc[t] = "claiming"
    /\ running' = TRUE /\ feeding' = TRUE
    /\ \/ feeding /\ Goto(t, "loading")
       \/ ~feeding /\ \E f \in Feeds :
            pc[f] = "off" /\ pc' = [pc EXCEPT ![t] = "loading", ![f] = "idle"]
    /\ UNCHANGED <<stores, armed, held, failures, job, ghosts>>

\* In doubt if there is no client to ask, if the cache overrides Redis with another
\* size (a backup that is not the latest word), or if the engine drops the dict it
\* had.
LoadPositions(t, r) ==
    /\ pc[t] = "loading" /\ ~PositionsUnreadable
    /\ (cache.position = Absent => Fresh(r))
    /\ held' = GetAllPositions(r)
    /\ Fetch(r)
    /\ Goto(t, "announcing")
    /\ Follow(net, \/ ~client
                   \/ cache.position # Absent /\ SizeOf(cache.position) # Stored
                   \/ held # Absent /\ held' # held)
    /\ UNCHANGED <<redisUp, redis, up, client, disk, backing, running, armed, feeding,
                   failures, job, blamed>>

\* The exception of get_all_positions: the watchdog logs it and goes on, with the
\* engine running, its status "stopped" and its positions untouched; the API's
\* process ends.
LoadRaises(t) ==
    /\ pc[t] = "loading" /\ PositionsUnreadable
    /\ Goto(t, IF t = Dog THEN "idle" ELSE "off")
    /\ failures' = IF t = Dog THEN 0 ELSE failures
    /\ UNCHANGED <<stores, engine, job, ghosts>>

\* Mutant of AnnounceRunning: the watchdog's count is not cleared.
AnnounceKeepsCount(t) ==
    /\ pc[t] = "announcing"
    /\ armed' = TRUE
    /\ SetSystemStatus("running")
    /\ Goto(t, "idle")
    /\ failures' = failures
    /\ UNCHANGED <<redisUp, redis, up, client, heap, disk, backing, running, held, feeding,
                   job, ghosts>>

\* _start_strategies, then the status.
AnnounceRunning(t) ==
    /\ pc[t] = "announcing"
    /\ armed' = TRUE
    /\ SetSystemStatus("running")
    /\ Goto(t, "idle")
    /\ failures' = IF t = Dog THEN 0 ELSE failures
    /\ UNCHANGED <<redisUp, redis, up, client, heap, disk, backing, running, held, feeding,
                   job, ghosts>>
-----------------------------------------------------------------------------
(***************************************************************************)
(* The watchdog.  A failure is a check that finds the engine stopped, or a *)
(* check that raises (a checkpoint file that disappears, say).  Checks     *)
(* that find nothing wrong do not clear the count.                         *)
(***************************************************************************)
HandleFailure ==
    /\ failures' = failures + 1
    /\ blamed' = IF blamed < MaxFailures THEN blamed + 1 ELSE blamed
    /\ Goto(Dog, IF failures' >= MaxFailures THEN "restarting" ELSE "idle")
    /\ UNCHANGED <<stores, engine, job, net, doubt>>

HealthCheck ==
    /\ pc[Dog] = "idle"
    /\ cache.status = "stopped"
    /\ HandleFailure

CheckRaises == pc[Dog] = "idle" /\ HandleFailure

RestartEngine ==
    /\ pc[Dog] = "restarting"
    /\ SetSystemStatus("restarting")
    /\ blamed' = 0
    /\ Goto(Dog, "stopping")
    /\ UNCHANGED <<redisUp, redis, up, client, heap, disk, backing, engine, failures,
                   job, net, doubt>>

\* time.sleep(2), longer than a feed thread sleeps before it looks at _running:
\* only a thread in the middle of an order outlives it.
WakeUp ==
    /\ pc[Dog] = "sleeping"
    /\ feeding \/ \A f \in Feeds : pc[f] # "idle"
    /\ Goto(Dog, "starting")
    /\ UNCHANGED <<stores, engine, failures, job, ghosts>>
-----------------------------------------------------------------------------
Store == StoreStep /\ UNCHANGED <<engine, failures, pc, job, ghosts>>

Order(t) == ProcessMarketData(t) \/ (\E r \in Refs : ReadPosition(t, r))
            \/ WritePosition(t) \/ DumpPosition(t) \/ SendPosition(t)

StartStop(t) == StopEngine(t) \/ ReportStopped(t) \/ StartEngine(t) \/ StartFeed(t)
                \/ LoadRaises(t) \/ (\E r \in Refs : LoadPositions(t, r)) \/ AnnounceRunning(t)

Watch == HealthCheck \/ CheckRaises \/ RestartEngine \/ WakeUp

Next == \/ \E r \in Refs : Boot(r)
        \/ Down
        \/ Store
        \/ \E t \in Threads : Order(t) \/ StartStop(t) \/ FeedEnds(t)
        \/ SetPositionTarget \/ Shutdown
        \/ Watch

(***************************************************************************)
(* Every thread that is in the middle of something goes on: requests to    *)
(* Redis have timeouts and the watchdog's loop catches everything.  Redis  *)
(* comes back (restart: unless-stopped), and so does the process, which    *)
(* ends when its API does.                                                 *)
(***************************************************************************)
Fairness ==
    /\ WF_vars(RedisReturns /\ UNCHANGED <<engine, failures, pc, job, ghosts>>)
    /\ WF_vars(\E r \in Refs : Boot(r)) /\ WF_vars(pc[Api] = "off" /\ Down)
    /\ WF_vars(HealthCheck) /\ WF_vars(RestartEngine) /\ WF_vars(WakeUp)
    /\ \A f \in Feeds : WF_vars(Order(f)) /\ WF_vars(FeedEnds(f))
    /\ \A t \in {Api, Dog} :
          WF_vars(StartStop(t)) /\ WF_vars(DumpPosition(t) \/ SendPosition(t))

Spec == Init /\ [][Next]_vars /\ Fairness
-----------------------------------------------------------------------------
\* Redis holds the sum of all orders whenever no order is on its way to it -
\* through crashes, restarts, stale and torn backups - unless one of the events
\* that raise a doubt has happened.
StoredIsNet ==
    (\A t \in Threads : pc[t] \notin {"written", "dumped"}) /\ ~doubt
        => Stored = net

\* So does the engine, once it has loaded its positions.
HeldIsNet == armed /\ ~doubt => SizeOf(held) = net

\* The watchdog restarts the engine only after MaxFailures failures that came
\* after the previous restart.
RestartIsEarned ==
    [][pc[Dog] # "restarting" /\ pc'[Dog] = "restarting" => blamed' >= MaxFailures]_vars

\* An engine that is reported stopped runs again: by the watchdog, if the process
\* lives on, however often Redis makes its restart fail.
Heals == <>[](up /\ redisUp) => []<>(cache.status = "running")
=============================================================================
