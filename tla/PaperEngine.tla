---------------------------- MODULE PaperEngine ----------------------------
(***************************************************************************)
(* The paper trading engine (paper_trading/engine.py) with its order       *)
(* manager (layer5_execution/order_manager.py): update loops in threads of *)
(* their own, started and stopped by requests that the dashboard (a        *)
(* threaded Flask server), the Telegram commands and the signal handler    *)
(* make, in any order and at the same time.  Nothing is locked.            *)
(*                                                                         *)
(* The engine's own `positions` is never filled: the risk check, which is  *)
(* given it and a daily result that stays 0, always allows, and closing    *)
(* all positions finds none.  What is really held is in the order manager. *)
(* Market data is there in every update (get_latest_data has a default).   *)
(* The signals are left open; the aggregator only ever says buy, sell or   *)
(* nothing, so the order manager's close is not reached from here.         *)
(***************************************************************************)
EXTENDS Integers, FiniteSets

CONSTANTS Loops,      \* update threads that can be alive at the same time
          Requests,   \* threads that serve requests
          Nobody,     \* no update thread yet
          OrderSize,  \* capital * position_size_pct * leverage: never changes
          MaxSize     \* bound on the position

ASSUME PaperAssumption ==
    /\ OrderSize \in Nat \ {0} /\ MaxSize \in Nat /\ OrderSize <= MaxSize
    /\ Nobody \notin Loops

VARIABLES
    running,   \* engine.running
    thread,    \* engine.update_thread
    monitor,   \* engine.health_monitor.running
    position,  \* order_manager.positions[symbol]: its size and side
    pc,        \* where each update loop is
    order,     \* the order each loop is filling and the position it found
    request,   \* what each request is about and where it is
    \* history
    net,       \* the sum of all filled orders
    crossed,   \* two loops have filled orders at the same time
    leaked     \* requests have crossed, or a stop gave up waiting for its loop

lifecycle == <<running, thread, monitor>>
vars == <<lifecycle, position, pc, order, request, net, crossed, leaked>>

Sides == {"long", "short"}
Positions == [size : -MaxSize..MaxSize, side : Sides \cup {"none"}]
Flat == [size |-> 0, side |-> "none"]
NoOrder == [side |-> "none", found |-> Flat]
Idle == [what |-> "nothing", at |-> "idle", joins |-> Nobody]

TypeOK ==
    /\ running \in BOOLEAN /\ monitor \in BOOLEAN
    /\ thread \in Loops \cup {Nobody}
    /\ position \in Positions
    /\ pc \in [Loops -> {"off", "top", "updating", "filling", "sleeping"}]
    /\ order \in [Loops -> [side : Sides \cup {"none"}, found : Positions]]
    /\ request \in [Requests -> [what : {"nothing", "start", "stop", "emergency"},
                                 at : {"idle", "allowed", "launching", "joining", "ending"},
                                 joins : Loops \cup {Nobody}]]
    /\ net \in -MaxSize..MaxSize
    /\ crossed \in BOOLEAN /\ leaked \in BOOLEAN

Init ==
    /\ running = FALSE /\ thread = Nobody /\ monitor = FALSE
    /\ position = Flat
    /\ pc = [l \in Loops |-> "off"]
    /\ order = [l \in Loops |-> NoOrder]
    /\ request = [r \in Requests |-> Idle]
    /\ net = 0 /\ crossed = FALSE /\ leaked = FALSE

Goto(l, step) == pc' = [pc EXCEPT ![l] = step]
Turn(r, step) == request' = [request EXCEPT ![r].at = step]

\* The update threads that have not ended.
Alive == {l \in Loops : pc[l] # "off"}
-----------------------------------------------------------------------------
(***************************************************************************)
(* _update_position.                                                       *)
(***************************************************************************)
Abs(n) == IF n < 0 THEN -n ELSE n
Signed(side, n) == IF side = "long" THEN n ELSE -n
SideOf(n) == IF n > 0 THEN "long" ELSE "short"

\* Mutant of UpdatePosition: the side is left alone when the position is used up.
UpdateKeepsSide(old, side, n) ==
    IF old.size = 0 THEN [size |-> Signed(side, n), side |-> side]
    ELSE IF side = SideOf(old.size) \/ Abs(old.size) >= n
         THEN [old EXCEPT !.size = @ + Signed(side, n)]
         ELSE [size |-> Signed(side, n), side |-> side]

\* An order larger than the position it is directed against takes the position's
\* place with its full size; the rest is computed but not used.
UpdatePosition(old, side, n) ==
    IF old.size = 0 THEN [size |-> Signed(side, n), side |-> side]
    ELSE LET size == old.size + Signed(side, n)
         IN  IF side = SideOf(old.size) THEN [old EXCEPT !.size = size]
             ELSE IF Abs(old.size) >= n
             THEN [size |-> size, side |-> IF size = 0 THEN "none" ELSE old.side]
             ELSE [size |-> Signed(side, n), side |-> side]
-----------------------------------------------------------------------------
(***************************************************************************)
(* An update loop.                                                         *)
(***************************************************************************)
\* Mutant of Round: the loop does not look at the flag.
RoundAlways(l) ==
    /\ pc[l] = "top"
    /\ Goto(l, "updating")
    /\ UNCHANGED <<lifecycle, position, order, request, net, crossed, leaked>>

Round(l) ==
    /\ pc[l] = "top"
    /\ Goto(l, IF running THEN "updating" ELSE "off")
    /\ UNCHANGED <<lifecycle, position, order, request, net, crossed, leaked>>

\* An update without a signal, one that breaches a limit of the risk engine - there are
\* no positions it knows of, so it closes none -, or one that raises.
NoSignal(l) ==
    /\ pc[l] = "updating"
    /\ Goto(l, "sleeping")
    /\ UNCHANGED <<lifecycle, position, order, request, net, crossed, leaked>>

\* An update with one: execute opens a long or a short, whose order is filled at
\* once.  The position is read here and written in Fill; the flag is not looked at
\* again, so an update under way outlives a stop.
Execute(l) ==
    \E side \in Sides :
        /\ pc[l] = "updating"
        /\ position.size + Signed(side, OrderSize) \in -MaxSize..MaxSize
        /\ order' = [order EXCEPT ![l] = [side |-> side, found |-> position]]
        /\ Goto(l, "filling")
        /\ crossed' = (crossed \/ \E k \in Loops : pc[k] = "filling")
        /\ UNCHANGED <<lifecycle, position, request, net, leaked>>

Fill(l) ==
    LET new == UpdatePosition(order[l].found, order[l].side, OrderSize)
    IN  /\ pc[l] = "filling"
        /\ position' = new
        /\ net' = IF crossed THEN 0 ELSE net + Signed(order[l].side, OrderSize)
        /\ order' = [order EXCEPT ![l] = NoOrder]
        /\ Goto(l, "sleeping")
        /\ UNCHANGED <<lifecycle, request, crossed, leaked>>

Wake(l) ==
    /\ pc[l] = "sleeping"
    /\ Goto(l, "top")
    /\ UNCHANGED <<lifecycle, position, order, request, net, crossed, leaked>>
-----------------------------------------------------------------------------
(***************************************************************************)
(* start().  The flag is tested by the caller and again by start() before  *)
(* it is set.                                                              *)
(***************************************************************************)
\* A request begins while another one is under way.
Crossing(r) == leaked' = (leaked \/ \E s \in Requests \ {r} : request[s].at # "idle")

\* Mutant of AllowStart: the test is missing.
AllowAnyStart(r) ==
    /\ request[r].at = "idle"
    /\ request' = [request EXCEPT ![r] = [what |-> "start", at |-> "allowed", joins |-> Nobody]]
    /\ Crossing(r)
    /\ UNCHANGED <<lifecycle, position, pc, order, net, crossed>>

AllowStart(r) ==
    /\ request[r].at = "idle" /\ ~running
    /\ request' = [request EXCEPT ![r] = [what |-> "start", at |-> "allowed", joins |-> Nobody]]
    /\ Crossing(r)
    /\ UNCHANGED <<lifecycle, position, pc, order, net, crossed>>

SetRunning(r) ==
    /\ request[r].at = "allowed" /\ request[r].what = "start"
    /\ running' = TRUE
    /\ Turn(r, "launching")
    /\ UNCHANGED <<thread, monitor, position, pc, order, net, crossed, leaked>>

\* The data client, the health monitor, and a new thread in a free slot.
Launch(r) ==
    \E l \in Loops :
        /\ request[r].at = "launching" /\ pc[l] = "off"
        /\ monitor' = TRUE
        /\ thread' = l
        /\ Goto(l, "top")
        /\ request' = [request EXCEPT ![r] = Idle]
        /\ UNCHANGED <<running, position, order, net, crossed, leaked>>

(***************************************************************************)
(* stop() and emergency_stop(), which closes the positions it knows of -   *)
(* none - before and again at the end of stop().                           *)
(***************************************************************************)
AllowStop(r) ==
    \E what \in {"stop", "emergency"} :
        /\ request[r].at = "idle" /\ running
        /\ request' = [request EXCEPT ![r] = [what |-> what, at |-> "allowed", joins |-> Nobody]]
        /\ Crossing(r)
        /\ UNCHANGED <<lifecycle, position, pc, order, net, crossed>>

ClearRunning(r) ==
    /\ request[r].at = "allowed" /\ request[r].what # "start"
    /\ running' = FALSE
    /\ request' = [request EXCEPT ![r].at = "joining", ![r].joins = thread]
    /\ UNCHANGED <<thread, monitor, position, pc, order, net, crossed, leaked>>

\* join(timeout=5) returns when the thread has ended ...
Join(r) ==
    /\ request[r].at = "joining"
    /\ request[r].joins \notin Alive
    /\ Turn(r, "ending")
    /\ UNCHANGED <<lifecycle, position, pc, order, net, crossed, leaked>>

\* ... or after 5 s, no longer than a loop sleeps.
JoinTimesOut(r) ==
    /\ request[r].at = "joining"
    /\ request[r].joins \in Alive
    /\ leaked' = TRUE
    /\ Turn(r, "ending")
    /\ UNCHANGED <<lifecycle, position, pc, order, net, crossed>>

EndStop(r) ==
    /\ request[r].at = "ending"
    /\ monitor' = FALSE
    /\ request' = [request EXCEPT ![r] = Idle]
    /\ UNCHANGED <<running, thread, position, pc, order, net, crossed, leaked>>
-----------------------------------------------------------------------------
Loop(l) == Round(l) \/ NoSignal(l) \/ Execute(l) \/ Fill(l) \/ Wake(l)

Serve(r) == SetRunning(r) \/ Launch(r) \/ ClearRunning(r) \/ Join(r) \/ JoinTimesOut(r)
            \/ EndStop(r)

Next == \/ \E l \in Loops : Loop(l)
        \/ \E r \in Requests : AllowStart(r) \/ AllowStop(r) \/ Serve(r)

\* Threads run on, exceptions in a loop are caught, joins have a timeout.  Nobody has
\* to make a request.
Fairness == /\ \A l \in Loops : WF_vars(Loop(l))
            /\ \A r \in Requests : WF_vars(Serve(r))

Spec == Init /\ [][Next]_vars /\ Fairness
-----------------------------------------------------------------------------
\* The order manager's position is the sum of all orders it has filled, and its side
\* the sign of that, as long as no two loops were filling at the same time: with
\* equal sizes an order never turns a position over with too much.
PositionIsNet ==
    ~crossed => /\ position.size = net
                /\ position.side = IF net = 0 THEN "none" ELSE SideOf(net)

\* A second loop comes only from crossing requests or from a stop that gave up
\* waiting; two loops that fill at the same time only from a second loop.
OneLoop == ~leaked => Cardinality(Alive) <= 1 /\ ~crossed

\* Between requests that did not cross, the health monitor runs when the engine does.
MonitorFollows ==
    ~leaked /\ (\A r \in Requests : request[r].at = "idle") => monitor = running

\* An engine that stays stopped trades no more: every loop ends, the leaked ones too.
TradingStops == <>[]~running => <>[](Alive = {})
=============================================================================
