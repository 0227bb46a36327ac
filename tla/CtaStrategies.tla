---------------------------- MODULE CtaStrategies ----------------------------
(***************************************************************************)
(* The strategies of strategies/cta_strategies.py, one of them at a time,  *)
(* as vnpy's CtaEngine runs it: bars come one after the other, an order    *)
(* rests until it is filled, in parts perhaps, and a strategy decides by   *)
(* its position alone, which does not know of the orders that rest.        *)
(*                                                                         *)
(* A bar is what the strategy sees in it: whether the price crossed the    *)
(* slow average, how the averages lie, or where the price is in the band.  *)
(***************************************************************************)
EXTENDS Integers, Sequences, SequencesExt

CONSTANTS fixed_size,
          MaxOrders,   \* bound: orders that rest at once
          MaxPosition  \* bound: the position when an order is sent

Kinds == {"momentum", "reversion", "breakout", "rl"}

VARIABLES
  kind,
  trading, \* the engine sends no order of a strategy that is not trading
  pos,
  rl_approved, \* of RlEnhancedCtaStrategy: what the agent said of the last bar
  orders,  \* the amounts of the orders that rest
  crowded  \* history: an order was sent while one rested, since the position was last 0

vars == <<kind, trading, pos, rl_approved, orders, crowded>>

Init ==
  /\ kind \in Kinds
  /\ trading = FALSE /\ pos = 0 /\ rl_approved = TRUE /\ orders = <<>> /\ crowded = FALSE

Abs(n) == IF n < 0 THEN -n ELSE n

-----------------------------------------------------------------------------
\* What the averages say: a crossing is one only with the averages on its side.
Averages == {<<"over", 1>>, <<"under", -1>>} \cup {<<"none", t>> : t \in {-1, 0, 1}}
Bands == {"below lower", "lower half", "upper half", "above upper"}
Channel == {"above", "inside", "below"}
Bars(k) == CASE k \in {"momentum", "rl"} -> Averages [] k = "reversion" -> Bands [] k = "breakout" -> Channel

\* sell and cover of abs(self.pos).
Exit(p) == -p

\* An order towards a side: an entry without a position, and the whole of one on the other side.
Towards(side, p) == IF p = 0 THEN side * fixed_size ELSE IF p * side < 0 THEN Exit(p) ELSE 0

\* The branch without a crossing follows the averages.
Trend(bar, p) == Towards(bar[2], p)

\* MomentumCtaStrategy.on_bar; 0 is no order.
Momentum(bar, p) ==
  CASE bar[1] = "over" -> Towards(1, p)
    [] bar[1] = "under" -> Towards(-1, p)
    [] bar[1] = "none" -> Trend(bar, p)

\* The agent is asked about a crossing, if it is there; when it raises it approves.
Crossed(bar) == kind = "rl" /\ bar[1] # "none"
Answers(bar) == IF Crossed(bar) THEN BOOLEAN ELSE {TRUE}

\* RlEnhancedCtaStrategy: a crossing the agent does not approve of goes the way of no crossing.
Rejected(bar, p) == Trend(bar, p)
Enhanced(bar, p, approved) == IF bar[1] = "none" \/ approved THEN Momentum(bar, p) ELSE Rejected(bar, p)

\* MeanReversionCtaStrategy.  Half a position of 1 is an order of nothing, which no exchange
\* takes: it rests nowhere and fills nothing, so that 0 stands for it as well.
Reversion(bar, p) ==
  CASE p = 0 /\ bar = "below lower" -> fixed_size
    [] p > 0 /\ bar = "above upper" -> Exit(p)
    [] p > 0 /\ bar = "upper half" -> -(p \div 2)
    [] OTHER -> 0

\* BreakoutCtaStrategy
Breakout(bar, p) == IF bar = "above" THEN Towards(1, p) ELSE IF bar = "below" THEN Towards(-1, p) ELSE 0

Decided(bar, p, approved) ==
  CASE kind = "momentum" -> Momentum(bar, p)
    [] kind = "rl" -> Enhanced(bar, p, approved)
    [] kind = "reversion" -> Reversion(bar, p)
    [] kind = "breakout" -> Breakout(bar, p)

-----------------------------------------------------------------------------
OnBar(bar) ==
  /\ \E approved \in Answers(bar) :
       /\ rl_approved' = approved
       /\ LET amount == Decided(bar, pos, approved)
          IN IF trading /\ amount # 0
             THEN /\ Len(orders) < MaxOrders /\ Abs(pos) <= MaxPosition
                  /\ orders' = Append(orders, amount)
                  /\ crowded' = (crowded \/ orders # <<>>)
             ELSE UNCHANGED <<orders, crowded>>
  /\ UNCHANGED <<kind, trading, pos>>

\* Crowded until no order rests and the position is 0.
Settled == crowded /\ (pos' # 0 \/ orders' # <<>>)

\* A trade, for the whole of an order that rests or for a part of it.
Trade(i) ==
  /\ i \in DOMAIN orders
  /\ \E part \in 1..Abs(orders[i]) :
       LET amount == IF orders[i] > 0 THEN part ELSE -part
       IN /\ pos' = pos + amount
          /\ orders' = IF amount = orders[i] THEN RemoveAt(orders, i) ELSE [orders EXCEPT ![i] = @ - amount]
  /\ crowded' = Settled
  /\ UNCHANGED <<kind, trading, rl_approved>>

\* init_strategy and start_strategy; the engine initialises in a thread of its own, and
\* ignores the start of a strategy that is not initialised yet.
StartStrategy == trading' \in BOOLEAN /\ UNCHANGED <<kind, pos, rl_approved, orders, crowded>>

\* stop_strategy, with on_stop: cancel_all.  An order may be filled all the same.
StopStrategy ==
  /\ trading /\ trading' = FALSE
  /\ orders' \in {orders, <<>>}
  /\ UNCHANGED <<kind, pos, rl_approved>>
  /\ crowded' = Settled

Next ==
  \/ \E bar \in Bars(kind) : OnBar(bar)
  \/ \E i \in 1..MaxOrders : Trade(i)
  \/ StartStrategy \/ StopStrategy

-----------------------------------------------------------------------------
\* A position is never larger than an entry, and never short where only the long side is
\* traded, unless the strategy sent an order while another one rested.
OneEntryAtATime == crowded \/ (Abs(pos) <= fixed_size /\ (kind = "reversion" => pos >= 0))

\* Stated by the description of RlEnhancedCtaStrategy, and not so: signals are validated by
\* the agent.  The order of a crossing it does not approve of is sent by the branch
\* without a crossing, whose averages lie as those of the crossing do.
SignalsAreValidated == [][Len(orders') > Len(orders) => rl_approved']_vars
=============================================================================
