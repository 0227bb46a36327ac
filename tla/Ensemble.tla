------------------------------ MODULE Ensemble ------------------------------
(***************************************************************************)
(* How AutonomousTrader makes an action of prices (_generate_signal): two  *)
(* strategies and their aggregator, the self-learning model, and the vote  *)
(* of the intelligence ensemble, which has the last word.                  *)
(*                                                                         *)
(* The trader asks for its loop, again for its dashboard and sometimes for *)
(* a report, at the price of that moment; all feed the same strategies,    *)
(* the same regime detector and the same buffer of experience.             *)
(***************************************************************************)
EXTENDS Integers, Sequences, SequencesExt, FiniteSets, FiniteSetsExt

CONSTANTS Prices,                 \* positive; 0 is the price of a failed request
          fast_window, slow_window, period,
          Window,                 \* prices before a regime is estimated (20)
          min_samples

Actions == {"hold", "buy", "sell"}
None == "none"

VARIABLES
  history,  \* the prices the strategies were given, the last of them
  first,    \* the first price they were given, 0 before
  zeros,    \* the regime detector's window: which of its prices were 0
  bars,     \* prices the trader has kept, up to Window
  seen,     \* prices the ensemble has kept, up to Window
  labels, samples, \* actions in the experience buffer and their number, up to min_samples
  model,    \* the actions the model was trained on, none without one
  turn,     \* who asks next
  answer,   \* the last answer: the action, and whether it was voted
  told      \* history: the last crossing the strategy told to anybody

vars == <<history, first, zeros, bars, seen, labels, samples, model, turn, answer, told>>

Least(a, b) == IF a < b THEN a ELSE b
LastOf(s, n) == SubSeq(s, IF Len(s) > n THEN Len(s) - n + 1 ELSE 1, Len(s))
Total(s) == FoldSeq(LAMBDA a, b : a + b, 0, s)

\* A trader that starts, with the model it loaded or none.
Init ==
  /\ history = <<>> /\ first = 0 /\ zeros = <<>> /\ bars = 0 /\ seen = 0
  /\ model \in {{}, {"hold"}, {"hold", "buy"}}
  /\ labels = model /\ samples = IF model = {} THEN 0 ELSE min_samples
  /\ turn = "loop"
  /\ answer = [action |-> "hold", voted |-> TRUE]
  /\ told = None

-----------------------------------------------------------------------------
\* MACrossoverStrategy.update: the windows before the last price are divided by
\* their full length also when the history is too short to fill them.
Fast(s) == Total(LastOf(s, fast_window))
Slow(s) == Total(LastOf(s, slow_window))
Above(s) == Fast(s) * slow_window > Slow(s) * fast_window
Below(s) == Fast(s) * slow_window < Slow(s) * fast_window

\* On which side of the slow average the fast one is.
Side(s) == IF Above(s) THEN "buy" ELSE IF Below(s) THEN "sell" ELSE None

Crossing(s) == IF Len(s) >= slow_window /\ Side(s) # Side(Front(s)) THEN Side(s) ELSE None

\* RSIStrategy: the share of the gains in the changes of a period, 100 without a loss.
Changes(s) == LET w == LastOf(s, period + 1) IN [i \in 1..period |-> w[i + 1] - w[i]]

\* The index runs over the end: the last change is the one from the last price to the first.
Wrapped(s, start) == Append(Tail(Changes(s)), start - Last(s))

Gain(changes) == Total([i \in 1..period |-> IF changes[i] > 0 THEN changes[i] ELSE 0])
Loss(changes) == Total([i \in 1..period |-> IF changes[i] < 0 THEN -changes[i] ELSE 0])
Oversold(c) == Loss(c) # 0 /\ 10 * Gain(c) < 3 * (Gain(c) + Loss(c))
Overbought(c) == Loss(c) = 0 \/ 10 * Gain(c) > 7 * (Gain(c) + Loss(c))

\* _calculate_prev_rsi is that of the last changes themselves; without one 50 stands in.
Reversal(s, start) ==
  IF Len(s) < period + 2 THEN None
  ELSE IF Oversold(Changes(s)) /\ ~Oversold(Wrapped(s, start)) THEN "buy"
  ELSE IF Overbought(Changes(s)) /\ ~Overbought(Wrapped(s, start)) THEN "sell"
  ELSE None

-----------------------------------------------------------------------------
\* SignalAggregator._combine_signals: weights 4 and 3, and a consensus from 6 tenths.
Weights == [crossing |-> 4, reversal |-> 3]

Score(signals, action) == MapThenSumSet(LAMBDA k : Weights[k], {k \in DOMAIN signals : signals[k] = action})

Consensus(signals, action) ==
  LET total == Score(signals, "buy") + Score(signals, "sell")
  IN total # 0 /\ 10 * Score(signals, action) >= 6 * total

Aggregated(s, start) ==
  LET signals == [crossing |-> Crossing(s), reversal |-> Reversal(s, start)]
  IN IF Consensus(signals, "buy") THEN "buy" ELSE IF Consensus(signals, "sell") THEN "sell" ELSE "hold"

\* SelfLearningEngine.predict: one of the actions it was trained on, and no answer without
\* a model or when it raises, on a history with a price of 0 or before the model was fitted.
\* To no answer, the action of before stays; the vote that is missing might be to hold.
Predictions(otherwise) == model \cup {otherwise}

\* The decision tree's vote.  It is given the price without a history, so that all of
\* its features are 0, and it is never trained: it holds.
TreeVote == "hold"

\* Mutant of Combined: of two actions with as many votes the last is taken.
CombinedLast(votes) == Last(votes)

\* _combine_votes: max takes the first of those with the most votes.
Votes(votes, i) == Cardinality({j \in DOMAIN votes : votes[j] = votes[i]})
Combined(votes) ==
  votes[CHOOSE i \in DOMAIN votes : \A j \in DOMAIN votes :
          Votes(votes, j) < Votes(votes, i) \/ (Votes(votes, j) = Votes(votes, i) /\ i <= j)]

-----------------------------------------------------------------------------
\* HMMRegimeDetector.update: the estimate divides by the first price of its window.
Observed(window, price) == LastOf(Append(window, price = 0), Window)
Divides(window) == Len(window) = Window /\ window[1]

\* add_experience, n times.  The oldest experiences never leave the buffer here, so
\* that a model may know more actions than it would.
Experienced(actions, n) ==
  /\ labels' = labels \cup actions
  /\ samples' = Least(samples + n, min_samples)

\* should_retrain, a matter of time once there are enough samples, and retrain: after
\* the vote was added to the buffer and before the bar is.
Retrained(added) == IF added # {} /\ samples + 1 >= min_samples THEN {model, labels \cup added} ELSE {model}

\* The aggregator answers nothing to the price 0 of a failed request.
Usable(price) == price # 0

Fed(price) == IF Usable(price) THEN LastOf(Append(history, price), slow_window + period) ELSE history

\* _generate_signal at a price, on the window the detector has by then; the loop
\* collects its answer.  What raises leaves the action of before the vote.
Signal(price, window, collects) ==
  /\ history' = Fed(price)
  /\ first' = IF first = 0 THEN price ELSE first
  /\ told' = IF Usable(price) /\ Crossing(history') # None THEN Crossing(history') ELSE told
  /\ LET base == IF Usable(price) THEN Aggregated(history', first') ELSE "hold"
         updates == price > 0 /\ Least(seen + 1, Window) = Window
         raised == updates /\ Divides(Observed(window, price))
         added(proposed) == IF ~raised /\ proposed # "hold" THEN {proposed} ELSE {}
     IN /\ seen' = IF price > 0 THEN Least(seen + 1, Window) ELSE seen
        /\ zeros' = IF updates THEN Observed(window, price) ELSE window
        /\ \E proposed \in Predictions(base), vote \in Predictions("hold") :
             LET action == IF raised THEN proposed ELSE Combined(IF model = {} THEN <<TreeVote>> ELSE <<TreeVote, vote>>)
                 more == added(proposed) \cup IF collects THEN {action} ELSE {}
             IN /\ answer' = [action |-> action, voted |-> ~raised]
                /\ Experienced(more, Cardinality(added(proposed)) + IF collects THEN 1 ELSE 0)
                /\ model' \in Retrained(added(proposed))

\* One iteration of trading_loop.  The detector may raise before anything is asked.
Bar(price) ==
  /\ turn = "loop"
  /\ bars' = Least(bars + 1, Window)
  /\ LET detects == bars' = Window
         window == IF detects THEN Observed(zeros, price) ELSE zeros
     IN IF detects /\ Divides(window)
        THEN zeros' = window /\ UNCHANGED <<history, first, seen, labels, samples, model, turn, answer, told>>
        ELSE Signal(price, window, TRUE) /\ turn' = "dashboard"

\* _write_dashboard_state asks again when it has a price, and nobody acts on the answer.
Dashboard(price) ==
  /\ turn = "dashboard" /\ turn' \in {"loop", "report"}
  /\ UNCHANGED bars
  /\ IF price > 0 THEN Signal(price, zeros, FALSE) ELSE UNCHANGED <<history, first, zeros, seen, labels, samples, model, answer, told>>

\* _send_decision_report, when one is due after the iteration, asks a third time.
Report(price) ==
  /\ turn = "report" /\ turn' = "loop"
  /\ UNCHANGED bars
  /\ Signal(price, zeros, FALSE)

Next == \E price \in Prices \cup {0} : Bar(price) \/ Dashboard(price) \/ Report(price)

-----------------------------------------------------------------------------
\* Whenever the fast average is on one side of the slow one, a crossing to that side
\* was the last one told, to the loop, the dashboard or a report, unless the averages were
\* never seen to cross since they could first be taken.
TrendWasTold == told # None /\ Side(history) # None => told = Side(history)

\* With the first vote always "hold" and ties going to it, no other action is ever
\* returned but when the vote could not be held: the trader opens on its own only
\* after a price of 0 has reached the end of the regime detector's window.
HoldUnlessRaised == answer.voted => answer.action = "hold"
=============================================================================
