------------------------------ MODULE MCModels ------------------------------
\* The models and the guards beside the trading loops, for TLC: the ensemble, the learning
\* from experiences, exploration, validation and evolution, the book of paper positions,
\* the CTA strategies; the emergency stops, the alerts about full streams, and the limit on
\* requests. What they have in common is only who calls them, so a behaviour is one of the
\* part in focus, and the rest stands still.
EXTENDS Integers, Sequences, FiniteSets

CONSTANTS
  TickPrices, fast_window, slow_window, period, RegimeWindow, VoteSamples,   \* of the ensemble
  StateWindow, maxlen, min_samples, MaxRetrains, MaxUnread, MaxDowns,         \* of the learning
  Outcomes, performance, min_performance, Enough, ValidateEvery, EvolveEvery, \* of the exploration,
  population_size, elite_count, MinTrades, MaxTrades, MaxGenerations,         \* validation and evolution
  FillPrices, Sizes, MaxFills,                                                \* of the book
  fixed_size, MaxResting, MaxPosition,                                        \* of the strategies
  Operators, Askers, Stops,                                                   \* of the stops
  Publishers, Streams, Cooldown, MaxClock,                                    \* of the alerts
  Requesters, Minute, Hour, PerMinute, PerHour, MaxWait, MaxTime              \* of the limit on requests

StopNames == {"main", "risk", "data", "system"}

ASSUME ModelsAssumption ==
  /\ {fast_window, slow_window, period} \subseteq Nat \ {0} /\ fast_window <= slow_window
  /\ Outcomes \subseteq Int
  /\ {ValidateEvery, elite_count, population_size} \subseteq Nat \ {0} /\ elite_count <= population_size
  /\ FillPrices \subseteq Nat \ {0} /\ Sizes \subseteq Nat \ {0}
  /\ fixed_size \in Nat \ {0}
  /\ Stops \in Seq(StopNames) /\ Stops # <<>> /\ Operators \cap Askers = {}
  /\ Cooldown \in Nat /\ Streams # {}
  /\ {Minute, Hour, PerMinute, PerHour, MaxWait, MaxTime} \subseteq Nat /\ Minute + MaxWait <= Hour

\* For the run: two of the stops; one very bad outcome, one bad, one good.
TwoStops == <<"main", "risk">>
SomeOutcomes == {-100, -3, 5}

VARIABLES
  part, \* in focus
  history, first, zeros, bars, seen, labels, samples, model, turn, answer, told,
  at, recent, buffer, learned, retrain_count, file, failures, downs, saved, spoiled,
  opened, outcomes, explored, exploited, choice, total, closed, validated, failing, population, generation,
  size, entry_price, unrealised, realised, cash, net, mark, orders, deviations,
  strategy, trading, pos, rl_approved, resting, crowded,
  triggered, reasons, operator, todo, said, since,
  now, handler, stamped, enabled, publisher, about, asked, filled, alerted, hurried, alike,
  time, requests, waiting, accepted, overtook

ensembleVars == <<history, first, zeros, bars, seen, labels, samples, model, turn, answer, told>>
learningVars == <<at, recent, buffer, learned, retrain_count, file, failures, downs, saved, spoiled>>
explorationVars == <<opened, outcomes, explored, exploited, choice, total, closed, validated, failing, population, generation>>
bookVars == <<size, entry_price, unrealised, realised, cash, net, mark, orders, deviations>>
ctaVars == <<strategy, trading, pos, rl_approved, resting, crowded>>
stopVars == <<triggered, reasons, operator, todo, said, since>>
pressureVars == <<now, handler, stamped, enabled, publisher, about, asked, filled, alerted, hurried, alike>>
limiterVars == <<time, requests, waiting, accepted, overtook>>

Vote == INSTANCE Ensemble WITH Prices <- TickPrices, Window <- RegimeWindow, min_samples <- VoteSamples

Learn == INSTANCE Learning WITH
  Window <- StateWindow, MaxFailures <- MaxUnread, MaxEnds <- MaxDowns, model <- learned, ends <- downs

Explore == INSTANCE Exploration WITH position <- opened, state <- choice

Book == INSTANCE PaperBook WITH Prices <- FillPrices, MaxOrders <- MaxFills

Cta == INSTANCE CtaStrategies WITH MaxOrders <- MaxResting, kind <- strategy, orders <- resting

Stopping == INSTANCE EmergencyStop WITH at <- operator, answer <- said

Pressure == INSTANCE PressureAlerts WITH
  Threads <- Publishers, MaxTime <- MaxClock, at <- publisher, last <- stamped, excused <- alike

Limiter == INSTANCE RateLimiter WITH
  Threads <- Requesters, now <- time, history <- requests, since <- waiting, overtaken <- overtook

Parts == {"ensemble", "learning", "exploration", "book", "cta", "stops", "pressure", "limiter"}

\* What a part may start with is tried where that part is in focus.
ModelsInit ==
  /\ part \in Parts
  /\ Vote!Init /\ (model = {} \/ part = "ensemble")
  /\ Learn!Init /\ Explore!Init
  /\ Book!Init /\ (mark = (CHOOSE p \in FillPrices : TRUE) \/ part = "book")
  /\ Cta!Init /\ (strategy = "momentum" \/ part = "cta")
  /\ Stopping!Init /\ Pressure!Init /\ Limiter!Init

models == <<ensembleVars, learningVars, explorationVars>>
books == <<bookVars, ctaVars>>
guards == <<stopVars, pressureVars, limiterVars>>

InEnsemble == part = "ensemble" /\ UNCHANGED <<part, learningVars, explorationVars, books, guards>>
InLearning == part = "learning" /\ UNCHANGED <<part, ensembleVars, explorationVars, books, guards>>
InExploration == part = "exploration" /\ UNCHANGED <<part, ensembleVars, learningVars, books, guards>>
InBook == part = "book" /\ UNCHANGED <<part, ctaVars, models, guards>>
InCta == part = "cta" /\ UNCHANGED <<part, bookVars, models, guards>>
InStops == part = "stops" /\ UNCHANGED <<part, pressureVars, limiterVars, models, books>>
InPressure == part = "pressure" /\ UNCHANGED <<part, stopVars, limiterVars, models, books>>
InLimiter == part = "limiter" /\ UNCHANGED <<part, stopVars, pressureVars, models, books>>

ModelsNext ==
  \/ InEnsemble /\ Vote!Next
  \/ InLearning /\ Learn!Next
  \/ InExploration /\ Explore!Next
  \/ InBook /\ Book!Next
  \/ InCta /\ Cta!Next
  \/ InStops /\ Stopping!Next
  \/ InPressure /\ Pressure!Next
  \/ InLimiter /\ Limiter!Next

parts == <<part, models, books, guards>>

\* The trader goes on with its bars.
ModelsSpec == ModelsInit /\ [][ModelsNext]_parts /\ WF_parts(InLearning /\ Learn!Step)

-----------------------------------------------------------------------------
\* What the ensemble answers is what was observed: a crossing that persists was told to
\* somebody, and without a failed vote the answer is to hold.
AnswersAreExplained == Vote!TrendWasTold /\ Vote!HoldUnlessRaised

\* What was learned is what the code keeps, and no more: the model that was saved, unless a
\* save or a load failed since, the validation of all closed trades, unless it raised, and
\* genomes no trade was ever counted for.
LearningIsKept == Learn!SavedIsKept /\ Explore!ValidationIsCurrent /\ Explore!BestIsFirst

\* Positions and money come to the fills, and a strategy's position to one entry, but
\* for orders of the known kinds.
BooksAreExplained == Book!PositionIsSum /\ Book!MoneyIsKept /\ Cta!OneEntryAtATime

\* What several threads share stays true to them: an emergency stop has its reason, and who
\* asks for it is told of it, a stream's alerts keep their distance, and a client's
\* requests their limits.
SharedIsKept ==
  /\ Stopping!ReasonsAreKept /\ Stopping!AskedIsTrue
  /\ Pressure!HandlerIsKept
  /\ Limiter!WindowsAreKept

\* Stated of the strategy with an agent, and not so: its signals are validated by the agent.
SignalsAreValidated == Cta!SignalsAreValidated

\* A trader that its last outcomes have stopped stays stopped.
DegradedStays == Explore!DegradedStays

\* Experiences that stop every retraining leave the buffer again.
PoisonLeaves == []<>Learn!BufferIsTrainable
=============================================================================
