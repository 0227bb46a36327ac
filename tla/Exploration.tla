----------------------------- MODULE Exploration ----------------------------
(***************************************************************************)
(* What AutonomousTrader makes of the outcomes of its trades: exploration  *)
(* (exploration_engine.py), which lowers the confidence of a signal,       *)
(* validation (model_validator.py) and evolution (evolution_engine.py),    *)
(* which run while the number of trades is a multiple of a constant.       *)
(*                                                                         *)
(* Persons open and close positions by Telegram, and the process may end;  *)
(* the position stays.                                                     *)
(***************************************************************************)
EXTENDS Integers, Sequences, SequencesExt, FiniteSets

CONSTANTS Outcomes,                     \* percent; a price that was not read counts as -100
          performance, min_performance, \* outcomes the recent performance is taken of (20, from 10)
          Enough,                       \* outcomes of a kind before the kinds are compared (30)
          ValidateEvery, EvolveEvery,   \* trades (50, 100)
          population_size, elite_count, MinTrades, \* (20, 2, 5)
          MaxTrades, MaxGenerations     \* bounds: trades opened and closed, generations

None == "none"

VARIABLES
  position,           \* who opened it
  outcomes,           \* the last of _performance_history
  explored, exploited, \* lengths of _exploration_returns and _exploit_returns, up to Enough + 1
  state,              \* _exploration_state
  total,              \* _total_trade_count
  closed,             \* returns the validator holds
  validated,          \* how many of them _last_validation_result is of
  failing,            \* the last iteration's validation raised
  population, generation

vars == <<position, outcomes, explored, exploited, state, total, closed, validated, failing, population, generation>>
counts == <<outcomes, explored, exploited, closed>>
models == <<counts, state, total, validated, failing, population, generation>>

\* A genome and its results, as far as its fitness depends on them.
Genome(g, k) == [id |-> <<g, k>>, trades |-> 0, total |-> 0]
First == [k \in 1..population_size |-> Genome(0, k)]

Init ==
  /\ position = None
  /\ outcomes = <<>> /\ explored = 0 /\ exploited = 0 /\ state = "exploit"
  /\ total = 0 /\ closed = 0 /\ validated = 0 /\ failing = FALSE
  /\ population = First /\ generation = 0

Up(n) == IF n > Enough THEN n ELSE n + 1
LastOf(s, n) == SubSeq(s, IF Len(s) > n THEN Len(s) - n + 1 ELSE 1, Len(s))

-----------------------------------------------------------------------------
\* The mean of the last outcomes is below -2 percent.
Sum(s) == FoldSeq(LAMBDA a, b : a + b, 0, s)
Degraded == Len(outcomes) >= min_performance /\ Sum(outcomes) < -2 * Len(outcomes)

\* should_explore: the action, and the percentage that is left of the confidence.  Which
\* kind did better, and the random number, are left open.
Compared == explored > Enough /\ exploited > Enough
Decisions ==
  IF Degraded THEN {<<"explore", 30>>}
  ELSE {<<"random", 30>>, <<"exploit", 100>>} \cup (IF Compared THEN {<<"explore", 45>>} ELSE {})

\* Mutant of Confident: the confidence is not lowered.
ConfidentAlways(confidence, left) == confidence >= 60
\* _should_trade, of a confidence times the multiplier.
Confident(confidence, left) == confidence * left >= 6000

-----------------------------------------------------------------------------
\* Mutant of Known: results go to the best genome.
KnownFirst == population[1].id

\* The strategy whose results are recorded is 'default', which is none of the genomes.
Known == <<-1, 0>>

\* EvolutionEngine.record_result.
Recorded(outcome) ==
  [k \in DOMAIN population |->
     IF population[k].id = Known
     THEN [population[k] EXCEPT !.trades = @ + 1, !.total = @ + outcome] ELSE population[k]]

\* _record_trade: the outcome counts for what the trader does as the trade closes.
RecordTrade(outcome, now) ==
  /\ outcomes' = LastOf(Append(outcomes, outcome), performance)
  /\ IF now = "exploit" THEN exploited' = Up(exploited) /\ UNCHANGED explored
                        ELSE explored' = Up(explored) /\ UNCHANGED exploited
  /\ closed' = closed + 1

\* On every iteration as long as the number of trades stays a multiple.
Validates == total' > 0 /\ total' % ValidateEvery = 0
Evolves == total' > 0 /\ total' % EvolveEvery = 0 /\ generation < MaxGenerations

\* evolve: the fittest stay, of those as fit the first, and children with new names take
\* the other places.  A child is new or keeps the results of a copied parent.
Fitness(g) == IF g.trades < MinTrades THEN 0 ELSE g.total
Fitter(p, j, k) == Fitness(p[j]) > Fitness(p[k]) \/ (Fitness(p[j]) = Fitness(p[k]) /\ j < k)
Ranked(p, n) == CHOOSE k \in DOMAIN p : Cardinality({j \in DOMAIN p : Fitter(p, j, k)}) = n - 1

Evolve(p) ==
  \E parents \in [elite_count + 1..population_size -> {[trades |-> g.trades, total |-> g.total] : g \in ToSet(p)} \cup {[trades |-> 0, total |-> 0]}] :
    population' = [k \in 1..population_size |->
      IF k <= elite_count THEN p[Ranked(p, k)]
      ELSE [id |-> <<generation', k>>, trades |-> parents[k].trades, total |-> parents[k].total]]

\* comprehensive_validation, each of whose tests is of the returns held by then.
Validated == closed'

\* The end of an iteration.  Both are caught when they raise: the former result stays, and
\* the former genomes do, which are counted as a generation all the same.
Finish(p) ==
  /\ \/ Validates /\ validated' = Validated /\ failing' = FALSE
     \/ UNCHANGED validated /\ failing' = Validates
  /\ IF Evolves THEN generation' = generation + 1 /\ (Evolve(p) \/ population' = p)
               ELSE population' = p /\ UNCHANGED generation

-----------------------------------------------------------------------------
\* One iteration of trading_loop, with the choice of the exploration engine.  An entry
\* whose answer is lost is not counted.
Open(confidence) ==
  \E choice \in Decisions :
    /\ position = None /\ total < MaxTrades
    /\ Confident(confidence, choice[2])
    /\ state' = choice[1] /\ total' \in {total, total + 1}
    /\ position' = "trader"
    /\ UNCHANGED counts
    /\ Finish(population)

\* The trade is recorded also when the order to close the position failed.
Close(outcome) ==
  \E choice \in Decisions :
    /\ position # None /\ closed < MaxTrades
    /\ state' = choice[1] /\ position' \in {None, position}
    /\ RecordTrade(outcome, choice[1])
    /\ UNCHANGED total
    /\ Finish(Recorded(outcome))

Wait ==
  \E choice \in Decisions :
    /\ state' = choice[1]
    /\ UNCHANGED <<position, counts, total>>
    /\ Finish(population)

\* An administrator's order.
Person ==
  /\ position' \in {None, "person"} \ {position}
  /\ UNCHANGED models

\* The process ends and starts again; nothing of this is kept.
Restart ==
  /\ outcomes' = <<>> /\ explored' = 0 /\ exploited' = 0 /\ state' = "exploit"
  /\ total' = 0 /\ closed' = 0 /\ validated' = 0 /\ failing' = FALSE
  /\ population' = First /\ generation' = 0
  /\ UNCHANGED position

Next ==
  \/ \E confidence \in {50, 60, 100} : Open(confidence)
  \/ \E outcome \in Outcomes : Close(outcome)
  \/ Wait \/ Person \/ Restart

-----------------------------------------------------------------------------
\* Once the last outcomes are bad, and one unread price among them is enough, the trader
\* opens nothing any more, so that they stay the last: only an administrator's order or
\* a new process changes that.
DegradedStays ==
  [][Degraded /\ position = None => (Degraded' /\ position' # "trader") \/ Restart]_vars

\* At a multiple the result that is shown is of all the trades closed by then, unless the
\* validation raised in this iteration: a later one makes up for it, however often it failed.
ValidationIsCurrent == total > 0 /\ total % ValidateEvery = 0 /\ ~failing => validated = closed

\* Evolution never learns of a trade: the genome it names the best one is the first of
\* those it was started with.
BestIsFirst == population[1] = Genome(0, 1)
=============================================================================
