------------------------------ MODULE Learning ------------------------------
(***************************************************************************)
(* The self-learning engine of AutonomousTrader (self_learning.py): the    *)
(* experiences of bars, trades and votes, retraining, and the file that    *)
(* keeps model and experiences over the end of the process.  Saving and    *)
(* loading swallow their exceptions, and the process goes on.              *)
(*                                                                         *)
(* A request for the price that fails gives the price 0.  A history with   *)
(* one, other than as its last price, cannot be made into features: the    *)
(* division raises.                                                        *)
(***************************************************************************)
EXTENDS Integers, Sequences, SequencesExt

CONSTANTS Window,      \* prices in a state (20)
          maxlen,      \* of the experience buffer (1000)
          min_samples, \* (50)
          MaxRetrains, MaxFailures, MaxEnds \* bounds: retrains counted, failed prices, ends of the process

VARIABLES
  at,       \* where the process is in a bar, or "down"
  recent,   \* the last prices of price_history: which were 0
  buffer,   \* the experiences: which of them cannot be made into features
  model, retrain_count,
  file,     \* self_learning_model.pkl: none, emptied by a save, or what one wrote
  failures, ends,
  saved,    \* history: model and number of the last save that succeeded
  spoiled   \* history: a save or a load failed since

vars == <<at, recent, buffer, model, retrain_count, file, failures, ends, saved, spoiled>>
saves == <<file, saved, spoiled>>
learned == <<model, retrain_count>>

NoFile == [state |-> "none", model |-> FALSE, retrain_count |-> 0, buffer |-> <<>>]
Emptied == [NoFile EXCEPT !.state = "emptied"]
Contents == [state |-> "whole", model |-> model, retrain_count |-> retrain_count, buffer |-> buffer]
Whole == file.state = "whole"
Knowledge == [model |-> model, retrain_count |-> retrain_count]

Init ==
  /\ at = "bar" /\ recent = <<>> /\ buffer = <<>>
  /\ model = FALSE /\ retrain_count = 0
  /\ file = NoFile /\ failures = 0 /\ ends = 0
  /\ saved = Knowledge /\ spoiled = FALSE

LastOf(s, n) == SubSeq(s, IF Len(s) > n THEN Len(s) - n + 1 ELSE 1, Len(s))

-----------------------------------------------------------------------------
\* _extract_features, and _calculate_volatility in the same way: both look back only
\* when there are enough prices, and divide by all of them but the last.
Divides == Len(recent) = Window /\ \E i \in 1..Window - 1 : recent[i]

\* add_experience, to a deque.
Added(raises) == LastOf(Append(buffer, raises), maxlen)

\* should_retrain, and whether what the buffer will be can be learned from.
ShouldRetrain(experiences) == Len(experiences) >= min_samples
Trainable(experiences) == TRUE \notin ToSet(experiences)

\* retrain.  It may fail otherwise as well, before the model is replaced or, in fit, with
\* one that predicts nothing and is not counted.
Retrain(experiences) ==
  \/ /\ Trainable(experiences) /\ retrain_count < MaxRetrains
     /\ model' = TRUE /\ retrain_count' = retrain_count + 1
  \/ Trainable(experiences) /\ model' = TRUE /\ UNCHANGED retrain_count
  \/ UNCHANGED learned

\* IntelligenceEnsemble.validate: an action other than hold is an experience, of a
\* price without a history, and may retrain, which is not saved.
Vote ==
  \/ UNCHANGED <<buffer, learned>>
  \/ /\ buffer' = Added(FALSE)
     /\ IF ShouldRetrain(buffer') THEN Retrain(buffer') ELSE UNCHANGED learned

-----------------------------------------------------------------------------
\* trading_loop up to the signal: the price, and the detector, which may raise while a
\* price of 0 is among the last.
Bar ==
  /\ at = "bar"
  /\ \E zero \in BOOLEAN :
       /\ zero => failures < MaxFailures
       /\ failures' = IF zero THEN failures + 1 ELSE failures
       /\ recent' = LastOf(Append(recent, zero), Window)
  /\ \/ TRUE \in ToSet(recent) /\ UNCHANGED <<at, buffer, learned>>
     \/ at' = "trade" /\ Vote
  /\ UNCHANGED <<saves, ends>>

\* _open_position adds an experience.
Open ==
  /\ at = "trade" /\ at' = "collect"
  /\ buffer' = Added(Divides)
  /\ UNCHANGED <<recent, learned, saves, failures, ends>>

\* _record_trade adds one as well; when it is time it retrains and saves, whatever
\* retrain answers.
Close ==
  /\ at = "trade"
  /\ buffer' = Added(Divides)
  /\ \/ at' = "collect" /\ UNCHANGED learned
     \/ ShouldRetrain(buffer') /\ at' = "save" /\ Retrain(buffer')
  /\ UNCHANGED <<recent, saves, failures, ends>>

NoTrade ==
  /\ at = "trade" /\ at' = "collect"
  /\ UNCHANGED <<recent, buffer, learned, saves, failures, ends>>

\* _save_model: open(path, 'wb') empties the file, or raises and leaves it.
Truncate ==
  /\ at = "save"
  /\ \/ at' = "dump" /\ file' = Emptied
     \/ at' = "collect" /\ UNCHANGED file
  /\ UNCHANGED <<recent, buffer, learned, failures, ends, saved, spoiled>>

\* pickle.dump, and the flush as the file is closed: what raises leaves a file that
\* nothing can be loaded from, empty or torn.
Dump ==
  /\ at = "dump" /\ at' = "collect"
  /\ \/ file' = Contents /\ saved' = Knowledge /\ spoiled' = FALSE
     \/ spoiled' = TRUE /\ UNCHANGED <<file, saved>>
  /\ UNCHANGED <<recent, buffer, learned, failures, ends>>

\* Mutant of Collected: experiences of trades only.
CollectedNot == buffer

\* _collect_experience_on_bar: the volatility that is part of the state raises first.
Collected == IF Divides THEN buffer ELSE Added(FALSE)

Collect ==
  /\ at = "collect" /\ at' = "dashboard"
  /\ buffer' = Collected
  /\ UNCHANGED <<recent, learned, saves, failures, ends>>

\* _write_dashboard_state asks for a signal again, if it has a price.
Dashboard ==
  /\ at = "dashboard" /\ at' = "bar"
  /\ Vote
  /\ UNCHANGED <<recent, saves, failures, ends>>

-----------------------------------------------------------------------------
\* The process ends wherever it is, in the middle of a save too.
End ==
  /\ at # "down" /\ ends < MaxEnds
  /\ at' = "down" /\ ends' = ends + 1
  /\ recent' = <<>> /\ buffer' = <<>> /\ model' = FALSE /\ retrain_count' = 0
  /\ spoiled' = (spoiled \/ at = "dump")
  /\ UNCHANGED <<file, saved, failures>>

\* Mutant of Loaded: the number of retrainings is not loaded.
LoadedModel == model' = file.model /\ retrain_count' = 0 /\ buffer' = file.buffer

\* The number is loaded with a model only.
Loaded == /\ model' = file.model /\ retrain_count' = IF file.model THEN file.retrain_count ELSE 0
          /\ buffer' = file.buffer

\* _load_model: a file that cannot be read, or not now, is as good as none.
Start ==
  /\ at = "down" /\ at' = "bar"
  /\ \/ Whole /\ Loaded /\ UNCHANGED spoiled
     \/ spoiled' = (spoiled \/ Whole) /\ UNCHANGED <<buffer, learned>>
  /\ UNCHANGED <<recent, file, saved, failures, ends>>

Step == Bar \/ Open \/ Close \/ NoTrade \/ Truncate \/ Dump \/ Collect \/ Dashboard
Next == Step \/ End \/ Start

-----------------------------------------------------------------------------
\* The running trader knows at least what it saved last, over any number of ends of the
\* process and of retrainings that fail, unless a later save failed or was cut short
\* after it had emptied the file, or the file could not be loaded.
SavedIsKept ==
  at # "down" => spoiled \/ (retrain_count >= saved.retrain_count /\ (saved.model => model))

\* What the buffer comes back to: it holds no experience that stops every retraining. They
\* leave it as others are added, once the failed price is old enough.
BufferIsTrainable == Trainable(buffer)
=============================================================================
