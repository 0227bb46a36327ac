--------------------------- MODULE EmergencyStop ---------------------------
\* Layer 2's emergency stops (paper_trading/layers/layer2_risk/emergency_stop.py). Each
\* stop has a lock, held while it is triggered, with its callbacks, or reset; whoever asks
\* takes no lock, reads the stops one after the other, and the flag before the reason.
EXTENDS Sequences, SequencesExt

CONSTANTS
  Operators, \* the threads that trigger and reset
  Askers,    \* the threads that ask; a call of one and the same thread is as good as one of two
  Stops      \* the stops, in the order the manager reads and resets them

Callers == Operators \cup Askers

VARIABLES
  triggered, \* the stops that are triggered
  reasons,   \* the stops that have a reason
  at,        \* where each thread is
  todo,      \* the stops its call has still to treat
  answer,    \* what it was told last
  since      \* what happened to the stops since it asked

vars == <<triggered, reasons, at, todo, answer, since>>

Init ==
  /\ triggered = {} /\ reasons = {}
  /\ at = [c \in Callers |-> "idle"] /\ todo = [c \in Callers |-> <<>>]
  /\ answer = [c \in Askers |-> "none"] /\ since = [c \in Askers |-> {}]

Stop(c) == Head(todo[c])

\* Mutant of Held: a reset takes no lock.
HeldByTrigger(s) == \E c \in Callers : at[c] = "reason" /\ Stop(c) = s

\* Whether a thread has the lock of a stop.
Held(s) == \E c \in Callers : at[c] \in {"reason", "clear"} /\ Stop(c) = s
Asking(c) == at[c] \in {"any", "which", "name"}

\* What is under way, or has been so, as seen by those who ask.
Busy == {e \in {"trigger", "reset"} :
           \E c \in Callers : at[c] = IF e = "trigger" THEN "reason" ELSE "clear"}
Witnessed(e) ==
  since' = [c \in Askers |->
    IF Asking(c) THEN since[c] \cup {e} \cup (IF triggered' = {} THEN {"calm"} ELSE {})
    ELSE since[c]]

Call(c, step, stops) ==
  /\ at[c] = "idle"
  /\ at' = [at EXCEPT ![c] = step] /\ todo' = [todo EXCEPT ![c] = stops]

Return(c) == at' = [at EXCEPT ![c] = "idle"] /\ todo' = [todo EXCEPT ![c] = <<>>]

\* trigger() waits for the lock; a stop that is triggered keeps its first reason.
Trigger(c, s) == Call(c, "enter", <<s>>) /\ UNCHANGED <<triggered, reasons, answer, since>>

Enter(c) ==
  /\ at[c] = "enter" /\ ~Held(Stop(c))
  /\ IF Stop(c) \in triggered
     THEN Return(c) /\ UNCHANGED <<triggered, since>>
     ELSE /\ at' = [at EXCEPT ![c] = "reason"] /\ UNCHANGED todo
          /\ triggered' = triggered \cup {Stop(c)} /\ Witnessed("trigger")
  /\ UNCHANGED <<reasons, answer>>

GiveReason(c) ==
  /\ at[c] = "reason"
  /\ reasons' = reasons \cup {Stop(c)}
  /\ Return(c)
  /\ UNCHANGED <<triggered, answer, since>>

\* reset() of one stop; reset_all() takes and gives back the locks one after the other.
Reset(c, s) == Call(c, "reset", <<s>>) /\ UNCHANGED <<triggered, reasons, answer, since>>
ResetAll(c) == Call(c, "reset", Stops) /\ UNCHANGED <<triggered, reasons, answer, since>>

Unset(c) ==
  /\ at[c] = "reset" /\ ~Held(Stop(c))
  /\ at' = [at EXCEPT ![c] = "clear"]
  /\ triggered' = triggered \ {Stop(c)} /\ Witnessed("reset")
  /\ UNCHANGED <<reasons, todo, answer>>

Clear(c) ==
  /\ at[c] = "clear"
  /\ reasons' = reasons \ {Stop(c)}
  /\ IF Len(todo[c]) = 1 THEN Return(c)
     ELSE at' = [at EXCEPT ![c] = "reset"] /\ todo' = [todo EXCEPT ![c] = Tail(@)]
  /\ UNCHANGED <<triggered, answer, since>>

\* is_any_triggered() and get_active_reason(), which ends at the first that is.
Ask(c, step) ==
  /\ Call(c, step, Stops)
  /\ since' = [since EXCEPT ![c] = Busy \cup (IF triggered = {} THEN {"calm"} ELSE {})]
  /\ answer' = [answer EXCEPT ![c] = "none"]
  /\ UNCHANGED <<triggered, reasons>>

Told(c, said) == answer' = [answer EXCEPT ![c] = said] /\ Return(c)

Read(c) ==
  /\ at[c] \in {"any", "which"}
  /\ CASE Stop(c) \in triggered /\ at[c] = "any" -> Told(c, "stopped")
       [] Stop(c) \in triggered /\ at[c] = "which" -> at' = [at EXCEPT ![c] = "name"] /\ UNCHANGED <<todo, answer>>
       [] Stop(c) \notin triggered /\ Len(todo[c]) = 1 -> Told(c, "clear")
       [] OTHER -> todo' = [todo EXCEPT ![c] = Tail(@)] /\ UNCHANGED <<at, answer>>
  /\ UNCHANGED <<triggered, reasons, since>>

ReadReason(c) ==
  /\ at[c] = "name"
  /\ Told(c, IF Stop(c) \in reasons THEN "stopped" ELSE "unnamed")
  /\ UNCHANGED <<triggered, reasons, since>>

Next ==
  \/ \E c \in Operators :
       \/ Enter(c) \/ GiveReason(c) \/ Unset(c) \/ Clear(c) \/ ResetAll(c)
       \/ \E s \in ToSet(Stops) : Trigger(c, s) \/ Reset(c, s)
  \/ \E c \in Askers : Read(c) \/ ReadReason(c) \/ Ask(c, "any") \/ Ask(c, "which")

-----------------------------------------------------------------------------
\* A stop that nobody is triggering or resetting is triggered with a reason or not at all.
ReasonsAreKept == \A s \in ToSet(Stops) : Held(s) \/ (s \in triggered <=> s \in reasons)

\* "No stop" is answered only if that was so at some moment of the call, or a stop was
\* reset during it: the stops are read one by one, so that one may be triggered behind
\* the reader and another reset before it. A stop without its reason ("Risk: None") is
\* reported only by a call that met a trigger or a reset.
AskedIsTrue ==
  \A c \in Askers :
    /\ answer[c] = "clear" => since[c] \cap {"calm", "reset"} # {}
    /\ answer[c] = "unnamed" => since[c] \cap {"trigger", "reset"} # {}
=============================================================================
