---------------------------- MODULE ConfigReload ----------------------------
(***************************************************************************)
(* layer6_orchestration/config_reload.py: loops that watch a file, callers *)
(* of reload_config, the components that are given what changed, and the   *)
(* writer of the file, who empties it before it writes.                    *)
(***************************************************************************)
EXTENDS Integers

CONSTANTS Watchers, Callers, \* threads
          MaxWrites,         \* bound: versions written to the file
          MaxStarts          \* bound: calls of start_watching

Threads == Watchers \cup Callers

\* What the file holds: a version, nothing yet, or a part that yaml refuses.
None == 0
Torn == -1

VARIABLES
  file,      \* its content, its modification time and its last version
  config, last_modified, running, \* of ConfigReload
  applied,   \* the version the components were given
  thread,    \* each thread: where it is, what it read, and the configuration it found
  starts,
  overlap,   \* history: two reloads ran at once
  overlooked \* history: the file was written and its modification time does not tell

vars == <<file, config, last_modified, running, applied, thread, starts, overlap, overlooked>>
loaded == <<config, last_modified, applied, overlap, overlooked>>

Ready(at) == [at |-> at, read |-> None, old |-> None]

\* After load_config and before start_watching.
Init ==
  /\ file = [content |-> 1, time |-> 1, version |-> 1]
  /\ config = 1 /\ last_modified = 1 /\ applied = 1
  /\ running = FALSE
  /\ thread = [t \in Threads |-> Ready("out")]
  /\ starts = 0 /\ overlap = FALSE /\ overlooked = FALSE

At(t, step) == thread[t].at = step
Goes(t, step) == thread' = [thread EXCEPT ![t] = Ready(step)]
Reloading(t) == thread[t].at \in {"assign", "stat", "callbacks"}

\* A thread that is done: a watcher sleeps, a caller returns.
Rests(t) == Goes(t, IF t \in Watchers THEN "loop" ELSE "out")

-----------------------------------------------------------------------------
\* The writer: open(path, 'w') and what it writes, in one piece or in two; writes that
\* follow each other at once have the same modification time.
Write ==
  /\ \E content \in {None, Torn, file.version + 1}, late \in {0, 1} :
       /\ IF content = None THEN file.content \in 1..MaxWrites ELSE file.content \in {None, Torn} /\ content # file.content
       /\ file' = [content |-> content, time |-> file.time + late, version |-> IF content > 0 THEN content ELSE file.version]
       /\ overlooked' = (overlooked \/ late = 0)
  /\ UNCHANGED <<config, last_modified, applied, overlap, running, thread, starts>>

-----------------------------------------------------------------------------
Start ==
  /\ starts < MaxStarts /\ starts' = starts + 1
  /\ running' = TRUE
  /\ \E t \in Watchers : At(t, "out") /\ Goes(t, "loop")
  /\ UNCHANGED <<file, loaded>>

\* stop_watching waits five seconds for a loop that may sleep for thirty.
Stop ==
  /\ running /\ running' = FALSE
  /\ UNCHANGED <<file, loaded, thread, starts>>

\* A loop that wakes up: it ends, or looks whether the file is newer.
Wake(t) ==
  /\ t \in Watchers /\ At(t, "loop")
  /\ \/ ~running /\ Goes(t, "out")
     \/ running /\ file.time > last_modified /\ Goes(t, "read")
  /\ UNCHANGED <<file, loaded, running, starts>>

Call(t) ==
  /\ t \in Callers /\ At(t, "out")
  /\ Goes(t, "read")
  /\ UNCHANGED <<file, loaded, running, starts>>

\* reload_config answers False and changes nothing.
Failed(t) == Rests(t)

\* yaml.safe_load gives None for an empty file and raises for a part of one.
Read(t) ==
  /\ At(t, "read")
  /\ IF file.content = Torn
     THEN Failed(t)
     ELSE thread' = [thread EXCEPT ![t].read = file.content, ![t].at = "assign"]
  /\ UNCHANGED <<file, loaded, running, starts>>

\* self.config.copy() raises once the configuration is None.
Assign(t) ==
  /\ At(t, "assign")
  /\ IF config = None
     THEN Failed(t) /\ UNCHANGED <<config, overlap>>
     ELSE /\ thread' = [thread EXCEPT ![t].old = config, ![t].at = "stat"]
          /\ config' = thread[t].read
          /\ overlap' = (overlap \/ \E u \in Threads \ {t} : Reloading(u))
  /\ UNCHANGED <<file, last_modified, applied, overlooked, running, starts>>

\* Mutant of Stamp: the time of day, which is later.
StampNow == file.time + 1

\* The modification time of the file.
Stamp == file.time

\* The time is taken after the file was read: it is that of a file written meanwhile.
Stat(t) ==
  /\ At(t, "stat")
  /\ last_modified' = Stamp
  /\ overlooked' = (thread[t].read # file.content)
  /\ thread' = [thread EXCEPT ![t].at = "callbacks"]
  /\ UNCHANGED <<file, config, applied, overlap, running, starts>>

\* _apply_component_config: what changed from the former configuration.
Callbacks(t) ==
  /\ At(t, "callbacks")
  /\ applied' = IF thread[t].read # thread[t].old THEN thread[t].read ELSE applied
  /\ Rests(t)
  /\ UNCHANGED <<file, config, last_modified, overlap, overlooked, running, starts>>

-----------------------------------------------------------------------------
Step(t) == Wake(t) \/ Read(t) \/ Assign(t) \/ Stat(t) \/ Callbacks(t)
Next == Write \/ Start \/ Stop \/ \E t \in Threads : Call(t) \/ Step(t)

-----------------------------------------------------------------------------
\* Between reloads the components hold what the configuration says, unless two
\* reloads ran at once: then their callbacks can come in the other order.
AppliedIsConfig == overlap \/ applied = config \/ \E t \in Threads : Reloading(t)

\* The configuration is what the file holds, or the file can be seen to be newer, also after
\* reloads that failed: nothing is missed but a file written between the reading and the
\* taking of its time, or within the same time.
ConfigIsFile ==
  \/ overlap \/ overlooked
  \/ file.time > last_modified
  \/ config = file.content
  \/ \E t \in Threads : At(t, "stat")

\* What the watchers come back to: no newer file is left to look at as long as somebody
\* watches, also after files that could not be read, unless the last of them is one, or
\* one that was empty has become the configuration.
NewerIsLookedAt == file.time <= last_modified \/ ~running \/ file.content = Torn \/ config = None
=============================================================================
