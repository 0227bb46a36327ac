------------------------------ MODULE Workflow ------------------------------
(***************************************************************************)
(* workflows/process_workflow.py: a thread that takes the tasks of a       *)
(* workflow one after the other from nothing to done, and saves the        *)
(* workflow after every step; start and stop, where stop waits five        *)
(* seconds for a thread that may sleep for seven; and the process, whose   *)
(* end may leave the file emptied.                                         *)
(***************************************************************************)
EXTENDS Integers

CONSTANTS Loops,    \* threads
          Tasks,    \* the number of tasks in the sequence (3)
          Done,     \* progress when done (5 steps to 100 percent)
          MaxStarts, MaxEnds \* bounds: calls of start_processing, ends of the process

VARIABLES
  data,     \* workflow_data: the progress of each task, and whether it is the default without any
  file,     \* what was saved, or emptied
  active,   \* processing_active
  loop,     \* each thread: where it is
  starts, ends,
  stopped,  \* history: stop was called in this process
  overlap   \* history: two loops ran at once in this process

vars == <<data, file, active, loop, starts, ends, stopped, overlap>>

Out == [at |-> "out", task |-> 1, step |-> 0]
Emptied == "emptied"
Whole == "whole"

\* The workflow as the repository has it: all done.
Shipped == [progress |-> [t \in 1..Tasks |-> Done], lost |-> FALSE]

\* get_default_workflow has no phases, and no task of it can be updated.
Default == [progress |-> [t \in 1..Tasks |-> 0], lost |-> TRUE]

Init ==
  /\ data = Shipped /\ file = [state |-> Whole, data |-> Shipped]
  /\ active = FALSE /\ loop = [l \in Loops |-> Out]
  /\ starts = 0 /\ ends = 0 /\ stopped = FALSE /\ overlap = FALSE

Working(l) == loop[l].at # "out"

-----------------------------------------------------------------------------
StartProcessing ==
  /\ ~active /\ active' = TRUE
  /\ starts < MaxStarts /\ starts' = starts + 1
  /\ \E l \in Loops : ~Working(l) /\ loop' = [loop EXCEPT ![l] = [Out EXCEPT !.at = "task"]]
  /\ overlap' = (overlap \/ \E l \in Loops : Working(l))
  /\ UNCHANGED <<data, file, ends, stopped>>

StopProcessing ==
  /\ active /\ active' = FALSE
  /\ stopped' = TRUE
  /\ UNCHANGED <<data, file, loop, starts, ends, overlap>>

\* The loop over the tasks.
NextTask(l) ==
  /\ loop[l].at = "task"
  /\ loop' = [loop EXCEPT ![l] = IF loop[l].task > Tasks \/ ~active THEN [Out EXCEPT !.at = "end"] ELSE [@ EXCEPT !.at = "step", !.step = 0]]
  /\ UNCHANGED <<data, file, active, starts, ends, stopped, overlap>>

\* update_task_progress of the task a loop is at.
Updated(l) == IF data.lost THEN data ELSE [data EXCEPT !.progress[loop[l].task] = loop[l].step]

Advances(l) == active /\ loop[l].step <= Done

\* The loop over the steps: update, and the save that begins by emptying the file; an
\* inactive loop goes on to the next task, and finds it active again after a start.
NextStep(l) ==
  /\ loop[l].at = "step"
  /\ IF Advances(l)
     THEN /\ data' = Updated(l)
          /\ file' = [file EXCEPT !.state = Emptied]
          /\ loop' = [loop EXCEPT ![l].at = "dump"]
     ELSE /\ loop' = [loop EXCEPT ![l].at = "task", ![l].task = @ + 1]
          /\ UNCHANGED <<data, file>>
  /\ UNCHANGED <<active, starts, ends, stopped, overlap>>

\* processing_active = False, whichever loop made it true, and a last save.
Finish(l) ==
  /\ loop[l].at = "end"
  /\ active' = FALSE
  /\ file' = [file EXCEPT !.state = Emptied]
  /\ loop' = [loop EXCEPT ![l].at = "last dump"]
  /\ UNCHANGED <<data, starts, ends, stopped, overlap>>

\* json.dump
Dump(l) ==
  /\ loop[l].at \in {"dump", "last dump"}
  /\ file' = [state |-> Whole, data |-> data]
  /\ loop' = [loop EXCEPT ![l] =
       IF loop[l].at = "dump" THEN [loop[l] EXCEPT !.at = "step", !.step = loop[l].step + 1] ELSE Out]
  /\ UNCHANGED <<data, active, starts, ends, stopped, overlap>>

\* The process ends, with its threads, and another one loads the file and starts.
Restart ==
  /\ ends < MaxEnds /\ ends' = ends + 1
  /\ data' = IF file.state = Whole THEN file.data ELSE Default
  /\ active' = TRUE /\ starts' = 1
  /\ \E l \in Loops : loop' = [[k \in Loops |-> Out] EXCEPT ![l].at = "task"]
  /\ stopped' = FALSE /\ overlap' = FALSE
  /\ UNCHANGED file

-----------------------------------------------------------------------------
Step(l) == NextTask(l) \/ NextStep(l) \/ Finish(l) \/ Dump(l)
Next == StartProcessing \/ StopProcessing \/ Restart \/ \E l \in Loops : Step(l)

-----------------------------------------------------------------------------
AllDone == \A t \in 1..Tasks : data.progress[t] = Done

\* Processing is only called active while a loop is there to process: whatever overlaps,
\* start is never refused for good.
ActiveHasLoop == active => \E l \in Loops : Working(l)

\* What the processing comes to: a workflow that was started is done, unless it was stopped,
\* two loops overlapped, which undo each other, or its process found the file emptied by
\* the end of the former one: then no task is ever done again.
WorkflowFinishes == starts = 0 \/ AllDone \/ data.lost \/ stopped \/ overlap
=============================================================================
