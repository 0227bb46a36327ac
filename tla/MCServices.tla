----------------------------- MODULE MCServices -----------------------------
\* The services beside the trading loops, for TLC: the store of trades and positions, the
\* reload of the configuration, the healing of components, the alerts from the logs, the
\* check of the processes and the workflow. In the source nobody wires one of them to
\* another, so a behaviour is one of the service in focus, and the rest stands still.
EXTENDS Integers, FiniteSets

CONSTANTS
  Loops, Callers,           \* threads: those that go on by themselves, and those of callers
  MaxConn,                  \* of the pool of the store
  Monitored, Critical, max_restarts, FailuresToAlert, \* of the healing
  Admins,                   \* of the alerts
  Components,               \* of the check of the processes
  Tasks, Done,              \* of the workflow
  MaxWrites, MaxVersions, MaxPools, MaxStarts, MaxFaults, MaxLines, MaxErrors, MaxLosses,
  MaxRuns, MaxEnds          \* bounds

ASSUME ServicesAssumption ==
  /\ IsFiniteSet(Loops) /\ IsFiniteSet(Callers) /\ Loops # {} /\ IsFiniteSet(Admins)
  /\ {MaxConn, max_restarts, Tasks, Done} \subseteq Nat

VARIABLES
  focus,
  kind, rows, cached, pool, client, written, excused,
  configFile, config, last_modified, watching, applied, watcher, watches, reloads, overlooked,
  state, failure_count, restart_counts, monitoring, healer, faults, monitors, overtaken,
  log, lines, position, unread, throttled, warned, admins, telling, errors, passed, twice, cut, heard,
  up, statusFile, beat, checker, believed, missed, changes, losses, runs,
  data, workflowFile, active, loop, starts, ends, stopped, overlap

storeVars == <<kind, rows, cached, pool, client, written, excused>>
configVars == <<configFile, config, last_modified, watching, applied, watcher, watches, reloads, overlooked>>
healingVars == <<state, failure_count, restart_counts, monitoring, healer, faults, monitors, overtaken>>
alertVars == <<log, lines, position, unread, throttled, warned, admins, telling, errors, passed, twice, cut, heard>>
statusVars == <<up, statusFile, beat, checker, believed, missed, changes, losses, runs>>
workflowVars == <<data, workflowFile, active, loop, starts, ends, stopped, overlap>>

Store == INSTANCE TradeStore WITH Clients <- Loops

Config == INSTANCE ConfigReload WITH
  Watchers <- Loops, MaxWrites <- MaxVersions,
  file <- configFile, running <- watching, thread <- watcher, starts <- watches, overlap <- reloads

Healing == INSTANCE SelfHealing WITH
  Components <- Monitored, running <- monitoring, thread <- healer, starts <- monitors

Alerts == INSTANCE AlertFeed

Status == INSTANCE HealthCheck WITH file <- statusFile, faults <- changes

Work == INSTANCE Workflow WITH file <- workflowFile

Init ==
  /\ focus \in {"store", "config", "healing", "alerts", "status", "workflow"}
  /\ Store!Init /\ (kind = "trade" \/ focus = "store")
  /\ Config!Init /\ Healing!Init /\ Alerts!Init
  /\ Status!Init /\ (up = {} \/ focus = "status")
  /\ Work!Init

inside == <<storeVars, configVars, healingVars>>
outside == <<alertVars, statusVars, workflowVars>>

InStore == focus = "store" /\ UNCHANGED <<focus, configVars, healingVars, outside>>
InConfig == focus = "config" /\ UNCHANGED <<focus, storeVars, healingVars, outside>>
InHealing == focus = "healing" /\ UNCHANGED <<focus, storeVars, configVars, outside>>
InAlerts == focus = "alerts" /\ UNCHANGED <<focus, statusVars, workflowVars, inside>>
InStatus == focus = "status" /\ UNCHANGED <<focus, alertVars, workflowVars, inside>>
InWorkflow == focus = "workflow" /\ UNCHANGED <<focus, alertVars, statusVars, inside>>

Next ==
  \/ InStore /\ Store!Next
  \/ InConfig /\ Config!Next
  \/ InHealing /\ Healing!Next
  \/ InAlerts /\ Alerts!Next
  \/ InStatus /\ Status!Next
  \/ InWorkflow /\ Work!Next

\* Each thread goes on: those of the service in focus, one after the other.
ThreadStep(t) ==
  \/ InStore /\ t \in Loops /\ Store!Step(t)
  \/ InConfig /\ Config!Step(t)
  \/ InHealing /\ Healing!LoopStep(t)
  \/ InWorkflow /\ t \in Loops /\ Work!Step(t)

\* So do the tailer and the daemon, the health thread and a check by hand ...
Reads ==
  \/ InAlerts /\ Alerts!TailerStep
  \/ InStatus /\ (Status!Load("daemon") \/ Status!Step("daemon"))

Looks ==
  \/ InAlerts /\ Alerts!HealthStep
  \/ InStatus /\ Status!Step("hand")

\* ... and the time to live of the keys in Redis.
Expires == InStore /\ Store!Expire

all == <<focus, inside, outside>>

Fairness ==
  /\ \A t \in Loops \cup Callers : WF_all(ThreadStep(t))
  /\ WF_all(Reads) /\ WF_all(Looks) /\ WF_all(Expires)

Spec == Init /\ [][Next]_all /\ Fairness

-----------------------------------------------------------------------------
\* What is a copy of something else differs from it for a known reason only: the cached
\* row of Postgres, the configuration and the file it was read from, the configuration the
\* components were given, and the saved status of what the administrators were told.
CopiesAreExplained ==
  /\ Store!StaleIsExplained
  /\ Config!AppliedIsConfig /\ Config!ConfigIsFile
  /\ Status!FileIsTold

\* Nothing gets lost on the way: a connection of the pool in a statement that fails, a
\* line of the log between the read and its processing, an alert that holds back others.
NothingIsLost ==
  /\ Store!PoolIsWhole
  /\ Alerts!ReadIsProcessed /\ Alerts!ThrottledIsTold

\* Flags and counters that several threads read and write without a lock stay true to
\* those threads: a component is restarted no more often than was allowed to each of
\* them, and an active workflow has a loop.
ThreadsAreCounted ==
  /\ Healing!RestartsAreBounded
  /\ Work!ActiveHasLoop

\* What is to be made up for is made up for in the end: an old cached row, a newer file,
\* a critical component that is down, a written line, a component whose end nobody was
\* told of, and a workflow that was started. Only one of the services moves in a
\* behaviour, so that this is what each of them promises on its own.
ServicesSettle ==
  []<>(/\ Store!CacheIsCurrent /\ Config!NewerIsLookedAt /\ Healing!DownIsRestarted
       /\ Alerts!LinesAreRead /\ Status!DownIsTold /\ Work!WorkflowFinishes)
=============================================================================
