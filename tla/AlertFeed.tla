------------------------------ MODULE AlertFeed ------------------------------
(***************************************************************************)
(* The watchtower's alerts: log_tailer.py reads what is appended to a log, *)
(* bot_controller.py tells the administrators of critical lines, at most   *)
(* once a minute for a source and pattern, and a health thread warns and   *)
(* reports on its own.  Closing the trade in the menu takes an             *)
(* administrator from the set that both threads iterate over.              *)
(*                                                                         *)
(* The lines are critical ones of one source and pattern, since the others *)
(* tell nobody; a line may be written in two halves.                       *)
(***************************************************************************)
EXTENDS Integers, Sequences, SequencesExt, FiniteSets

CONSTANTS Admins,
          MaxLines,  \* bound: lines written
          MaxErrors  \* bound: errors of reading, cuts of the file and ends of the process

Threads == {"tailer", "health"}

VARIABLES
  log,      \* the halves of lines in the file
  lines,    \* lines begun
  position, \* LogTailer.file_positions
  unread,   \* the pieces read from the file and not processed yet
  throttled, warned, \* keys in last_alert_times that are not old enough: of the log, of a resource
  admins,   \* admin_chat_ids
  telling,  \* each thread's broadcast: the administrators to come and the size of the set it began with
  errors,
  passed,   \* history: lines processed, in whole or in part, or there before the tailer
  twice,    \* history: a line was processed in whole twice
  cut,      \* history: the file was cut while the tailer runs
  heard     \* history: who was sent the alert of the running minute; everybody once a broadcast was interrupted

vars == <<log, lines, position, unread, throttled, warned, admins, telling, errors, passed, twice, cut, heard>>
written == <<log, lines>>
reader == <<position, unread, passed, twice>>
alerts == <<throttled, warned, admins, telling, heard>>

Silent == [left |-> {}, size |-> 0]
LinesOf(halves) == {halves[i].line : i \in DOMAIN halves}

Init ==
  /\ log = <<>> /\ lines = 0
  /\ position = 0 /\ unread = <<>> /\ passed = {} /\ twice = FALSE
  /\ throttled = FALSE /\ warned = FALSE /\ admins = Admins /\ heard = {}
  /\ telling = [t \in Threads |-> Silent]
  /\ errors = 0 /\ cut = FALSE

-----------------------------------------------------------------------------
\* The program whose log it is.
Unfinished == log # <<>> /\ ~Last(log).end
Half(line, end) == [line |-> line, end |-> end]

Write ==
  /\ \/ Unfinished /\ log' = log \o <<Half(lines, TRUE)>> /\ UNCHANGED lines
     \/ /\ ~Unfinished /\ lines < MaxLines /\ lines' = lines + 1
        /\ \/ log' = log \o <<Half(lines', FALSE), Half(lines', TRUE)>>
           \/ log' = log \o <<Half(lines', FALSE)>>
  /\ UNCHANGED <<reader, alerts, errors, cut>>

Fault == errors < MaxErrors /\ errors' = errors + 1

\* The log is started anew.
Cut ==
  /\ log # <<>> /\ Fault
  /\ log' = <<>> /\ cut' = TRUE
  /\ UNCHANGED <<lines, reader, alerts>>

-----------------------------------------------------------------------------
\* readlines: the lines from the first to the last, and the part of one is one as well.
Piece(l, halves) == [line |-> l, whole |-> {Half(l, FALSE), Half(l, TRUE)} \subseteq ToSet(halves)]

Pieces(halves) ==
  IF halves = <<>> THEN <<>>
  ELSE LET before == Head(halves).line - 1
       IN  [k \in 1..Last(halves).line - before |-> Piece(before + k, halves)]

\* Mutant of Advanced: the position stays.
AdvancedNot == position

\* f.tell() after readlines: a position beyond the end of the file stays there.
Advanced == IF position > Len(log) THEN position ELSE Len(log)

Idle(t) == telling[t] = Silent /\ (t = "tailer" => unread = <<>>)

\* _check_log_file reads what is new, every two seconds.
Poll ==
  /\ Idle("tailer") /\ position # Len(log)
  /\ position' = Advanced
  /\ unread' = Pieces(SubSeq(log, position + 1, Len(log)))
  /\ UNCHANGED <<written, alerts, errors, passed, twice, cut>>

\* An exception sends the tailer back to the beginning.
PollFails ==
  /\ Idle("tailer") /\ position # 0 /\ Fault
  /\ position' = 0
  /\ UNCHANGED <<written, alerts, unread, passed, twice, cut>>

\* broadcast_to_admins from its first step.
Broadcast(t) == telling' = [telling EXCEPT ![t] = [left |-> admins, size |-> Cardinality(admins)]]

\* _process_log_line and on_log_alert, which notes the time before it tells anybody.
\* A part of a line may lack the pattern or the severity.
Process ==
  /\ telling["tailer"] = Silent /\ unread # <<>>
  /\ LET piece == Head(unread)
     IN /\ passed' = passed \cup {piece.line}
        /\ twice' = (twice \/ (piece.whole /\ piece.line \in passed))
        /\ \/ /\ ~throttled
              /\ throttled' = TRUE /\ heard' = {}
              /\ Broadcast("tailer")
           \/ /\ throttled \/ ~piece.whole
              /\ UNCHANGED <<throttled, heard, telling>>
  /\ unread' = Tail(unread)
  /\ UNCHANGED <<written, position, warned, admins, errors, cut>>

\* Sixty seconds after an alert, or three hundred after a warning.
Wait ==
  /\ \/ throttled /\ telling["tailer"] = Silent /\ throttled' = FALSE /\ UNCHANGED warned
     \/ warned /\ warned' = FALSE /\ UNCHANGED throttled
  /\ UNCHANGED <<written, reader, admins, telling, heard, errors, cut>>

\* _check_resources warns once in a while; _send_health_report, and a trade's alert,
\* are not throttled.
Health ==
  /\ Idle("health")
  /\ \/ ~warned /\ warned' = TRUE
     \/ UNCHANGED warned
  /\ Broadcast("health")
  /\ UNCHANGED <<written, reader, throttled, admins, heard, errors, cut>>

Changed(t) == Cardinality(admins) # telling[t].size

\* Mutant of Told: the broadcast is over with the first administrator.
ToldOne(t, a) == Silent

Told(t, a) == IF telling[t].left = {a} THEN Silent ELSE [telling[t] EXCEPT !.left = @ \ {a}]

\* send_message to the next one; whether it arrives is not looked at.
Tell(t) ==
  /\ telling[t].left # {} /\ ~Changed(t)
  /\ \E a \in telling[t].left :
       /\ telling' = [telling EXCEPT ![t] = Told(t, a)]
       /\ heard' = IF t = "tailer" THEN heard \cup {a} ELSE heard
  /\ UNCHANGED <<written, reader, throttled, warned, admins, errors, cut>>

\* The set changed its size: RuntimeError, which the callers log.
Interrupted(t) ==
  /\ telling[t].left # {} /\ Changed(t)
  /\ telling' = [telling EXCEPT ![t] = Silent]
  /\ heard' = IF t = "tailer" THEN Admins ELSE heard
  /\ UNCHANGED <<written, reader, throttled, warned, admins, errors, cut>>

\* admin_chat_ids.pop() of a confirmed close.
ConfirmedClose ==
  /\ \E a \in admins : admins' = admins \ {a}
  /\ UNCHANGED <<written, reader, throttled, warned, telling, heard, errors, cut>>

\* The process ends and another one starts at the end of the file.
Restart ==
  /\ Fault
  /\ position' = Len(log) /\ unread' = <<>> /\ passed' = LinesOf(log) /\ cut' = FALSE
  /\ throttled' = FALSE /\ warned' = FALSE /\ admins' = Admins /\ heard' = {}
  /\ telling' = [t \in Threads |-> Silent]
  /\ UNCHANGED <<written, twice>>

-----------------------------------------------------------------------------
TailerStep == Poll \/ Process \/ Tell("tailer") \/ Interrupted("tailer")
HealthStep == Tell("health") \/ Interrupted("health")
Next ==
  \/ Write \/ Cut \/ PollFails \/ Wait \/ Health \/ ConfirmedClose \/ Restart
  \/ TailerStep \/ HealthStep

-----------------------------------------------------------------------------
\* Whatever lies before the position was processed or waits for it, in whole or in
\* parts, unless the file was cut under the tailer, which then skips new lines up to
\* where it had been; and no line is processed twice but after an error.
ReadIsProcessed ==
  /\ cut \/ \A i \in DOMAIN log : i <= position => log[i].line \in passed \cup {unread[j].line : j \in DOMAIN unread}
  /\ twice => errors > 0

\* While further alerts are held back, every administrator was sent the one they are
\* held back for, or is about to be, or its broadcast was interrupted by a change of the set.
ThrottledIsTold == throttled => admins \subseteq heard \cup telling["tailer"].left

\* What the tailer comes back to, also after errors: all of the log is read.
LinesAreRead == Len(log) <= position
=============================================================================
