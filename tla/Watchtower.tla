----------------------------- MODULE Watchtower -----------------------------
(***************************************************************************)
(* telegram_watchtower: the bot that polls Telegram for updates            *)
(* (bot_controller.py), answers commands (command_processor.py) and        *)
(* buttons (bot_menu.py), and trades through trading_integration.py.       *)
(*                                                                         *)
(* An update stays with Telegram until a later request for updates carries *)
(* a higher offset; everything the bot knows of it is lost when its        *)
(* process ends.  start_systemd.sh kills every bot and starts a new one,   *)
(* stop_systemd.sh kills the one whose number is in logs/telegram.pid.     *)
(***************************************************************************)
EXTENDS Integers, Sequences, FiniteSets

CONSTANTS Admins,      \* config: admin_chat_ids
          Requests,    \* bound: the commands and buttons the administrators use
          MaxUpdates,  \* bound: updates sent
          MaxPosition, \* bound: the exchange executes no order beyond it
          MaxKills     \* bound: processes killed from outside

Commands == {"/long", "/short", "/close", "/systemon", "/systemoff"}
\* The commands that change nothing: they show what the bot knows of itself, what
\* lies in files, what the trading program wrote, or what the exchange answers.
BotCommands == {"/start", "/menu", "/hide", "/status"}
FileCommands == {"/workflows", "/agents", "/logs", "/metrics", "/alerts", "/data"}
StatusCommands == {"/sys", "/help"}
EngineCommands == {"/balance", "/positions", "/leverage", "/signal", "/history", "/trade"}
BoardCommands == {"/dashboard", "/intel"}
MarketCommands == {"/portfolio", "/market", "/risk"}
ReadCommands == BotCommands \cup FileCommands \cup StatusCommands \cup EngineCommands \cup BoardCommands \cup MarketCommands

\* The callbacks that ask for a confirmation.
DESTRUCTIVE_CALLBACKS == {"sys_on", "sys_off", "sys_restart", "trade_close", "trade_stop"}
BoardPages == {"main", "portfolio"}
RiskPages == {"intelligence", "risk"}
MenuPages == {"trading", "system"}
Pages == BoardPages \cup RiskPages \cup MenuPages \cup {"confirmation"}

\* The keyboard under each page.
Keyboard(page) ==
  CASE page = "main" -> {"portfolio", "intelligence", "risk", "trading", "system", "info", "sys_on", "sys_off", "sys_restart", "hide"}
    [] page = "portfolio" -> {"portfolio", "intelligence", "risk", "trading", "system", "main"}
    [] page = "intelligence" -> {"portfolio", "intelligence", "risk", "trading", "system", "main"}
    [] page = "risk" -> {"portfolio", "intelligence", "risk", "trading", "system", "main"}
    [] page = "trading" -> {"trade_long", "trade_short", "trade_close", "trade_read", "trade_start", "trade_stop", "main"}
    [] page = "system" -> {"info", "main"}
    [] page = "confirmation" -> {"confirm_yes", "confirm_no"}

Texts == Commands \cup ReadCommands
Buttons == UNION {Keyboard(page) : page \in Pages}

ASSUME WatchtowerAssumption ==
  /\ Admins # {} /\ IsFiniteSet(Admins)
  /\ Requests \subseteq Texts \cup Buttons
  /\ {MaxUpdates, MaxPosition, MaxKills} \subseteq Nat

VARIABLES
  sent,       \* the updates, numbered from 1
  acked,      \* Telegram: updates up to here are confirmed
  life,       \* the process: "up", "killed" (it is started again), "ended"
  tracked,    \* logs/telegram.pid holds its number
  pc,         \* where poll_updates is
  offset, last,  \* the update being handled, the last one of the batch
  admins,     \* bot.admin_chat_ids
  pending,    \* bot_menu.pending_confirmations
  engine,     \* FuturesTradingEngine: "absent", "off", "on"
  position,   \* the account
  placed,     \* history: whether an order of each update was executed "now", by this process, "before" or "never"
  told,       \* history: the last answer of this process
  asked,      \* history: confirmations this process asked for, less those it carried out
  closed,     \* history: a confirmation had this process close a position
  kills

chatVars == <<sent, acked>>
procVars == <<life, tracked, pc, offset, last, admins, pending, engine>>
pastVars == <<placed, told, asked, closed>>
vars == <<chatVars, procVars, position, pastVars, kills>>
process == <<life, tracked, kills>>
menu == <<admins, pending, asked, closed>>

Ids == 1..MaxUpdates
NoAction == "none"
Nothing == [id |-> 0, text |-> "nothing"]

Init ==
  /\ sent = <<>> /\ acked = 0
  /\ life = "up" /\ tracked \in BOOLEAN
  /\ pc = "poll" /\ offset = 1 /\ last = 0
  /\ admins = Admins /\ pending = [a \in Admins |-> NoAction]
  /\ engine \in {"absent", "off"}
  /\ position = 0
  /\ placed = [i \in Ids |-> "never"] /\ told = Nothing
  /\ asked = 0 /\ closed = FALSE
  /\ kills = 0

Request == sent[offset]
Up(at) == life = "up" /\ pc = at

-----------------------------------------------------------------------------
\* An administrator types a command or presses a button: every page the bot ever
\* sent is still in the chat, when it has gone on to another one or was restarted.
Send(a, what) ==
  /\ Len(sent) < MaxUpdates
  /\ what \in Requests
  /\ sent' = Append(sent, [chat |-> a, what |-> what])
  /\ UNCHANGED <<acked, procVars, position, pastVars, kills>>

-----------------------------------------------------------------------------
\* getUpdates confirms what lies before the offset and answers the rest.
Fetch ==
  /\ Up("poll")
  /\ acked' = IF offset - 1 > acked THEN offset - 1 ELSE acked
  /\ Len(sent) > acked'
  /\ offset' = acked' + 1
  /\ last' = Len(sent)
  /\ pc' = "next"
  /\ UNCHANGED <<sent, process, menu, engine, position, placed, told>>

Confirm ==
  /\ Up("poll")
  /\ Len(sent) = offset - 1 /\ acked < offset - 1
  /\ acked' = offset - 1
  /\ UNCHANGED <<sent, procVars, position, pastVars, kills>>

\* Mutant of Advanced: the update that was handled is asked for again.
AdvancedNot == offset

\* offset = update['update_id'] + 1
Advanced == offset + 1

\* Mutant of Answer: an exception leaves the handler, and poll_updates asks again.
AnswerOrRaise(text) ==
  /\ told' = [id |-> offset, text |-> text]
  /\ offset' = IF text = "error" THEN offset ELSE Advanced
  /\ pc' = IF text = "error" \/ offset = last THEN "poll" ELSE "next"

\* The answer; whether it can be sent changes nothing, and poll_updates goes on to
\* the next update.
Answer(text) ==
  /\ told' = [id |-> offset, text |-> text]
  /\ offset' = Advanced
  /\ pc' = IF offset = last THEN "poll" ELSE "next"

\* Begin to handle an update.
Take == Up("next")

\* handle_update and handle_callback_query: only administrators.
Denied ==
  /\ Take
  /\ Request.chat \notin admins
  /\ Answer("denied")
  /\ UNCHANGED <<sent, acked, last, process, menu, engine, position, placed>>

Handles(what) == Take /\ Request.chat \in admins /\ Request.what \in what

\* The commands and buttons that change nothing: those of the exchange need an engine.
ReadText(what) ==
  IF what \in EngineCommands \cup {"trade_read"} /\ engine = "absent" THEN "no engine" ELSE "report"

Read ==
  /\ Handles(ReadCommands \cup Pages \cup {"trade_read", "info", "hide"})
  /\ Answer(ReadText(Request.what))
  /\ UNCHANGED <<sent, acked, last, process, menu, engine, position, placed>>

-----------------------------------------------------------------------------
\* format_confirmation: the action is remembered for the chat, not for the dialog.
AskConfirmation ==
  /\ Handles(DESTRUCTIVE_CALLBACKS)
  /\ pending' = [pending EXCEPT ![Request.chat] = Request.what]
  /\ asked' = asked + 1
  /\ Answer("dialog")
  /\ UNCHANGED <<sent, acked, last, process, admins, closed, engine, position, placed>>

\* Mutant of Popped: the action stays pending.
PoppedNot(a) == pending

\* pending_confirmations.pop(chat_id, None)
Popped(a) == [pending EXCEPT ![a] = NoAction]

Refuse ==
  /\ Handles({"confirm_no"})
  /\ pending' = Popped(Request.chat)
  /\ Answer("report")
  /\ UNCHANGED <<sent, acked, last, process, admins, asked, closed, engine, position, placed>>

NothingPending ==
  /\ Handles({"confirm_yes"})
  /\ pending[Request.chat] = NoAction
  /\ Answer("nothing pending")
  /\ UNCHANGED <<sent, acked, last, process, menu, engine, position, placed>>

\* confirm_yes with an action that is carried out.
Confirmed(actions) ==
  /\ Handles({"confirm_yes"})
  /\ pending[Request.chat] \in actions
  /\ pending' = Popped(Request.chat)
  /\ asked' = asked - 1

\* Mutant of Remaining: every confirmed action takes a chat out of the set.
RemainingWithout(action) == {admins \ {a} : a \in admins}

\* admin_chat_ids.pop(): some chat of the set is taken to have one to pass to cmd_close.
Remaining(action) == IF action = "trade_close" THEN {admins \ {a} : a \in admins} ELSE {admins}

TradeStop ==
  /\ Confirmed({"trade_stop"})
  /\ admins' \in Remaining("trade_stop")
  /\ engine' = IF engine = "on" THEN "off" ELSE engine
  /\ Answer(IF engine = "absent" THEN "no engine" ELSE "stopped")
  /\ UNCHANGED <<sent, acked, last, process, closed, position, placed>>

TradeClose ==
  /\ Confirmed({"trade_close"})
  /\ IF engine = "absent"
     THEN Answer("no engine") /\ UNCHANGED <<admins, closed>>
     ELSE /\ admins' \in Remaining("trade_close")
          /\ closed' = TRUE
          /\ pc' = "close"
          /\ UNCHANGED <<offset, told>>
  /\ UNCHANGED <<sent, acked, last, process, engine, position, placed>>

-----------------------------------------------------------------------------
TradeStart ==
  /\ Handles({"trade_start"})
  /\ engine' = IF engine = "absent" THEN "absent" ELSE "on"
  /\ Answer(IF engine = "absent" THEN "no engine" ELSE "started")
  /\ UNCHANGED <<sent, acked, last, process, menu, position, placed>>

\* A command or a button goes to the engine, if there is one and it runs.
ToEngine(what, at) ==
  /\ Handles(what)
  /\ \/ engine = "absent" /\ Answer("no engine")
     \/ engine = "off" /\ Answer("error")
     \/ engine = "on" /\ pc' = at /\ UNCHANGED <<offset, told>>
  /\ UNCHANGED <<sent, acked, last, process, menu, engine, position, placed>>

AskOrder == ToEngine({"/long", "/short", "trade_long", "trade_short"}, "order")
AskClose == ToEngine({"/close"}, "close")

\* What open_long and open_short return when the order was placed.
OpenResult == {"success", "order", "position", "liquidation_warning", "leverage", "side"}

\* cmd_long and cmd_short.
OpenAnswer == IF "orderId" \in OpenResult THEN "opened" ELSE "failed"

\* The order request: the exchange may execute an order whose answer is lost.
PlaceOrder ==
  /\ Up("order")
  /\ \/ /\ position' = position + (IF Request.what \in {"/long", "trade_long"} THEN 1 ELSE -1)
        /\ position' \in -MaxPosition..MaxPosition
        /\ placed' = [placed EXCEPT ![offset] = "now"]
        /\ pc' \in {"placed", "error"}
     \/ pc' = "error" /\ UNCHANGED <<position, placed>>
  /\ UNCHANGED <<chatVars, process, menu, engine, offset, last, told>>

Respond(at, text) ==
  /\ Up(at)
  /\ Answer(text)
  /\ UNCHANGED <<chatVars, process, menu, engine, last, position, placed>>

\* close_all reads the position; when that fails or none is listed the answer is
\* "No position to close", which cmd_close does not know.
ReadPosition ==
  /\ Up("close")
  /\ \/ engine # "on" /\ Answer("error")
     \/ engine = "on" /\ Answer("close failed")
     \/ engine = "on" /\ pc' = (IF position = 0 THEN "check" ELSE "reduce") /\ UNCHANGED <<offset, told>>
  /\ UNCHANGED <<chatVars, process, menu, engine, last, position, placed>>

\* A reduce-only order of the size that was read.
Reduce ==
  /\ Up("reduce")
  /\ \/ position' = 0 /\ pc' \in {"check", "error"}
     \/ pc' = "error" /\ UNCHANGED position
  /\ UNCHANGED <<chatVars, process, menu, engine, offset, last, placed, told>>

\* cmd_close reads the position again; a position that cannot be read counts as closed.
Check ==
  /\ Up("check")
  /\ Answer("closed") \/ (position # 0 /\ Answer("not closed"))
  /\ UNCHANGED <<chatVars, process, menu, engine, last, position, placed>>

-----------------------------------------------------------------------------
\* The process is gone; the updates it had begun are still with Telegram.
Ends(how) ==
  /\ life' = how
  /\ placed' = [i \in Ids |-> IF placed[i] = "now" THEN "before" ELSE placed[i]]

Left == <<chatVars, tracked, pc, offset, last, admins, engine, position, told>>

\* The answer of a command whose script the bot outlives: the script is missing, fails
\* before it comes to the bots, is out of time there, or has no number of this one.
Outlives(text) ==
  /\ Answer(text)
  /\ UNCHANGED <<chatVars, life, tracked, last, admins, engine, position, placed>>

\* start_systemd.sh kills every bot by its pattern, also the one that waits for
\* it; the script, or systemd when the unit runs the bot, starts another.
SystemOn ==
  /\ \/ Handles({"/systemon"}) /\ UNCHANGED <<pending, asked>>
     \/ Confirmed({"sys_on"})
  /\ \/ Ends("killed") /\ UNCHANGED Left
     \/ Outlives("not started")
  /\ UNCHANGED <<closed, kills>>

\* stop_systemd.sh stops the bot it has a number of, and nothing starts it again.
SystemOff ==
  /\ \/ Handles({"/systemoff"}) /\ UNCHANGED <<pending, asked>>
     \/ Confirmed({"sys_off"})
  /\ \/ tracked /\ Ends("ended") /\ UNCHANGED Left
     \/ ~tracked /\ Outlives("stopping")
     \/ Outlives("not stopped")
  /\ UNCHANGED <<closed, kills>>

\* _system_restart runs the one script and then the other, if it is still there
\* to do so and the first took no longer than it may.
SystemRestart ==
  /\ Confirmed({"sys_restart"})
  /\ \/ tracked /\ Ends("ended") /\ UNCHANGED Left
     \/ ~tracked /\ Ends("killed") /\ UNCHANGED Left
     \/ Outlives("not restarted")
  /\ UNCHANGED <<closed, kills>>

\* The process dies for another reason; the unit has Restart=always.
Kill ==
  /\ life = "up" /\ kills < MaxKills /\ kills' = kills + 1
  /\ Ends(IF tracked THEN "ended" ELSE "killed")
  /\ UNCHANGED <<Left, pending, asked, closed>>

\* A new process: start, with initialize_components.
Boot(how) ==
  /\ life = how
  /\ life' = "up"
  /\ pc' = "poll" /\ offset' = 1 /\ last' = 0
  /\ admins' = Admins /\ pending' = [a \in Admins |-> NoAction]
  /\ engine' \in {"absent", "off"}
  /\ asked' = 0 /\ closed' = FALSE /\ told' = Nothing
  /\ UNCHANGED <<chatVars, tracked, position, placed, kills>>

-----------------------------------------------------------------------------
Menu == AskConfirmation \/ Refuse \/ NothingPending \/ TradeStop \/ TradeClose
Trade ==
  \/ TradeStart \/ AskOrder \/ AskClose \/ PlaceOrder
  \/ Respond("placed", OpenAnswer) \/ Respond("error", "error")
  \/ ReadPosition \/ Reduce \/ Check
System == SystemOn \/ SystemOff \/ SystemRestart

BotStep == Fetch \/ Confirm \/ Denied \/ Read \/ Menu \/ Trade \/ System

Next ==
  \/ \E a \in Admins, what \in Requests : Send(a, what)
  \/ BotStep
  \/ Kill \/ Boot("killed") \/ Boot("ended")

\* The bot's one thread is scheduled, and a bot that was killed is started again.
Spec == Init /\ [][Next]_vars /\ WF_vars(BotStep) /\ WF_vars(Boot("killed"))

-----------------------------------------------------------------------------
\* An update that is delivered again has its order executed again, and only a
\* process that ended before it confirmed the update has it delivered again: one
\* process has the order of no update executed twice, whatever it was answered.
RepeatedByLossOnly == [][position' # position /\ pc # "reduce" => placed[offset] # "now"]_vars

\* Confirmations stay in the chat and can be pressed at any time and again; each
\* of them is carried out at most once, and none of an earlier process.
EachDialogOnce == asked >= 0

\* An administrator is denied only by a process that closed a position on a
\* confirmation: each of those takes one administrator out of the set.
DeniedAfterCloseOnly == told.text = "denied" => closed

\* Both: what a pressed button does is what was asked for, by somebody who may.
ButtonsAreBound == EachDialogOnce /\ DeniedAfterCloseOnly

\* Updates that end every process which fetches them together, before they are
\* confirmed, so that the next process fetches them again: /systemon, or a
\* restarting button and the confirmation it asks for.
EndTheirProcess(from, to) ==
  \E j, k \in from..to :
    \/ sent[j].what = "/systemon"
    \/ j < k /\ sent[j].what \in {"sys_on", "sys_restart"} /\ sent[k].what = "confirm_yes"

\* Every update is handled and confirmed in the end, unless the bot has been
\* stopped for good or the updates not yet confirmed end the process themselves.
UpdatesAreConfirmed ==
  \A i \in Ids :
    Len(sent) >= i ~> \/ acked >= i
                      \/ life = "ended"
                      \/ EndTheirProcess(acked + 1, Len(sent))
=============================================================================
