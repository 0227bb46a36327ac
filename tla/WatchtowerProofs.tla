-------------------------- MODULE WatchtowerProofs --------------------------
(***************************************************************************)
(* Theorems about the bot, for every set of administrators and of the      *)
(* buttons they use, and any number of updates and of ended processes.     *)
(***************************************************************************)
EXTENDS Watchtower, FiniteSetTheorems, SequenceTheorems, TLAPS

-----------------------------------------------------------------------------
Updates == [chat : Admins, what : Requests]
Actions == DESTRUCTIVE_CALLBACKS \cup {NoAction}

\* An update is handled in the batch that was fetched, and the batch was sent.
QueueType ==
  /\ sent \in Seq(Updates) /\ Len(sent) <= MaxUpdates
  /\ acked \in Nat /\ last \in Nat
  /\ offset \in Nat /\ offset > 0
  /\ placed \in [Ids -> {"never", "now", "before"}]
  /\ pc # "poll" => offset <= last /\ last <= Len(sent)

\* This process has had an order executed only of updates before the one it is handling,
\* or of this one, to which it has only to answer.
NowInv ==
  \A i \in Ids :
    placed[i] = "now" => life = "up" /\ (i < offset \/ (i = offset /\ pc \in {"placed", "error"}))

QueueInv == QueueType /\ NowInv

\* The administrators for whom an action is pending.
Waiting == {a \in Admins : pending[a] # NoAction}

MenuType ==
  /\ admins \subseteq Admins
  /\ pending \in [Admins -> Actions]
  /\ asked \in Int
  /\ closed \in BOOLEAN

\* There is no action pending that was not asked for.
AskedInv == Cardinality(Waiting) <= asked

\* Only a close takes an administrator out of the set.
AdminsInv == ~closed => admins = Admins

MenuInv == MenuType /\ AskedInv /\ AdminsInv /\ DeniedAfterCloseOnly

IInv == QueueInv /\ MenuInv

-----------------------------------------------------------------------------
(***************************************************************************)
(* The queue of updates.  A step of the bot has one of few shapes.         *)
(***************************************************************************)

\* The update was answered, and the next one comes, or the next request.
Answered ==
  /\ life = "up" /\ pc # "poll"
  /\ offset' = offset + 1
  /\ pc' = IF offset = last THEN "poll" ELSE "next"
  /\ UNCHANGED <<sent, acked, life, last, placed>>

\* The handling goes on.
GoesOn ==
  /\ life = "up" /\ pc \notin {"poll", "placed", "error"}
  /\ pc' # "poll"
  /\ UNCHANGED <<sent, acked, life, offset, last, placed>>

\* The process ends.
Gone ==
  /\ \E how \in {"killed", "ended"} : Ends(how)
  /\ UNCHANGED <<sent, acked, pc, offset, last>>

\* The update that is being handled is one that was sent.
LEMMA RequestType ==
    ASSUME QueueInv, pc # "poll"
    PROVE  offset \in Ids /\ Request.chat \in Admins
<1>1. offset \in 1..Len(sent) /\ Len(sent) \in Nat
  BY DEF QueueInv, QueueType
<1>2. offset \in Ids
  BY <1>1, WatchtowerAssumption DEF QueueInv, QueueType, Ids
<1>3. sent[offset] \in Updates
  BY <1>1 DEF QueueInv, QueueType
<1> QED BY <1>2, <1>3 DEF Request, Updates

\* An answered update lies before the one to be handled next.
LEMMA AnsweredKeeps ==
    ASSUME QueueInv, Answered
    PROVE  QueueInv'
<1>1. QueueType'
  BY DEF QueueInv, QueueType, Answered
<1>2. NowInv'
  BY DEF QueueInv, QueueType, NowInv, Answered, Ids
<1> QED BY <1>1, <1>2 DEF QueueInv

\* Nothing is placed while the handling goes on.
LEMMA GoesOnKeeps ==
    ASSUME QueueInv, GoesOn
    PROVE  QueueInv'
<1>1. QueueType'
  BY DEF QueueInv, QueueType, GoesOn
<1>2. NowInv'
  BY DEF QueueInv, NowInv, GoesOn
<1> QED BY <1>1, <1>2 DEF QueueInv

\* What an ended process placed was placed before.
LEMMA GoneKeeps ==
    ASSUME QueueInv, Gone
    PROVE  QueueInv'
<1>1. placed' = [i \in Ids |-> IF placed[i] = "now" THEN "before" ELSE placed[i]]
  BY DEF Gone, Ends
<1>2. placed' \in [Ids -> {"never", "now", "before"}] /\ \A i \in Ids : placed'[i] # "now"
  BY <1>1 DEF QueueInv, QueueType
<1> QED BY <1>2 DEF Gone, QueueInv, QueueType, NowInv

\* An administrator sends an update.
LEMMA SendKeeps ==
    ASSUME QueueInv, NEW a \in Admins, NEW what \in Requests, Send(a, what)
    PROVE  QueueInv'
<1> DEFINE u == [chat |-> a, what |-> what]
<1>1. u \in Updates
  BY DEF Updates
<1>2. sent' = Append(sent, u) /\ Len(sent) < MaxUpdates
  BY DEF Send
<1>3. UNCHANGED <<acked, life, pc, offset, last, placed>>
  BY DEF Send, procVars, pastVars
<1>4. sent' \in Seq(Updates) /\ Len(sent') = Len(sent) + 1 /\ Len(sent) \in Nat
  BY <1>1, <1>2 DEF QueueInv, QueueType
<1> QED BY <1>2, <1>3, <1>4, WatchtowerAssumption DEF QueueInv, QueueType, NowInv

\* A request for updates never goes back behind an update that was handled.
LEMMA FetchKeeps ==
    ASSUME QueueInv, Fetch
    PROVE  QueueInv'
<1>1. /\ life = "up" /\ pc = "poll" /\ pc' = "next"
      /\ acked' = (IF offset - 1 > acked THEN offset - 1 ELSE acked)
      /\ Len(sent) > acked' /\ offset' = acked' + 1 /\ last' = Len(sent)
      /\ UNCHANGED <<sent, life, placed>>
  BY DEF Fetch, Up, process
<1>2. acked' \in Nat /\ acked' >= offset - 1 /\ offset' >= offset /\ Len(sent) \in Nat
  BY <1>1 DEF QueueInv, QueueType
<1>3. QueueType'
  BY <1>1, <1>2 DEF QueueInv, QueueType
<1>4. NowInv'
  BY <1>1, <1>2 DEF QueueInv, QueueType, NowInv, Ids
<1> QED BY <1>3, <1>4 DEF QueueInv

\* So does a request that only confirms.
LEMMA ConfirmKeeps ==
    ASSUME QueueInv, Confirm
    PROVE  QueueInv'
<1>1. acked' \in Nat
  BY DEF Confirm, QueueInv, QueueType
<1>2. UNCHANGED <<sent, life, pc, offset, last, placed>>
  BY DEF Confirm, procVars, pastVars
<1> QED BY <1>1, <1>2 DEF QueueInv, QueueType, NowInv

\* An order is placed for the update that is being handled.
LEMMA PlaceOrderKeeps ==
    ASSUME QueueInv, PlaceOrder
    PROVE  QueueInv'
<1>1. /\ life = "up" /\ pc = "order" /\ pc' \in {"placed", "error"}
      /\ UNCHANGED <<sent, acked, life, offset, last>>
  BY DEF PlaceOrder, Up, process, chatVars
<1>2. placed' = placed \/ placed' = [placed EXCEPT ![offset] = "now"]
  BY DEF PlaceOrder
<1>3. QueueType'
  BY <1>1, <1>2 DEF QueueInv, QueueType
<1>4. NowInv'
  BY <1>1, <1>2 DEF QueueInv, QueueType, NowInv
<1> QED BY <1>3, <1>4 DEF QueueInv

\* A new process has placed nothing.
LEMMA BootKeeps ==
    ASSUME QueueInv, NEW how \in {"killed", "ended"}, Boot(how)
    PROVE  QueueInv'
BY DEF Boot, chatVars, QueueInv, QueueType, NowInv

\* Reading, answering and the menu.
LEMMA MenuShape ==
    ASSUME Denied \/ Read \/ Menu
    PROVE  Answered \/ GoesOn
<1> USE DEF Answered, GoesOn, Answer, Advanced, Take, Up, Handles, Confirmed, process, menu
<1>1. CASE Denied \/ Read
  BY <1>1 DEF Denied, Read
<1>2. CASE AskConfirmation \/ Refuse \/ NothingPending
  BY <1>2 DEF AskConfirmation, Refuse, NothingPending
<1>3. CASE TradeStop
  BY <1>3 DEF TradeStop
<1>4. CASE TradeClose
  BY <1>4 DEF TradeClose
<1> QED BY <1>1, <1>2, <1>3, <1>4 DEF Menu

\* What goes to the engine.
LEMMA TradeShape ==
    ASSUME Trade
    PROVE  Answered \/ GoesOn \/ PlaceOrder
<1> USE DEF Answered, GoesOn, Answer, Advanced, Take, Up, Handles, process, menu, chatVars
<1>1. CASE TradeStart
  BY <1>1 DEF TradeStart
<1>2. ASSUME NEW what, NEW at \in {"order", "close"}, ToEngine(what, at) PROVE Answered \/ GoesOn
  BY <1>2 DEF ToEngine
<1>3. CASE AskOrder \/ AskClose
  BY <1>2, <1>3 DEF AskOrder, AskClose
<1>4. ASSUME NEW at \in {"placed", "error"}, NEW text, Respond(at, text) PROVE Answered
  BY <1>4 DEF Respond
<1>5. CASE ReadPosition
  BY <1>5 DEF ReadPosition
<1>6. CASE Reduce
  BY <1>6 DEF Reduce
<1>7. CASE Check
  BY <1>7 DEF Check
<1> QED BY <1>1, <1>3, <1>4, <1>5, <1>6, <1>7 DEF Trade

\* The scripts end the process or leave it.
LEMMA SystemShape ==
    ASSUME System \/ Kill
    PROVE  Answered \/ Gone
<1> USE DEF Answered, Gone, Answer, Advanced, Take, Up, Handles, Confirmed, Left, chatVars
<1>1. CASE SystemOn
  BY <1>1 DEF SystemOn, Outlives
<1>2. CASE SystemOff
  BY <1>2 DEF SystemOff, Outlives
<1>3. CASE SystemRestart
  BY <1>3 DEF SystemRestart, Outlives
<1>4. CASE Kill
  BY <1>4 DEF Kill
<1> QED BY <1>1, <1>2, <1>3, <1>4 DEF System

\* Every step keeps the queue.
LEMMA QueueKeeps ==
    ASSUME QueueInv, [Next]_vars
    PROVE  QueueInv'
<1>1. CASE UNCHANGED vars
  BY <1>1 DEF vars, chatVars, procVars, pastVars, QueueInv, QueueType, NowInv
<1>2. CASE \E a \in Admins, what \in Requests : Send(a, what)
  BY <1>2, SendKeeps
<1>3. CASE Fetch \/ Confirm
  BY <1>3, FetchKeeps, ConfirmKeeps
<1>4. CASE Denied \/ Read \/ Menu \/ Trade \/ System \/ Kill
  BY <1>4, MenuShape, TradeShape, SystemShape, AnsweredKeeps, GoesOnKeeps, GoneKeeps,
         PlaceOrderKeeps
<1>5. CASE Boot("killed") \/ Boot("ended")
  BY <1>5, BootKeeps
<1> QED BY <1>1, <1>2, <1>3, <1>4, <1>5 DEF Next, BotStep

-----------------------------------------------------------------------------
(***************************************************************************)
(* The menu.                                                               *)
(***************************************************************************)

\* An answer other than a denial.
Kind == told' = told \/ told'.text # "denied"

\* The menu is left alone.
Untouched == UNCHANGED menu /\ Kind

\* An action becomes pending for the chat that asked for it.
Asks ==
  /\ \E what \in DESTRUCTIVE_CALLBACKS : pending' = [pending EXCEPT ![Request.chat] = what]
  /\ asked' = asked + 1
  /\ UNCHANGED <<admins, closed>> /\ Kind

\* No action is pending any more for the chat.
Forgets == pending' = Popped(Request.chat) /\ UNCHANGED <<asked, admins, closed>> /\ Kind

\* The action that was pending is carried out; only a close changes who may ask.
CarriesOut ==
  /\ pending[Request.chat] # NoAction
  /\ pending' = Popped(Request.chat)
  /\ asked' = asked - 1
  /\ \/ UNCHANGED <<admins, closed>>
     \/ closed' = TRUE /\ admins' \subseteq admins
  /\ Kind

\* What the shapes do to the number of pending actions.
LEMMA WaitingCounts ==
    ASSUME MenuType, NEW a \in Admins, NEW action \in Actions,
           pending' = [pending EXCEPT ![a] = action]
    PROVE  /\ Cardinality(Waiting) \in Nat /\ Cardinality(Waiting') \in Nat
           /\ Cardinality(Waiting') <= Cardinality(Waiting) + 1
           /\ action = NoAction => Cardinality(Waiting') <= Cardinality(Waiting)
           /\ action = NoAction /\ pending[a] # NoAction
                => Cardinality(Waiting') = Cardinality(Waiting) - 1
<1>1. IsFiniteSet(Waiting)
  <2>1. Waiting \in SUBSET Admins
    BY DEF Waiting
  <2> QED BY <2>1, FS_Subset, WatchtowerAssumption
<1>2. Waiting' = IF action = NoAction THEN Waiting \ {a} ELSE Waiting \cup {a}
  BY DEF Waiting, MenuType
<1>3. a \in Waiting <=> pending[a] # NoAction
  BY DEF Waiting
<1>4. Cardinality(Waiting) \in Nat
  BY <1>1, FS_CardinalityType
<1>5. CASE action = NoAction
  <2>1. Cardinality(Waiting \ {a}) =
          IF a \in Waiting THEN Cardinality(Waiting) - 1 ELSE Cardinality(Waiting)
    BY <1>1, FS_RemoveElement
  <2>2. Cardinality(Waiting \ {a}) \in Nat
    BY <1>1, FS_RemoveElement, FS_CardinalityType
  <2> QED BY <1>2, <1>3, <1>4, <1>5, <2>1, <2>2
<1>6. CASE action # NoAction
  <2>1. Cardinality(Waiting \cup {a}) =
          IF a \in Waiting THEN Cardinality(Waiting) ELSE Cardinality(Waiting) + 1
    BY <1>1, FS_AddElement
  <2> QED BY <1>2, <1>4, <1>6, <2>1
<1> QED BY <1>5, <1>6

\* A pending action that is replaced, forgotten or carried out stays one that was asked for.
LEMMA ShapesKeep ==
    ASSUME MenuInv, Request.chat \in Admins, Asks \/ Forgets \/ CarriesOut
    PROVE  MenuInv'
<1> DEFINE a == Request.chat
<1>1. CASE Asks
  <2>1. PICK what \in DESTRUCTIVE_CALLBACKS : pending' = [pending EXCEPT ![a] = what]
    BY <1>1 DEF Asks
  <2>2. what \in Actions /\ asked' = asked + 1 /\ UNCHANGED <<admins, closed>> /\ Kind
    BY <1>1, <2>1 DEF Asks, Actions
  <2>3. MenuType'
    BY <2>1, <2>2 DEF MenuInv, MenuType
  <2>4. /\ Cardinality(Waiting) \in Nat /\ Cardinality(Waiting') \in Nat
        /\ Cardinality(Waiting') <= Cardinality(Waiting) + 1
    BY <2>1, <2>2, WaitingCounts DEF MenuInv
  <2>5. AskedInv'
    BY <2>2, <2>4 DEF MenuInv, MenuType, AskedInv
  <2> QED BY <2>2, <2>3, <2>5 DEF MenuInv, AdminsInv, DeniedAfterCloseOnly, Kind
<1>2. CASE Forgets \/ CarriesOut
  <2>1. pending' = [pending EXCEPT ![a] = NoAction] /\ NoAction \in Actions /\ Kind
    BY <1>2 DEF Forgets, CarriesOut, Popped, Actions
  <2>2. /\ Cardinality(Waiting) \in Nat /\ Cardinality(Waiting') \in Nat
        /\ Cardinality(Waiting') <= Cardinality(Waiting)
        /\ pending[a] # NoAction => Cardinality(Waiting') = Cardinality(Waiting) - 1
    BY <2>1, WaitingCounts DEF MenuInv
  <2>3. asked' = asked \/ (asked' = asked - 1 /\ pending[a] # NoAction)
    BY <1>2 DEF Forgets, CarriesOut
  <2>4. AskedInv'
    BY <2>2, <2>3 DEF MenuInv, MenuType, AskedInv
  <2>5. UNCHANGED <<admins, closed>> \/ (closed' = TRUE /\ admins' \subseteq admins)
    BY <1>2 DEF Forgets, CarriesOut
  <2>6. pending' \in [Admins -> Actions]
    BY <2>1 DEF MenuInv, MenuType
  <2>7. asked' \in Int
    BY <2>3 DEF MenuInv, MenuType
  <2>8. admins' \subseteq Admins /\ closed' \in BOOLEAN
    BY <2>5 DEF MenuInv, MenuType
  <2>9. MenuType'
    BY <2>6, <2>7, <2>8 DEF MenuType
  <2> QED BY <2>1, <2>4, <2>5, <2>9 DEF MenuInv, AdminsInv, DeniedAfterCloseOnly, Kind
<1> QED BY <1>1, <1>2

\* A step that leaves the menu alone, or another part of the program.
LEMMA UntouchedKeeps ==
    ASSUME MenuInv, Untouched
    PROVE  MenuInv'
BY DEF MenuInv, MenuType, AskedInv, AdminsInv, DeniedAfterCloseOnly, Waiting, Untouched, Kind, menu

\* An administrator is denied only when the set has lost one.
LEMMA DeniedKeeps ==
    ASSUME MenuInv, Request.chat \in Admins, Denied
    PROVE  MenuInv'
<1>1. UNCHANGED menu /\ closed
  BY DEF Denied, MenuInv, MenuType, AdminsInv
<1> QED BY <1>1 DEF MenuInv, MenuType, AskedInv, AdminsInv, DeniedAfterCloseOnly, Waiting, menu

\* A new process has asked for nothing and knows every administrator.
LEMMA NewMenu ==
    ASSUME NEW how \in {"killed", "ended"}, Boot(how)
    PROVE  MenuInv'
<1>1. /\ admins' = Admins /\ pending' = [a \in Admins |-> NoAction]
      /\ asked' = 0 /\ closed' = FALSE /\ told' = Nothing
  BY DEF Boot
<1>2. Waiting' = {}
  BY <1>1 DEF Waiting
<1>3. AskedInv'
  BY <1>1, <1>2, FS_EmptySet DEF AskedInv
<1>4. pending' \in [Admins -> Actions] /\ closed' \in BOOLEAN
  BY <1>1 DEF Actions
<1>5. admins' \subseteq Admins /\ asked' \in Int
  BY <1>1
<1>6. told'.text # "denied"
  BY <1>1 DEF Nothing
<1> QED BY <1>1, <1>3, <1>4, <1>5, <1>6 DEF MenuInv, MenuType, AdminsInv, DeniedAfterCloseOnly

\* Every answer but one is not a denial.
LEMMA AnswerKind ==
    ASSUME NEW text, text # "denied", Answer(text)
    PROVE  Kind
<1>1. told'.text = text
  BY DEF Answer
<1> QED BY <1>1 DEF Kind

\* Reading and the menu's own steps.
LEMMA MenuSteps ==
    ASSUME Read \/ Menu
    PROVE  Untouched \/ Asks \/ Forgets \/ CarriesOut
<1> USE AnswerKind
<1>1. CASE Read
  BY <1>1 DEF Read, ReadText, Untouched
<1>2. CASE AskConfirmation
  BY <1>2 DEF AskConfirmation, Handles, Asks
<1>3. CASE Refuse
  BY <1>3 DEF Refuse, Forgets
<1>4. CASE NothingPending
  BY <1>4 DEF NothingPending, Untouched
<1>5. CASE TradeStop
  <2>1. admins' = admins
    BY <1>5 DEF TradeStop, Remaining
  <2> QED BY <1>5, <2>1 DEF TradeStop, Confirmed, CarriesOut, NoAction
<1>6. CASE TradeClose
  <2>1. UNCHANGED <<admins, closed>> \/ (closed' = TRUE /\ admins' \subseteq admins)
    BY <1>6 DEF TradeClose, Remaining
  <2>2. told' = told \/ Answer("no engine")
    BY <1>6 DEF TradeClose
  <2>3. Kind
    BY <2>2 DEF Kind
  <2> QED BY <1>6, <2>1, <2>3 DEF TradeClose, Confirmed, CarriesOut, NoAction
<1> QED BY <1>1, <1>2, <1>3, <1>4, <1>5, <1>6 DEF Menu

\* Trading leaves the menu alone.
LEMMA TradeSteps ==
    ASSUME Trade
    PROVE  Untouched
<1> USE AnswerKind DEF Untouched
<1>1. CASE TradeStart
  BY <1>1 DEF TradeStart
<1>2. ASSUME NEW what, NEW at, ToEngine(what, at) PROVE Untouched
  <2>1. UNCHANGED menu /\ (Answer("no engine") \/ Answer("error") \/ told' = told)
    BY <1>2 DEF ToEngine
  <2> QED BY <2>1 DEF Kind
<1>3. CASE AskOrder \/ AskClose
  BY <1>2, <1>3 DEF AskOrder, AskClose
<1>4. CASE PlaceOrder
  BY <1>4 DEF PlaceOrder, Kind
<1>5. ASSUME NEW at, NEW text, text # "denied", Respond(at, text) PROVE Untouched
  BY <1>5 DEF Respond
<1>6. OpenAnswer # "denied"
  BY DEF OpenAnswer
<1>7. CASE ReadPosition \/ Reduce \/ Check
  <2>1. /\ UNCHANGED menu
        /\ \/ Answer("error") \/ Answer("close failed") \/ Answer("closed") \/ Answer("not closed")
           \/ told' = told
    BY <1>7 DEF ReadPosition, Reduce, Check
  <2> QED BY <2>1 DEF Kind
<1> QED BY <1>1, <1>3, <1>4, <1>5, <1>6, <1>7 DEF Trade

\* The scripts, by command or by button.
LEMMA SystemSteps ==
    ASSUME System \/ Kill
    PROVE  Untouched \/ CarriesOut
<1> USE AnswerKind DEF Kind, Left, Untouched, CarriesOut, Confirmed, NoAction, menu
<1>1. CASE SystemOn
  BY <1>1 DEF SystemOn, Outlives
<1>2. CASE SystemOff
  BY <1>2 DEF SystemOff, Outlives
<1>3. CASE SystemRestart
  BY <1>3 DEF SystemRestart, Outlives
<1>4. CASE Kill
  BY <1>4 DEF Kill
<1> QED BY <1>1, <1>2, <1>3, <1>4 DEF System

\* What is left: an update is sent, asked for or confirmed.
LEMMA ChatSteps ==
    ASSUME \/ Fetch \/ Confirm \/ UNCHANGED vars
           \/ \E a \in Admins, what \in Requests : Send(a, what)
    PROVE  Untouched
BY DEF Untouched, Kind, menu, Fetch, Confirm, Send, vars, procVars, pastVars

\* Outside "poll" an update is handled, and its sender is an administrator.
LEMMA MenuKeeps ==
    ASSUME IInv, [Next]_vars
    PROVE  MenuInv'
<1> USE DEF IInv
<1>1. CASE \/ UNCHANGED vars \/ Fetch \/ Confirm
           \/ \E a \in Admins, what \in Requests : Send(a, what)
  BY <1>1, ChatSteps, UntouchedKeeps
<1>2. CASE Boot("killed") \/ Boot("ended")
  BY <1>2, NewMenu
<1>3. CASE Denied
  <2>1. pc # "poll"
    BY <1>3 DEF Denied, Take, Up
  <2> QED BY <1>3, <2>1, RequestType, DeniedKeeps
<1>4. CASE Read \/ Menu
  <2>1. pc # "poll"
    BY <1>4 DEF Read, Menu, AskConfirmation, Refuse, NothingPending, TradeStop, TradeClose,
                Confirmed, Handles, Take, Up
  <2> QED BY <1>4, <2>1, RequestType, MenuSteps, UntouchedKeeps, ShapesKeep
<1>5. CASE Trade
  BY <1>5, TradeSteps, UntouchedKeeps
<1>6. CASE System \/ Kill
  <2>1. CASE Untouched
    BY <2>1, UntouchedKeeps
  <2>2. CASE ~Untouched
    <3>1. CarriesOut
      BY <1>6, <2>2, SystemSteps
    <3>2. pc # "poll"
      BY <1>6, <2>2 DEF System, SystemOn, SystemOff, SystemRestart, Outlives, Kill, Confirmed, Handles,
                        Take, Up, Untouched, Kind, Left, menu
    <3> QED BY <3>1, <3>2, RequestType, ShapesKeep
  <2> QED BY <2>1, <2>2
<1> QED BY <1>1, <1>2, <1>3, <1>4, <1>5, <1>6 DEF Next, BotStep

-----------------------------------------------------------------------------
\* The invariant holds initially.
LEMMA InitHolds == Init => IInv
<1> SUFFICES ASSUME Init PROVE IInv
  OBVIOUS
<1>1. QueueInv
  BY WatchtowerAssumption DEF Init, QueueInv, QueueType, NowInv, Ids
<1>2. Waiting = {}
  BY DEF Init, Waiting
<1>3. AskedInv
  BY <1>2, FS_EmptySet DEF Init, AskedInv
<1>4. pending \in [Admins -> Actions] /\ closed \in BOOLEAN
  BY DEF Init, Actions
<1>5. admins = Admins /\ asked \in Int
  BY DEF Init
<1>6. told.text # "denied"
  BY DEF Init, Nothing
<1> QED BY <1>1, <1>3, <1>4, <1>5, <1>6 DEF IInv, MenuInv, MenuType, AdminsInv, DeniedAfterCloseOnly

\* The inductive invariant: the queue with what was placed, and the menu with what was asked.
THEOREM Invariance == Spec => []IInv
<1>1. IInv /\ [Next]_vars => IInv'
  BY QueueKeeps, MenuKeeps DEF IInv
<1> QED BY <1>1, InitHolds, PTL DEF Spec

\* ButtonsAreBound: for every number of administrators, each confirmation is carried out at
\* most once, and an administrator is denied only after a close.
THEOREM ButtonsStayBound == Spec => []ButtonsAreBound
<1>1. IInv => ButtonsAreBound
  <2> SUFFICES ASSUME IInv PROVE EachDialogOnce /\ DeniedAfterCloseOnly
    BY DEF ButtonsAreBound
  <2>1. Waiting \in SUBSET Admins
    BY DEF Waiting
  <2>2. Cardinality(Waiting) \in Nat
    BY <2>1, FS_Subset, FS_CardinalityType, WatchtowerAssumption
  <2> QED BY <2>2 DEF IInv, MenuInv, MenuType, AskedInv, EachDialogOnce
<1> QED BY <1>1, Invariance, PTL

\* The position changes by an order or by the reducing order of a close.
LEMMA OnlyOrdersMove ==
    ASSUME [Next]_vars
    PROVE  position' = position \/ PlaceOrder \/ pc = "reduce"
<1>1. CASE \/ UNCHANGED vars \/ Fetch \/ Confirm \/ Kill \/ Boot("killed") \/ Boot("ended")
           \/ \E a \in Admins, what \in Requests : Send(a, what)
  BY <1>1 DEF vars, Fetch, Confirm, Kill, Boot, Send, Left
<1>2. CASE Denied \/ Read \/ Menu
  BY <1>2 DEF Denied, Read, Menu, AskConfirmation, Refuse, NothingPending, TradeStop, TradeClose
<1>3. CASE Trade
  BY <1>3 DEF Trade, TradeStart, AskOrder, AskClose, ToEngine, Respond, ReadPosition,
              Reduce, Check, Up
<1>4. CASE System
  BY <1>4 DEF System, SystemOn, SystemOff, SystemRestart, Outlives, Left
<1> QED BY <1>1, <1>2, <1>3, <1>4 DEF Next, BotStep

\* RepeatedByLossOnly: for every number of updates and of processes that ended, one process
\* has the order of no update executed twice.
THEOREM RepeatedByLoss == Spec => RepeatedByLossOnly
<1> DEFINE Once == position' # position /\ pc # "reduce" => placed[offset] # "now"
<1>1. IInv /\ [Next]_vars => [Once]_vars
  <2> SUFFICES ASSUME IInv, [Next]_vars, position' # position, pc # "reduce"
               PROVE  placed[offset] # "now"
    OBVIOUS
  <2>1. PlaceOrder
    BY OnlyOrdersMove
  <2>2. pc = "order"
    BY <2>1 DEF PlaceOrder, Up
  <2>3. offset \in Ids
    BY <2>2, RequestType DEF IInv
  <2> QED BY <2>2, <2>3 DEF IInv, QueueInv, QueueType, NowInv
<1> QED BY <1>1, Invariance, PTL DEF Spec, RepeatedByLossOnly
=============================================================================
