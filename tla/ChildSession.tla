----------------------------- MODULE ChildSession -----------------------------
(* The sessions of one document in its Kit (kit/ChildSession.cpp): several    *)
(* views of one Core, which acts in the view that was set last, and the       *)
(* callbacks by which Core tells the clients what has changed.                *)
(*                                                                            *)
(* A client sends what it likes, so a command is one action, taken when the   *)
(* Kit gets to it; callbacks wait in the queue of the Kit until it is idle.   *)
(* A malformed command only gets an error, and so does one before the load.   *)
(* What Core knows of a topic is the number of the change that made it so.    *)
EXTENDS Integers, Sequences, SequencesExt, FiniteSets

CONSTANTS
  Session,       \* the sessions, and their views
  NoView,        \* no view is set
  MaxChanges     \* changes that Core ever makes

SessionAssumption ==
  NoView \notin Session /\ MaxChanges \in Nat

VARIABLES
  isText,    \* the document is a text document: it has no parts
  core,      \* what Core has: for each topic the last change of it
  comments,  \* the changes of comments and tracked changes, in their order
  changes,   \* how many changes there were
  lokView,   \* the view that Core acts in
  news,      \* the callbacks that wait in the Kit's queue
  session,   \* the sessions
  shown,     \* what each client was told of each topic
  told,      \* what each client was told of the comments
  did        \* by whom Core was used, and in which view

childVars == <<isText, core, comments, changes, lokView, news, session, shown, told, did>>

(* The kinds of callbacks that rememberEventsForInactiveUser() tells apart,   *)
(* the part that useractive sends, and those that an inactive client misses.  *)
Replacing == {"event", "viewEvent", "state", "modified"}
Lost == {"part", "transient"}
OwnKind == (Replacing \ {"viewEvent"}) \cup Lost
Kind == OwnKind \cup {"tiles", "viewEvent", "comment"}
Doc == "doc"

Topic == ((OwnKind \cup {"viewEvent"}) \X Session) \cup {<<"tiles", Doc>>, <<"comment", Doc>>}
TopicOf(kind, v) == <<kind, IF kind \in {"tiles", "comment"} THEN Doc ELSE v>>

NoEvents == [t \in {} |-> 0]
EmptyRecorder == [invalidate |-> FALSE, latest |-> NoEvents, sequence |-> <<>>]
NewSession == [loaded |-> FALSE, active |-> TRUE, closing |-> FALSE, recorder |-> EmptyRecorder]

Init ==
  /\ isText \in BOOLEAN
  /\ core = [t \in Topic |-> 0] /\ comments = <<>> /\ changes = 0
  /\ lokView = NoView /\ news = <<>> /\ did = {}
  /\ session = [s \in Session |-> NewSession]
  /\ shown = [s \in Session |-> core] /\ told = [s \in Session |-> <<>>]

Loaded == {s \in Session : session[s].loaded}
Open == {s \in Loaded : ~session[s].closing}
-----------------------------------------------------------------------------
(* Core.                                                                      *)

SetView(s) == lokView' = s

(* Core does something for s, in the view that is set.                        *)
Uses(s) == did' = did \cup {<<s, lokView'>>}

Informed(kind, v) ==
  CASE kind \in {"tiles", "comment"} -> Loaded
    [] kind = "viewEvent" -> Loaded \ {v}
    [] OTHER -> {v}

Callbacks(kind, v) ==
  SetToSeq({[to |-> w, topic |-> TopicOf(kind, v), value |-> changes + 1] :
              w \in Informed(kind, v)})

(* A change of one kind, and its callbacks. *)
Change(kind) ==
  /\ changes < MaxChanges /\ changes' = changes + 1
  /\ core' = [core EXCEPT ![TopicOf(kind, lokView')] = changes + 1]
  /\ comments' = IF kind = "comment" THEN Append(comments, changes + 1) ELSE comments
  /\ news' = news \o Callbacks(kind, lokView')

NoChange == UNCHANGED <<core, comments, changes, news>>
-----------------------------------------------------------------------------
(* Callbacks.                                                                 *)

(* rememberEventsForInactiveUser(): the last of each, all of the comments.    *)
Remember(recorder, cb) ==
  LET kind == cb.topic[1] IN
  CASE kind = "tiles"   -> [recorder EXCEPT !.invalidate = TRUE]
    [] kind = "comment" -> [recorder EXCEPT !.sequence = Append(@, cb.value)]
    [] kind \in Replacing ->
         [recorder EXCEPT !.latest =
            [t \in DOMAIN @ \cup {cb.topic} |-> IF t = cb.topic THEN cb.value ELSE @[t]]]
    [] kind \in Lost -> recorder

(* What the client is sent. Its tiles are asked for after they were           *)
(* invalidated, and are the newest then.                                      *)
Send(acc, s, cb) ==
  IF cb.topic[1] = "comment"
  THEN [acc EXCEPT !.told[s] = Append(@, cb.value)]
  ELSE [acc EXCEPT !.shown[s][cb.topic] =
                      IF cb.topic[1] = "tiles" THEN core[cb.topic] ELSE cb.value]

PassesThrough(cb) == cb.topic[1] = "modified"

(* loKitCallback()                                                            *)
Deliver(acc, cb) ==
  LET s == cb.to IN
  IF s \notin Open THEN acc
  ELSE IF acc.session[s].active THEN Send(acc, s, cb)
  ELSE LET remembered == [acc EXCEPT !.session[s].recorder = Remember(@, cb)]
       IN IF PassesThrough(cb) THEN Send(remembered, s, cb) ELSE remembered

Clients == [session |-> session, shown |-> shown, told |-> told]
BecomeClients(acc) ==
  session' = acc.session /\ shown' = acc.shown /\ told' = acc.told

DrainCallbacks ==
  /\ news # <<>> /\ news' = <<>>
  /\ BecomeClients(FoldLeft(Deliver, Clients, news))
  /\ UNCHANGED <<core, comments, changes, lokView, did>>
-----------------------------------------------------------------------------
(* Sessions come, go, sleep and wake up.                                      *)

(* A new view is told everything; the others see a new cursor.                *)
LoadDocument(s) ==
  /\ ~session[s].loaded
  /\ session' = [session EXCEPT ![s].loaded = TRUE]
  /\ shown' = [shown EXCEPT ![s] = core] /\ told' = [told EXCEPT ![s] = comments]
  /\ SetView(s) /\ Uses(s) /\ NoChange

(* The connection closes; the view goes a little later. *)
Closing(s) ==
  /\ s \in Open
  /\ session' = [session EXCEPT ![s].closing = TRUE]
  /\ UNCHANGED <<core, comments, changes, lokView, news, shown, told, did>>

UserInactive(s) ==
  /\ s \in Open
  /\ session' = [session EXCEPT ![s].active = FALSE]
  /\ UNCHANGED <<core, comments, changes, lokView, news, shown, told, did>>

(* Everything is invalidated, the last of each event and all the comments are *)
(* sent, and the part that Core is in.                                        *)
Replayed(s) ==
  LET r == session[s].recorder IN
  [shown |-> [t \in Topic |->
     CASE t = <<"tiles", Doc>> /\ r.invalidate -> core[t]
       [] t = <<"part", s>> /\ ~isText -> core[t]
       [] t \in DOMAIN r.latest -> r.latest[t]
       [] OTHER -> shown[s][t]],
   told |-> told[s] \o r.sequence]

UserActive(s) ==
  /\ s \in Open
  /\ SetView(s) /\ Uses(s) /\ NoChange
  /\ session' = [session EXCEPT ![s].active = TRUE, ![s].recorder = EmptyRecorder]
  /\ shown' = [shown EXCEPT ![s] = Replayed(s).shown]
  /\ told' = [told EXCEPT ![s] = Replayed(s).told]
-----------------------------------------------------------------------------
(* Commands. Before the document is loaded they are refused.                  *)

Handles(s) == s \in Open /\ UNCHANGED <<session, told>>

(* Core answers from the view of the session. *)
Ask(s) == Handles(s) /\ SetView(s) /\ Uses(s) /\ NoChange /\ UNCHANGED shown

SendFontRendering(s) == Ask(s)
GetStatus(s) == Ask(s)
GetCommandValues(s) == Ask(s)
GetTextSelection(s) == Ask(s)
AskSignatureStatus(s) == Ask(s)
RenderSearchResult(s) == Ask(s)
RenderShapeSelection(s) == Ask(s)
GetA11y(s) == Ask(s)
GetPresentationInfo(s) == Ask(s)

(* Mutant: the view is not set. *)
EditInAnyView(s, kinds) ==
  /\ Handles(s) /\ UNCHANGED lokView /\ Uses(s) /\ UNCHANGED shown
  /\ \E kind \in kinds : Change(kind)

(* Core is used, and something changes: at most one kind of thing at a time.  *)
Edit(s, kinds) ==
  /\ Handles(s) /\ SetView(s) /\ Uses(s) /\ UNCHANGED shown
  /\ \E kind \in kinds : Change(kind)

Selections == {"event", "viewEvent", "state"}
Anything == Kind \ {"part"}

ClientZoom(s) == Edit(s, {"event"})
ClientVisibleArea(s) == Edit(s, {"event"})
OutlineState(s) == Edit(s, {"event", "tiles"})
SelectText(s) == Edit(s, Selections)
SelectGraphic(s) == Edit(s, Selections)
ResetSelection(s) == Edit(s, Selections)
KeyEvent(s) == Edit(s, Anything)
ExtTextInputEvent(s) == Edit(s, Anything)
GestureEvent(s) == Edit(s, Anything)
MouseEvent(s) == Edit(s, Anything \cup {"part"})
Paste(s) == Edit(s, Anything)
InsertFile(s) == Edit(s, Anything)
DialogEvent(s) == Edit(s, Anything)
FormFieldEvent(s) == Edit(s, Anything)
ContentControlEvent(s) == Edit(s, Anything)
CompleteFunction(s) == Edit(s, Anything)
UnoSignatureCommand(s) == Edit(s, Anything)
UnoCommand(s) == Edit(s, Anything \cup {"part"})
ResizeWindow(s) == Edit(s, {"transient"})
SendWindowCommand(s) == Edit(s, {"transient"})
RemoveTextContext(s) == Edit(s, Anything)

(* A part is set by the client that shows it already. *)
SetClientPart(s) ==
  /\ Handles(s) /\ ~isText /\ SetView(s) /\ Uses(s)
  /\ changes < MaxChanges /\ changes' = changes + 1
  /\ core' = [core EXCEPT ![<<"part", s>>] = changes + 1]
  /\ shown' = [shown EXCEPT ![s][<<"part", s>>] = changes + 1]
  /\ UNCHANGED <<comments, news>>

SelectClientPart(s) == ~isText /\ Edit(s, {"state"})
MoveSelectedClientParts(s) == ~isText /\ Edit(s, {"tiles", "modified"})
SetPage(s) == isText /\ Edit(s, {"event"})

(* These name the view, or work in the one that is set, whichever it is: a    *)
(* download is saved from it.                                                 *)
InTheCurrentView(s) == Handles(s) /\ NoChange /\ UNCHANGED <<lokView, shown, did>>

DownloadAs(s) == InTheCurrentView(s)
RenderSlide(s) == InTheCurrentView(s)
RenderWindow(s) == InTheCurrentView(s)

(* The Kit paints tiles in a view that shows what they have to show, whoever  *)
(* has asked for them. *)
PaintTiles(s) ==
  /\ s \in Loaded /\ SetView(s) /\ NoChange
  /\ UNCHANGED <<session, shown, told, did>>
-----------------------------------------------------------------------------
Asks(s) ==
  \/ SendFontRendering(s) \/ GetStatus(s) \/ GetCommandValues(s) \/ GetTextSelection(s)
  \/ AskSignatureStatus(s) \/ RenderSearchResult(s) \/ RenderShapeSelection(s)
  \/ GetA11y(s) \/ GetPresentationInfo(s)

Inputs(s) ==
  \/ KeyEvent(s) \/ ExtTextInputEvent(s) \/ GestureEvent(s) \/ MouseEvent(s)
  \/ SelectText(s) \/ SelectGraphic(s) \/ ResetSelection(s)
  \/ ClientZoom(s) \/ ClientVisibleArea(s) \/ OutlineState(s)
  \/ SetClientPart(s) \/ SelectClientPart(s) \/ MoveSelectedClientParts(s) \/ SetPage(s)

Edits(s) ==
  \/ Paste(s) \/ InsertFile(s) \/ DialogEvent(s) \/ FormFieldEvent(s)
  \/ ContentControlEvent(s) \/ CompleteFunction(s) \/ UnoSignatureCommand(s)
  \/ UnoCommand(s) \/ ResizeWindow(s) \/ SendWindowCommand(s) \/ RemoveTextContext(s)

Sessions(s) ==
  \/ LoadDocument(s) \/ Closing(s) \/ UserInactive(s) \/ UserActive(s)
  \/ DownloadAs(s) \/ RenderSlide(s) \/ RenderWindow(s) \/ PaintTiles(s)

Next ==
  /\ \/ DrainCallbacks
     \/ \E s \in Session : Sessions(s) \/ Asks(s) \/ Inputs(s) \/ Edits(s)
  /\ UNCHANGED isText

Spec == Init /\ [][Next]_childVars
-----------------------------------------------------------------------------
(* What a client asks for or does happens in its own view, whatever the       *)
(* others, the tiles and the callbacks do to the view of Core in between.     *)
ActsInOwnView == \A use \in did : use[1] = use[2]

(* A client that is active and has no callback waiting was told all that Core *)
(* has, however often it slept: the last of what replaces, and every comment  *)
(* once and in order. Dialogs, results and progress that Core reported while  *)
(* it slept are lost, and a part that Core changes may cross one that the     *)
(* client sets: neither is claimed.                                           *)
Pending(s) == \E i \in DOMAIN news : news[i].to = s
Replaceable(s) ==
  {t \in Topic : t[1] \notin {"transient", "comment", "part"}
                 /\ (t[1] = "viewEvent" => t[2] # s)
                 /\ (t[1] \in OwnKind => t[2] = s)}

ActiveIsCurrent ==
  \A s \in Open :
    session[s].active /\ ~Pending(s) =>
      /\ told[s] = comments
      /\ \A t \in Replaceable(s) : shown[s][t] = core[t]
=============================================================================
