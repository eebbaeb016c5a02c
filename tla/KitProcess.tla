------------------------------ MODULE KitProcess -------------------------------
(* One Kit process: the document and its views, the input of the clients, the *)
(* modified state that LibreOffice reports through callbacks, and saves, in   *)
(* the foreground or in a forked child that reports over a socket.            *)
(*                                                                            *)
(* kit/Kit.cpp, kit/KitWebSocket.cpp and kit/ChildSession.cpp, over the       *)
(* queue operators of KitQueue. LibreOffice may yield to the poll within any  *)
(* call, so callbacks and the sockets of saves are served at any time; input  *)
(* is not while a document loads or is saved in the foreground.               *)
EXTENDS KitQueue

CONSTANTS
  Session,
  InputTypes,   \* the kinds of input the clients send
  Overlap,      \* wsd may ask for a save while one is unanswered
  Faults,       \* what may go wrong: "saveFails", "crash", "lateCrash", "dialog", "noFork", "loadFails"
  MaxRequests,  \* inputs and saves that the clients send
  MaxEvents,    \* faults, and sessions that leave
  MaxInFlight   \* messages of wsd that are on the way to the Kit

ASSUME KitAssumption ==
  /\ IsFiniteSet(Session) /\ InputTypes \subseteq {"key", "mouse", "textinput", "removetextcontext", "uno"}
  /\ Overlap \in BOOLEAN
  /\ Faults \subseteq {"saveFails", "crash", "lateCrash", "dialog", "noFork", "loadFails"}
  /\ {MaxRequests, MaxEvents, MaxInFlight} \subseteq Nat

VARIABLES
  kit,     \* the Document of the process
  core,    \* LibreOffice: what was applied, and whether it is modified
  procs,   \* background saves: the child and the parent's handler of its socket
  disk,    \* what is in the saved file
  toKit,   \* wsd to Kit
  wsd,     \* what wsd knows: the modified state and its unanswered saves
  raced,   \* history: a fork cleared the modified state over a queued 'modified'
  count

vars == <<kit, core, procs, disk, toKit, wsd, raced, count>>

DocumentState == {"Modified", "UnModifiedButSaving", "UnModified"}
NoOp == [op |-> "none"]

Init ==
  /\ kit = [alive |-> TRUE, document |-> FALSE, sessions |-> [s \in Session |-> "none"], running |-> NoOp,
            queue |-> <<>>, callbacks |-> <<>>, modified |-> "UnModified",
            bgSaveDisabled |-> FALSE, bgSavesOngoing |-> 0]
  /\ core = [loaded |-> FALSE, applied |-> <<>>, modified |-> FALSE]
  /\ procs = {}
  /\ disk = {}
  /\ toKit = <<>>
  /\ wsd = [sessions |-> {}, modified |-> FALSE, saves |-> 0, unasked |-> 0]
  /\ raced = FALSE
  /\ count = [requests |-> 0, events |-> 0]

Counts(event, max) == count[event] < max /\ count' = [count EXCEPT ![event] = @ + 1]

Fails(fault) == fault \in Faults /\ Counts("events", MaxEvents)

(* WebSocketHandler::processInputEnabled: off while InputProcessingManager    *)
(* guards a load or a save in the foreground.                                 *)
ProcessInputEnabled == kit.alive /\ kit.running = NoOp

HaveLoadedSessions(k) == \E s \in Session : k.sessions[s] = "loaded"

Applied == {core.applied[i] : i \in DOMAIN core.applied}
-----------------------------------------------------------------------------
(* The modified state. LibreOffice (external) tells every view when it        *)
(* changes; the callbacks wait in the queue until they are drained.           *)

LoadedViews(k) == {s \in Session : k.sessions[s] = "loaded"}

ModifiedStatus(view, value) == [view |-> view, type |-> "modified", value |-> value]

TellViews(k, value) ==
  LET views == SetToSeq(LoadedViews(k))
  IN  [k EXCEPT !.callbacks = @ \o [i \in 1 .. Len(views) |-> ModifiedStatus(views[i], value)]]

SetCoreModified(k, value) == IF core.modified = value THEN k ELSE TellViews(k, value)

(* forceDocUnmodifiedForBgSave, with postForceModifiedCommand.                *)
ForceDocUnmodified(k) ==
  IF k.modified = "Modified"
  THEN SetCoreModified([k EXCEPT !.modified = "UnModifiedButSaving"], FALSE) ELSE k

UpdateModifiedOnFailedBgSave(k) ==
  IF k.modified = "UnModifiedButSaving"
  THEN SetCoreModified([k EXCEPT !.modified = "Modified"], TRUE) ELSE k

NotifySyntheticUnmodified(k) ==
  IF k.modified = "UnModifiedButSaving" THEN [k EXCEPT !.modified = "UnModified"] ELSE k

(* Mutant: the false that forcing has caused is believed. *)
TrackAnyState(state, value) == IF value THEN "Modified" ELSE "UnModified"

(* trackDocModifiedState: the false that forcing has caused is filtered.      *)
TrackDocModified(state, value) ==
  IF value THEN "Modified" ELSE IF state = "UnModifiedButSaving" THEN state ELSE "UnModified"

(* An unocommandresult of .uno:Save arrives at wsd.                           *)
Answered(w) == IF w.saves > 0 THEN [w EXCEPT !.saves = @ - 1] ELSE [w EXCEPT !.unasked = @ + 1]

(* ChildSession::loKitCallback of one callback, on the state of the document  *)
(* and on wsd. Those of a view that is gone are dropped.                      *)
LoKitCallback(at, cb) ==
  IF kit.sessions[cb.view] # "loaded" THEN at
  ELSE IF cb.type = "result" THEN [at EXCEPT !.wsd = Answered(@)]
  ELSE [state |-> TrackDocModified(at.state, cb.value),
        wsd   |-> [at.wsd EXCEPT !.modified = IF at.state = "UnModifiedButSaving" /\ ~cb.value
                                              THEN @ ELSE cb.value]]

(* Document::drainCallbacks.                                                  *)
DrainCallbacks ==
  /\ kit.alive /\ kit.callbacks # <<>>
  /\ LET last == Len(kit.callbacks)
         done[n \in 0 .. last] ==
           IF n = 0 THEN [state |-> kit.modified, wsd |-> wsd]
                    ELSE LoKitCallback(done[n - 1], kit.callbacks[n])
     IN  kit' = [kit EXCEPT !.modified = done[last].state, !.callbacks = <<>>] /\ wsd' = done[last].wsd
  /\ UNCHANGED <<core, procs, disk, toKit, raced, count>>
-----------------------------------------------------------------------------
(* Messages of wsd: KitWebSocketHandler::handleMessage creates sessions at    *)
(* once and queues what is for one of them.                                   *)

CreateSession(k, s) ==
  [k EXCEPT !.document = TRUE, !.sessions[s] = IF @ = "none" THEN "created" ELSE @]

ReceiveMessage ==
  /\ ProcessInputEnabled /\ toKit # <<>>
  /\ LET msg == Head(toKit) IN
       \/ /\ msg.type = "session"
          /\ kit' = CreateSession(kit, msg.session)
       \/ /\ msg.type # "session"
          /\ kit' = [kit EXCEPT !.queue = Put(@, msg)]
  /\ toKit' = Tail(toKit)
  /\ UNCHANGED <<core, procs, disk, wsd, raced, count>>

Popped == [kit EXCEPT !.queue = Tail(@)]

HandleInput(type) ==
  /\ ProcessInputEnabled /\ kit.queue # <<>> /\ Head(kit.queue).type \in type

(* forwardToChild of "load": ChildSession::loadDocument starts.               *)
StartLoad ==
  /\ HandleInput({"load"})
  /\ LET s == Head(kit.queue).session IN
       kit' = IF kit.sessions[s] = "created"
              THEN [Popped EXCEPT !.running = [op |-> "load", session |-> s]] ELSE Popped
  /\ UNCHANGED <<core, procs, disk, toKit, wsd, raced, count>>

(* Document::load and what follows it; LibreOffice reports the state of the   *)
(* document to a new view.                                                    *)
FinishLoad ==
  /\ kit.alive /\ kit.running.op = "load"
  /\ LET s == kit.running.session IN
       kit' = [kit EXCEPT !.sessions[s] = "loaded", !.running = NoOp,
                          !.callbacks = PutState(@, ModifiedStatus(s, core.modified))]
  /\ core' = [core EXCEPT !.loaded = TRUE]
  /\ UNCHANGED <<procs, disk, toKit, wsd, raced, count>>

(* A document that does not load ends the process; a view that cannot be made *)
(* (a wrong password) leaves its session unloaded.                            *)
FailLoad ==
  /\ kit.alive /\ kit.running.op = "load"
  /\ Fails("loadFails")
  /\ kit' = [kit EXCEPT !.running = NoOp, !.alive = core.loaded]
  /\ UNCHANGED <<core, procs, disk, toKit, wsd, raced>>

(* keyEvent, mouseEvent, extTextInputEvent, removeTextContext, unoCommand:    *)
(* the input is applied, and the document is modified.                        *)
ApplyInput ==
  /\ HandleInput(InputTypes)
  /\ LET msg == Head(kit.queue) IN
       IF kit.sessions[msg.session] = "loaded"
       THEN /\ kit' = SetCoreModified(Popped, TRUE)
            /\ core' = [core EXCEPT !.applied = @ \o msg.ids, !.modified = TRUE]
       ELSE kit' = Popped /\ UNCHANGED core
  /\ UNCHANGED <<procs, disk, toKit, wsd, raced, count>>

(* Document::onUnload: the process exits with the last loaded view.           *)
OnUnload(k, s) ==
  LET gone == [k EXCEPT !.sessions[s] = "none"]
  IN  [gone EXCEPT !.alive = k.sessions[s] = "loaded" => HaveLoadedSessions(gone)]

(* forwardToChild of "disconnect", ChildSession::disconnect and ~ChildSession: *)
(* the saves of the process end with it.                                      *)
DisconnectSession ==
  /\ HandleInput({"disconnect"})
  /\ kit' = OnUnload(Popped, Head(kit.queue).session)
  /\ procs' = IF kit'.alive THEN procs ELSE {}
  /\ UNCHANGED <<core, disk, toKit, wsd, raced, count>>

(* kitPoll ends the process once purgeSessions finds nobody.                  *)
PurgeSessions ==
  /\ ProcessInputEnabled /\ kit.queue = <<>>
  /\ kit.document /\ \A s \in Session : kit.sessions[s] = "none"
  /\ kit' = [kit EXCEPT !.alive = FALSE]
  /\ procs' = {}
  /\ UNCHANGED <<core, disk, toKit, wsd, raced, count>>
-----------------------------------------------------------------------------
(* Saving.                                                                    *)

Saver == Head(kit.queue).session

FreshPid == CHOOSE n \in 0..Cardinality(procs) : \A p \in procs : p.id # n

(* ChildSession::saveDocumentBackground and Document::forkToSave. The worker  *)
(* threads are joined, the child takes what is in memory, and the threads     *)
(* are started again; the parent clears the modified state.                   *)
ForkToSave ==
  /\ HandleInput({"save"}) /\ kit.sessions[Saver] = "loaded"
  /\ ~kit.bgSaveDisabled
  /\ procs' = procs \cup {[id |-> FreshPid, content |-> Applied,
                           phase |-> "saving", sent |-> <<>>, completed |-> FALSE]}
  /\ kit' = [ForceDocUnmodified(Popped) EXCEPT !.bgSavesOngoing = @ + 1]
  /\ core' = [core EXCEPT !.modified = IF kit.modified = "Modified" THEN FALSE ELSE @]
  /\ raced' = (raced \/ (/\ kit.modified = "Modified"
                         /\ \E i \in DOMAIN kit.callbacks : kit.callbacks[i].value))
  /\ UNCHANGED <<disk, toKit, wsd, count>>

(* No background save: it was disabled, or the threads could not be stopped.  *)
StartSave ==
  /\ HandleInput({"save"}) /\ kit.sessions[Saver] = "loaded"
  /\ IF kit.bgSaveDisabled THEN UNCHANGED count ELSE Fails("noFork")
  /\ kit' = [Popped EXCEPT !.running = [op |-> "save", session |-> Saver]]
  /\ UNCHANGED <<core, procs, disk, toKit, wsd, raced>>

(* The save in the foreground ends: the state and the result are callbacks.   *)
FinishSave(ok) ==
  /\ kit.alive /\ kit.running.op = "save"
  /\ IF ok THEN UNCHANGED count ELSE Fails("saveFails")
  /\ LET k == [kit EXCEPT !.running = NoOp]
         told == IF ok THEN SetCoreModified(k, FALSE) ELSE k
     IN  kit' = [told EXCEPT !.callbacks =
                   Append(@, [view |-> kit.running.session, type |-> "result", value |-> ok])]
  /\ core' = IF ok THEN [core EXCEPT !.modified = FALSE] ELSE core
  /\ disk' = IF ok THEN Applied ELSE disk
  /\ UNCHANGED <<procs, toKit, wsd, raced>>

Becomes(p, q) == procs' = (procs \ {p}) \cup {q}

(* The child: LibreOffice stores the document, copyForUpload publishes it,    *)
(* and the result goes to the parent before the child exits.                  *)
ChildSaves(p, ok) ==
  /\ p.phase = "saving"
  /\ IF ok THEN UNCHANGED count ELSE Fails("saveFails")
  /\ disk' = IF ok THEN p.content ELSE disk
  /\ Becomes(p, [p EXCEPT !.phase = "stored", !.sent = Append(@, IF ok THEN "success" ELSE "failure")])
  /\ UNCHANGED <<kit, core, toKit, wsd, raced>>

(* handleSaveMessage: the socket is shut down after writing, then the child   *)
(* exits; also when the parent has shut the socket down.                      *)
ChildExits(p) ==
  /\ p.phase \in {"stored", "dismissed"}
  /\ Becomes(p, [p EXCEPT !.phase = "exited"])
  /\ UNCHANGED <<kit, core, disk, toKit, wsd, raced, count>>

(* The child crashes, or its watchdog aborts it: while it saves, or when it   *)
(* has told the parent something already.                                     *)
ChildCrashes(p) ==
  /\ p.phase = "saving" \/ (p.phase \in {"asking", "stored"} /\ "lateCrash" \in Faults)
  /\ Fails("crash")
  /\ Becomes(p, [p EXCEPT !.phase = "crashed"])
  /\ UNCHANGED <<kit, core, disk, toKit, wsd, raced>>

(* LibreOffice asks something while it stores, and waits for an answer.       *)
ChildAsks(p) ==
  /\ p.phase = "saving"
  /\ Fails("dialog")
  /\ Becomes(p, [p EXCEPT !.phase = "asking", !.sent = Append(@, "jsdialog")])
  /\ UNCHANGED <<kit, core, disk, toKit, wsd, raced>>

CoreAfterFailure == [core EXCEPT !.modified = @ \/ kit.modified = "UnModifiedButSaving"]

(* BgSaveParentWebSocketHandler::reportFailedSave.                            *)
ReportFailedSave(k) == [UpdateModifiedOnFailedBgSave(k) EXCEPT !.bgSaveDisabled = TRUE]

(* Mutant: the child is told to go on. *)
LetGoOn(p) == [p EXCEPT !.phase = IF @ = "asking" THEN "saving" ELSE @]

(* terminateSave: a child that waits for an answer is disconnected.           *)
TerminateSave(p) == [p EXCEPT !.phase = IF @ = "asking" THEN "dismissed" ELSE @]

(* BgSaveParentWebSocketHandler::handleMessage. An unexpected dialog ends the *)
(* save (terminateSave).                                                      *)
BgSaveMessage(p) ==
  /\ kit.alive /\ p.sent # <<>>
  /\ LET msg == Head(p.sent)
         q   == [p EXCEPT !.sent = Tail(@), !.completed = TRUE] IN
       \/ /\ msg = "success"
          /\ kit' = NotifySyntheticUnmodified(kit)
          /\ wsd' = [Answered(wsd) EXCEPT
                       !.modified = IF kit.modified = "UnModifiedButSaving" THEN FALSE ELSE @]
          /\ Becomes(p, q) /\ UNCHANGED core
       \/ /\ msg = "failure"
          /\ kit' = ReportFailedSave(kit) /\ core' = CoreAfterFailure
          /\ wsd' = Answered(wsd)
          /\ Becomes(p, q)
       \/ /\ msg = "jsdialog"
          /\ kit' = ReportFailedSave(kit) /\ core' = CoreAfterFailure
          /\ wsd' = Answered(wsd)
          /\ Becomes(p, TerminateSave(q))
  /\ UNCHANGED <<disk, toKit, raced, count>>

(* Mutant: only a crash is reported. *)
BgSaveForgotten(p) ==
  /\ kit.alive /\ p.sent = <<>> /\ p.phase \in {"exited", "crashed"}
  /\ kit' = [kit EXCEPT !.bgSavesOngoing = @ - 1]
  /\ procs' = procs \ {p}
  /\ UNCHANGED <<core, disk, toKit, wsd, raced, count>>

(* BgSaveParentWebSocketHandler::onDisconnect and its destructor.             *)
BgSaveDisconnect(p) ==
  /\ kit.alive /\ p.sent = <<>> /\ p.phase \in {"exited", "crashed"}
  /\ LET k == [kit EXCEPT !.bgSavesOngoing = @ - 1] IN
       IF p.phase = "crashed" \/ ~p.completed
       THEN kit' = ReportFailedSave(k) /\ core' = CoreAfterFailure /\ wsd' = Answered(wsd)
       ELSE kit' = k /\ UNCHANGED <<core, wsd>>
  /\ procs' = procs \ {p}
  /\ UNCHANGED <<disk, toKit, raced, count>>
-----------------------------------------------------------------------------
(* wsd.                                                                       *)

CanSend == kit.alive /\ Len(toKit) < MaxInFlight

(* A client loads the document, unless it leaves before. *)
JoinDocument(s) ==
  /\ CanSend /\ s \notin wsd.sessions /\ kit.sessions[s] = "none"
  /\ \A i \in DOMAIN toKit : toKit[i].session # s
  /\ \A i \in DOMAIN kit.queue : kit.queue[i].session # s
  /\ wsd' = [wsd EXCEPT !.sessions = @ \cup {s}]
  /\ \E loads \in {<<>>, <<[type |-> "load", session |-> s]>>} :
       toKit' = Append(toKit, [type |-> "session", session |-> s]) \o loads
  /\ UNCHANGED <<kit, core, procs, disk, raced, count>>

(* The broker lets a session go once its save is answered.                    *)
Leave(s) ==
  /\ CanSend /\ s \in wsd.sessions /\ wsd.saves = 0
  /\ Counts("events", MaxEvents)
  /\ wsd' = [wsd EXCEPT !.sessions = @ \ {s}]
  /\ toKit' = Append(toKit, [type |-> "disconnect", session |-> s])
  /\ UNCHANGED <<kit, core, procs, disk, raced>>

Input(s, type) ==
  /\ CanSend /\ s \in wsd.sessions /\ kit.sessions[s] = "loaded"
  /\ Counts("requests", MaxRequests)
  /\ toKit' = Append(toKit, [type |-> type, session |-> s, ids |-> <<<<s, count.requests + 1>>>>])
  /\ UNCHANGED <<kit, core, procs, disk, wsd, raced>>

Save(s) ==
  /\ CanSend /\ s \in wsd.sessions /\ kit.sessions[s] = "loaded"
  /\ Overlap \/ wsd.saves = 0
  /\ Counts("requests", MaxRequests)
  /\ wsd' = [wsd EXCEPT !.saves = @ + 1]
  /\ toKit' = Append(toKit, [type |-> "save", session |-> s])
  /\ UNCHANGED <<kit, core, procs, disk, raced>>
-----------------------------------------------------------------------------
Kit ==
  \/ DrainCallbacks \/ ReceiveMessage \/ StartLoad \/ FinishLoad \/ ApplyInput
  \/ DisconnectSession \/ PurgeSessions \/ ForkToSave \/ StartSave
  \/ FinishSave(TRUE)
  \/ \E p \in procs : ChildSaves(p, TRUE) \/ ChildExits(p) \/ BgSaveMessage(p) \/ BgSaveDisconnect(p)

Failure ==
  \/ FailLoad \/ FinishSave(FALSE)
  \/ \E p \in procs : ChildSaves(p, FALSE) \/ ChildCrashes(p) \/ ChildAsks(p)

Wsd == \E s \in Session : JoinDocument(s) \/ Leave(s) \/ Save(s) \/ \E type \in InputTypes : Input(s, type)

Next == Kit \/ Failure \/ Wsd

Spec == Init /\ [][Next]_vars

(* The Kit's poll and its children make progress.                             *)
FairSpec == Spec /\ WF_vars(Kit)
-----------------------------------------------------------------------------
TypeOK ==
  /\ kit.modified \in DocumentState /\ core.modified \in BOOLEAN /\ kit.alive \in BOOLEAN
  /\ kit.alive => kit.bgSavesOngoing = Cardinality(procs)
  /\ \A p \in procs : p.phase \in {"saving", "asking", "stored", "dismissed", "exited", "crashed"}
  /\ HaveLoadedSessions(kit) => core.loaded

(* When the Kit is at rest, a document that wsd takes for unmodified is the   *)
(* one in the file: clearing the modified state before a background save is   *)
(* known to have succeeded loses no edit ("this can transition back to        *)
(* modified if save fails", kit/Kit.hpp).                                     *)
AtRest ==
  /\ kit.alive /\ HaveLoadedSessions(kit)
  /\ kit.callbacks = <<>> /\ procs = {} /\ kit.running = NoOp

UnmodifiedIsSaved == AtRest /\ ~wsd.modified => Applied = disk

(* The same, unless a view's 'modified' was still queued when a fork cleared  *)
(* the state: the stale callback and the 'false' behind it undo the memory    *)
(* of the save that runs.                                                     *)
UnmodifiedIsSavedOrRaced == raced \/ UnmodifiedIsSaved

(* The input of a session is applied in the order in which it was sent, even  *)
(* when texts are merged in the queue.                                        *)
InputInOrder ==
  \A i, j \in DOMAIN core.applied :
    i < j /\ core.applied[i][1] = core.applied[j][1] => core.applied[i][2] < core.applied[j][2]

(* An older save never overwrites the file of a newer one.                    *)
FileNeverGoesBack == [][disk \subseteq disk']_vars

(* Every save that wsd asks for is answered exactly once, unless the process  *)
(* ends: by LibreOffice, by the child, or on its behalf when it dies.         *)
NoStrayAnswer == wsd.unasked = 0

SaveIsAnswered == (wsd.saves > 0) ~> (wsd.saves = 0 \/ ~kit.alive)
=============================================================================
