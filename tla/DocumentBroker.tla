---------------------------- MODULE DocumentBroker ----------------------------
(***************************************************************************)
(* One document: its broker, the Kit process that edits and saves it, the  *)
(* WOPI storage it is uploaded to, and its clients.                        *)
(*                                                                         *)
(* All broker code runs on the broker's poll thread, so each callback is   *)
(* one atomic action.  SocketPoll::poll() runs any number of callbacks     *)
(* before pollThread() gets to run the body of its loop: the two kinds of  *)
(* action interleave freely, except that the body runs at least once while *)
(* an upload is on its way.  The messages between broker and Kit travel in *)
(* order, one queue each way, with any delay.  An upload is handled by the *)
(* storage at some time and answered at a later one.                       *)
(***************************************************************************)
EXTENDS BrokerCore

CONSTANTS
    Faults,       \* what may go wrong, a subset of FaultKind
    MaxEdits,     \* bound: edits typed by the clients
    MaxCommands,  \* bound: "save" and "removesession" of clients, saves by the admin
    MaxForces,    \* bound: "savetostorage force=1" of the clients
    MaxRenames,   \* bound: "renamefile" of the clients
    MaxTimeouts,  \* bound: saves that the broker stops waiting for
    MaxFailed,    \* bound: uploads whose answer is lost (FAILED)
    MaxChanges    \* bound: changes of the document in storage by others

FaultKind ==
    {"saveFails", "saveTimesOut", "kitCrashes", "staleDisconnect", "idle",
     "tokenExpires", "downloadFails", "noConnection", "uploadFails",
     "uploadUnauthorized", "uploadTooLarge", "cfiFails", "slowUpload"}

ASSUME BoundAssumption ==
    /\ Faults \subseteq FaultKind
    /\ {MaxEdits, MaxCommands, MaxForces, MaxRenames, MaxTimeouts,
        MaxFailed, MaxChanges} \subseteq Nat

VARIABLES
    b,      \* the broker
    kit,    \* the Kit process
    srv,    \* the document in storage
    left    \* how often each bounded event may still happen

vars == <<b, kit, srv, left>>

KitMessage == [k : {"status", "modified", "saved", "disconnected"},
               s : Session \cup {Null},
               v : {"true", "false", "unmodified"}]
KitSave == [s : Session, c : Int, modified : BOOLEAN]
ASSUME NoSaveAssumption == Null \notin KitSave      \* a null pointer is no save
Kit == [alive : BOOLEAN,
        views : SUBSET Session,
        edits : Nat,                              \* edits in the document
        modified : BOOLEAN,                       \* Core's modified state
        save : KitSave \cup {Null},               \* the save that runs
        doc : File,                               \* the document on disk
        toBroker : Seq(KitMessage)]
Theirs == -1                     \* the content of an edit outside this broker
Storage == [t : Int, c : Int, ours : Int]         \* ours: our last upload
Budget == [edits : Nat, commands : Nat, forces : Nat, renames : Nat,
           timeouts : Nat, failed : Nat, changes : Nat]

TypeOK ==
    /\ b \in Broker
    /\ kit \in Kit
    /\ srv \in Storage
    /\ left \in Budget

Init ==
    /\ b = NewBroker
    /\ kit = [alive |-> TRUE, views |-> {}, edits |-> 0, modified |-> FALSE,
              save |-> Null, doc |-> [t |-> 0, c |-> 0],
              toBroker |-> <<>>]
    /\ srv = [t |-> 0, c |-> 0, ours |-> 0]
    /\ left = [edits |-> MaxEdits, commands |-> MaxCommands, forces |-> MaxForces,
               renames |-> MaxRenames, timeouts |-> MaxTimeouts,
               failed |-> MaxFailed, changes |-> MaxChanges]

-----------------------------------------------------------------------------
(* Clients. *)

Serving == ~b.finished

(* A client's messages are dropped once the broker is to be destroyed. *)
CanSend(s) ==
    /\ Serving
    /\ s \in b.connected \cap b.sessions
    /\ b.state[s] = "LIVE"
    /\ ~IsMarkedToDestroy(b)

(* createNewClientSession() and addSession(), which the same callback calls *)
(* one after the other.                                                     *)
Admitted(s) ==
    /\ Serving
    /\ b.state[s] = "DETACHED"
    /\ ~IsMarkedToDestroy(b)
    /\ ~b.closeRequested

AddSession(s) ==
    /\ Admitted(s)
    /\ LET first == b.status = "None"
           b1 == [b EXCEPT !.unloadRequested = FALSE]
           b2 == IF first
                 THEN [b1 EXCEPT !.status = "Loading", !.serverTime = srv.t,
                                 !.storageTime = srv.t]
                 ELSE IF srv.t # b.serverTime /\ b.uploadRequest = Null
                 THEN HandleDocumentConflict(b1) ELSE b1
           b3 == [b2 EXCEPT !.sessions = @ \cup {s},
                            !.state[s] = "LOADING",
                            !.connected = @ \cup {s},
                            !.authorized = @ \cup {s},
                            !.editable = @ \cup ({s} \ ReadOnly)]
       IN  b' = ForwardToChild(b3, Command("load", s, FALSE))
    /\ UNCHANGED <<kit, srv, left>>

AddSessionFails(s) ==
    /\ "downloadFails" \in Faults
    /\ Admitted(s)
    /\ LET b1 == [b EXCEPT !.unloadRequested = FALSE]
       IN  b' = IF b.sessions = {} THEN MarkToDestroy(b1) ELSE b1
    /\ UNCHANGED <<kit, srv, left>>

(* ClientSession::onDisconnect(). *)
ClientDisconnects(s) ==
    /\ Serving
    /\ s \in b.connected
    /\ \E w \in WriteableSession(b) :
          b' = [RemoveSession(b, s, w) EXCEPT !.connected = @ \ {s},
                                              !.closeFrame = @ \cup {s}]
    /\ UNCHANGED <<kit, srv, left>>

(* The "removesession" command. *)
ClientRemovesSession(s) ==
    /\ CanSend(s)
    /\ s \in b.editable
    /\ left.commands > 0
    /\ left' = [left EXCEPT !.commands = @ - 1]
    /\ \E w \in WriteableSession(b) : b' = RemoveSession(b, s, w)
    /\ UNCHANGED <<kit, srv>>

(* A message that may modify the document.  Key and mouse input is ignored  *)
(* while unloading, but still counts as activity.                           *)
Edit(s, isKey) ==
    /\ CanSend(s)
    /\ s \in b.editable
    /\ left.edits > 0
    /\ left' = [left EXCEPT !.edits = @ - 1]
    /\ LET b1 == [b EXCEPT !.modifiedAfterSave = TRUE, !.lastEditing = s]
       IN  b' = IF isKey /\ IsUnloading(b) THEN b1
                ELSE ForwardToChild(b1, Command("edit", s, FALSE))
    /\ UNCHANGED <<kit, srv>>

ManualSave(s, dsiu) ==
    /\ CanSend(s)
    /\ s \in b.editable
    /\ left.commands > 0
    /\ left' = [left EXCEPT !.commands = @ - 1]
    /\ b' = IF b.activity = "Save" THEN b ELSE SendUnoSave(b, s, dsiu)
    /\ UNCHANGED <<kit, srv>>

(* COOLWSD::autoSave() on behalf of the admin. *)
AdminSave ==
    /\ Serving
    /\ left.commands > 0
    /\ left' = [left EXCEPT !.commands = @ - 1]
    /\ \E w \in WriteableSession(b) : b' = AutoSave(b, w, TRUE, FALSE)
    /\ UNCHANGED <<kit, srv>>

(* The "savetostorage" command, which resolves a conflict. *)
SaveToStorage(s) ==
    /\ CanSend(s)
    /\ left.forces > 0
    /\ left' = [left EXCEPT !.forces = @ - 1]
    /\ b' = UploadToStorage(b, s, TRUE, TRUE)
    /\ UNCHANGED <<kit, srv>>

StartRename(bb) ==
    IF bb.renameSession \in bb.sessions
    THEN SendUnoSave([bb EXCEPT !.activity = "Rename"], bb.renameSession, TRUE)
    ELSE EndRename(bb)

RenameFile(s) ==
    /\ CanSend(s)
    /\ left.renames > 0
    /\ left' = [left EXCEPT !.renames = @ - 1]
    /\ LET b1 == [b EXCEPT !.renameSession = s]
       IN  b' = IF b.activity = "None" THEN StartRename(b1) ELSE b1
    /\ UNCHANGED <<kit, srv>>

(* closeDocument() by the owner, a version restore or the admin. *)
RequestClose ==
    /\ Serving
    /\ b.loaded
    /\ ~b.closeRequested
    /\ b' = CloseDocument(b)
    /\ UNCHANGED <<kit, srv, left>>

(* "closedocument" of a user who gives up the changes after a conflict. *)
DiscardChanges(s) ==
    /\ CanSend(s)
    /\ b.changedInStorage
    /\ b' = Stop(b)
    /\ UNCHANGED <<kit, srv, left>>

TokenExpires(s) ==
    /\ "tokenExpires" \in Faults
    /\ Serving
    /\ s \in b.authorized
    /\ b' = [b EXCEPT !.authorized = @ \ {s}]
    /\ UNCHANGED <<kit, srv, left>>

-----------------------------------------------------------------------------
(* The Kit.  It handles the commands of the broker in order, but a save     *)
(* runs in a forked process of its own: Core counts as unmodified from the  *)
(* fork on, and the "modified" state that the clients see is cleared when   *)
(* the save is done, unless there were edits in between.                    *)

Heard(k) == kit.alive /\ b.toKit # <<>> /\ Head(b.toKit).k = k
Cmd == Head(b.toKit)
Rest == [b EXCEPT !.toKit = Tail(@)]
Tell(k, s, v) == [k |-> k, s |-> s, v |-> v]

KitLoad ==
    /\ Heard("load")
    /\ b' = Rest
    /\ LET isFirst == IF kit.views = {} THEN "true" ELSE "false"
       IN  kit' = [kit EXCEPT !.views = @ \cup {Cmd.s},
                              !.toBroker = Append(@, Tell("status", Cmd.s, isFirst))]
    /\ UNCHANGED <<srv, left>>

KitEdit ==
    /\ Heard("edit")
    /\ b' = Rest
    /\ kit' = [kit EXCEPT !.edits = @ + 1,
                          !.modified = TRUE,
                          !.toBroker = IF kit.modified THEN @
                                       ELSE Append(@, Tell("modified", Null, "true"))]
    /\ UNCHANGED <<srv, left>>

(* A save that Core skips still copies the document for the upload. *)
KitSaveUnmodified ==
    /\ Heard("save")
    /\ Cmd.dontSaveIfUnmodified /\ ~kit.modified
    /\ b' = [Rest EXCEPT !.upload = kit.doc]
    /\ kit' = [kit EXCEPT !.toBroker = Append(@, Tell("saved", Cmd.s, "unmodified"))]
    /\ UNCHANGED <<srv, left>>

KitSaveStarts ==
    /\ Heard("save")
    /\ ~(Cmd.dontSaveIfUnmodified /\ ~kit.modified)
    /\ kit.save = Null
    /\ b' = Rest
    /\ kit' = [kit EXCEPT !.save = [s |-> Cmd.s, c |-> kit.edits,
                                    modified |-> kit.modified],
                          !.modified = FALSE]
    /\ UNCHANGED <<srv, left>>

(* The document is copied for the upload and the result is sent; the        *)
(* "modified=false" that clears a set flag may be ahead of it or behind it. *)
KitSaved ==
    /\ kit.alive /\ kit.save # Null
    /\ LET file == [t |-> kit.doc.t + 1, c |-> kit.save.c]
           saved == <<Tell("saved", kit.save.s, "true")>>
           clear == <<Tell("modified", Null, "false")>>
       IN  /\ b' = [b EXCEPT !.upload = file]
           /\ \E m \in IF kit.save.modified /\ ~kit.modified
                     THEN {saved \o clear, clear \o saved} ELSE {saved} :
                 kit' = [kit EXCEPT !.doc = file, !.save = Null, !.toBroker = @ \o m]
    /\ UNCHANGED <<srv, left>>

(* copied: the save got as far as copying the last good document. *)
KitSaveFails(copied) ==
    /\ "saveFails" \in Faults
    /\ kit.alive /\ kit.save # Null
    /\ b' = IF copied THEN [b EXCEPT !.upload = kit.doc] ELSE b
    /\ kit' = [kit EXCEPT !.save = Null, !.modified = @ \/ kit.save.modified,
                          !.toBroker = Append(@, Tell("saved", kit.save.s, "false"))]
    /\ UNCHANGED <<srv, left>>

(* Document::purgeSessions(): without views the Kit exits. *)
KitDisconnect ==
    /\ Heard("disconnect")
    /\ b' = Rest
    /\ LET views == kit.views \ {Cmd.s}
       IN  kit' = [kit EXCEPT !.views = views,
                              !.alive = views # {},
                              !.save = IF views = {} THEN Null ELSE @,
                              !.toBroker = Append(@, Tell("disconnected", Cmd.s, "true"))]
    /\ UNCHANGED <<srv, left>>

KitCrash ==
    /\ "kitCrashes" \in Faults
    /\ kit.alive
    /\ kit' = [kit EXCEPT !.alive = FALSE, !.save = Null]
    /\ UNCHANGED <<b, srv, left>>

-----------------------------------------------------------------------------
(* The broker's callbacks for the messages of the Kit. *)

Delivers(k) ==
    /\ Serving
    /\ kit.toBroker # <<>>
    /\ Head(kit.toBroker).k = k
    /\ kit' = [kit EXCEPT !.toBroker = Tail(@)]
    /\ UNCHANGED <<srv, left>>
Msg == Head(kit.toBroker)

(* "loaded:" *)
ViewLoaded ==
    /\ Delivers("status")
    /\ b' = IF Msg.s \in b.sessions /\ b.state[Msg.s] = "LOADING"
            THEN LET b1 == [b EXCEPT !.state[Msg.s] = "LIVE"]
                 IN  IF Msg.v = "true" THEN SetLoaded(b1) ELSE b1
            ELSE b

(* "statechanged: .uno:ModifiedStatus", to every session. *)
SetModified ==
    /\ Delivers("modified")
    /\ b' = IF b.sessions = {} THEN b ELSE [b EXCEPT !.modified = (Msg.v = "true")]

SaveResponse(elapsed) ==
    /\ b.http = Null \/ "slowUpload" \in Faults
    /\ Delivers("saved")
    /\ b' = IF Msg.s \in b.sessions THEN HandleSaveResponse(b, Msg.s, Msg.v, elapsed)
            ELSE b

(* "disconnected:", the end of the hand-shake. *)
SessionDisconnected ==
    /\ Delivers("disconnected")
    /\ b' = FinalRemoveSession(b, Msg.s)

(* PrisonerRequestDispatcher::onDisconnect(), disconnectedFromKit(). *)
DisconnectedFromKit ==
    /\ Serving
    /\ ~kit.alive
    /\ kit.toBroker = <<>>
    /\ b.kitDisconnected = "No"
    /\ LET b1 == [b EXCEPT !.kitDisconnected =
                              IF IsUnloading(b) THEN "Normal" ELSE "Unexpected"]
       IN  b' = IF b.closeRequested \/ b.stop THEN b1 ELSE CloseDocument(b1)
    /\ UNCHANGED <<kit, srv, left>>

-----------------------------------------------------------------------------
(* The storage: a WOPI host that refuses an upload whose timestamp is not   *)
(* that of the document it holds, unless the request carries none.          *)

Answer(res, t) == [b EXCEPT !.http.res = res, !.http.t = t]
Pending == b.http # Null /\ b.http.res = "pending"
Refused == b.http.ts # UnSafe /\ b.http.ts # srv.t
Stored == [t |-> srv.t + 1, c |-> b.http.file.c, ours |-> b.http.file.c]

ServerStores ==
    /\ Pending
    /\ b.http.s \in b.authorized
    /\ ~b.http.rename /\ ~Refused
    /\ srv' = Stored
    /\ b' = Answer("OK", srv.t + 1)
    /\ UNCHANGED <<kit, left>>

(* A rename moves the document: the answer has no timestamp. *)
ServerRenames ==
    /\ Pending
    /\ b.http.s \in b.authorized
    /\ b.http.rename
    /\ b' = Answer("OK", NoTime)
    /\ UNCHANGED <<kit, srv, left>>

ServerRefuses ==
    /\ Pending
    /\ b.http.s \in b.authorized
    /\ ~b.http.rename /\ Refused
    /\ b' = Answer("CONFLICT", NoTime)
    /\ UNCHANGED <<kit, srv, left>>

ServerRejects(res) ==
    /\ Pending
    /\ \/ res = "UNAUTHORIZED" /\ (\/ "uploadUnauthorized" \in Faults
                                   \/ b.http.s \notin b.authorized)
       \/ res = "TOO_LARGE" /\ "uploadTooLarge" \in Faults
       \/ res = "Error" /\ "noConnection" \in Faults
    /\ b' = Answer(res, NoTime)
    /\ UNCHANGED <<kit, srv, left>>

(* No answer: the document may have been stored or not. *)
ServerFails(stored) ==
    /\ "uploadFails" \in Faults
    /\ left.failed > 0
    /\ left' = [left EXCEPT !.failed = @ - 1]
    /\ Pending
    /\ stored => b.http.s \in b.authorized /\ ~b.http.rename /\ ~Refused
    /\ srv' = IF stored THEN Stored ELSE srv
    /\ b' = Answer("FAILED", NoTime)
    /\ UNCHANGED kit

(* Somebody else changes the document in storage. *)
ExternalChange ==
    /\ Serving
    /\ b.status # "None"
    /\ left.changes > 0
    /\ left' = [left EXCEPT !.changes = @ - 1]
    /\ srv' = [srv EXCEPT !.t = @ + 1, !.c = Theirs]
    /\ UNCHANGED <<b, kit>>

(* The callbacks of the broker's requests. *)
UploadDone ==
    /\ Serving
    /\ b.http # Null
    /\ b.http.res \notin {"queued", "pending"}
    /\ b' = UploadFinished(b)
    /\ UNCHANGED <<kit, srv, left>>

CheckFileInfoDone(answer) ==
    /\ Serving
    /\ b.checkFileInfo # Null
    /\ ~b.checkFileInfo.done
    /\ \/ answer = "Pass" /\ b.checkFileInfo.s \in b.authorized
       \/ answer = "Unauthorized" /\ b.checkFileInfo.s \notin b.authorized
       \/ answer = "Fail" /\ "cfiFails" \in Faults
    /\ b' = CheckFileInfoFinished(b, answer, srv.t, srv.c)
    /\ UNCHANGED <<kit, srv, left>>

-----------------------------------------------------------------------------
(* The body of the poll loop: one action for each branch that it can take,  *)
(* under the conditions that lead there.                                    *)

Polling == ~b.stop /\ ~b.finished
PollsIdle == Polling /\ b.activity = "None"

(* An HTTP request takes several rounds of poll() to be sent and answered,  *)
(* so the body runs at least once between its start and its end.            *)
Sent ==
    IF b.http # Null /\ b.http.res = "queued"
    THEN [b EXCEPT !.http.res = "pending"] ELSE b

(* "We are done. Safe to reset." *)
SettledTooEarly == [Sent EXCEPT !.checkFileInfo = Null, !.uploadRequest = Null]
Settled ==
    [Sent EXCEPT !.checkFileInfo = Null,
                 !.uploadRequest = IF @ # Null /\ b.uploadRequest.complete THEN Null ELSE @]
Queued == b.renameSession # Null
Dead == b.sessions = {} /\ (b.loaded \/ b.status = "Destroying")
Unloads == b.unloadRequested \/ b.closeRequested

(* The loop ends as soon as its condition sees _stop, and the data-loss     *)
(* check comes next.                                                        *)
LeaveLoop(bb) ==
    IF bb.stop THEN [bb EXCEPT !.finished = TRUE, !.dataLoss = DetectDataLoss(bb)]
    ELSE bb

PollRename ==
    /\ PollsIdle /\ Queued
    /\ b' = StartRename(Settled)
    /\ UNCHANGED <<kit, srv, left>>

PollIdle(saveNow, waited, elapsed) ==
    /\ "idle" \in Faults
    /\ PollsIdle /\ ~Queued
    /\ b.loaded
    /\ \E w \in WriteableSession(b) :
          b' = LeaveLoop(AutoSaveAndStop(Settled, w, saveNow, waited, elapsed))
    /\ UNCHANGED <<kit, srv, left>>

PollDead(saveNow, waited, elapsed) ==
    /\ PollsIdle /\ ~Queued
    /\ Dead
    /\ LET b1 == IF b.loaded THEN Settled ELSE Stop(Settled)
       IN  b' = LeaveLoop(AutoSaveAndStop(b1, Null, saveNow, waited, elapsed))
    /\ UNCHANGED <<kit, srv, left>>

PollUnload(saveNow, waited, elapsed) ==
    /\ PollsIdle /\ ~Queued
    /\ ~Dead /\ Unloads
    /\ \E w \in WriteableSession(b) :
          b' = LeaveLoop(IF StoreFailuresExceeded(b) THEN Stop(Settled)
                         ELSE AutoSaveAndStop(Settled, w, saveNow, waited, elapsed))
    /\ UNCHANGED <<kit, srv, left>>

(* timed: it is time for an idle-save or an auto-save. *)
PollAutoSave(timed) ==
    /\ PollsIdle /\ ~Queued
    /\ ~Dead /\ ~Unloads
    /\ \E w \in WriteableSession(b) : b' = AutoSave(Settled, w, FALSE, timed)
    /\ UNCHANGED <<kit, srv, left>>

(* Between two checks for an auto-save, retry the upload that failed. *)
PollRetryUpload(elapsed) ==
    /\ PollsIdle /\ ~Queued
    /\ ~Dead /\ ~Unloads
    /\ ~IsAsyncUploading(b)
    /\ b.uploadFailures > 0
    /\ NeedToUploadToStorage(b)
    /\ \E w \in WriteableSession(b) \cap b.authorized :
          b' = CheckAndUploadToStorage(Settled, w, FALSE, elapsed)
    /\ UNCHANGED <<kit, srv, left>>

(* A save that will not be answered: the Kit is gone. *)
PollSaveLost ==
    /\ Polling /\ b.activity = "Save"
    /\ b.kitDisconnected # "No"
    /\ b' = EndActivity(SetLastSaveResult(Sent, FALSE, FALSE))
    /\ UNCHANGED <<kit, srv, left>>

(* The save commands, the saves that run and the answers on their way. *)
SavesInFlight ==
    Cardinality({i \in DOMAIN b.toKit : b.toKit[i].k = "save"})
    + (IF kit.save = Null THEN 0 ELSE 1)
    + Cardinality({i \in DOMAIN kit.toBroker : kit.toBroker[i].k = "saved"})

(* hasSavingTimedOut().  The time-out is for a save whose answer is lost,   *)
(* but it may also catch one that is merely slow.                           *)
PollSaveTimesOut(slow) ==
    /\ Polling /\ b.activity = "Save"
    /\ b.kitDisconnected = "No"
    /\ b.saving
    /\ slow = (SavesInFlight > 0)
    /\ slow => "saveTimesOut" \in Faults /\ left.timeouts > 0
    /\ left' = [left EXCEPT !.timeouts = IF slow THEN @ - 1 ELSE @]
    /\ b' = EndActivity(SetLastSaveResult(Sent, FALSE, FALSE))
    /\ UNCHANGED <<kit, srv>>

(* After an upload that may or may not have been stored, ask the storage,   *)
(* unless it has been asked.                                                *)
PollSync ==
    /\ Polling /\ b.activity = "SyncFileTimestamp"
    /\ LET b1 == Check(Sent, ~IsAsyncUploading(b), "NoUploadInSync")
           can == b.sessions \cap b.authorized
       IN  \/ b.checkFileInfo # Null /\ b' = b1
           \/ /\ b.checkFileInfo = Null /\ can = {}
              /\ b' = EndActivity([b1 EXCEPT !.storageTime = UnSafe])
           \/ /\ b.checkFileInfo = Null
              /\ \E s \in can : b' = [b1 EXCEPT !.checkFileInfo = [s |-> s, done |-> FALSE]]
    /\ UNCHANGED <<kit, srv, left>>

(* Nothing to do until the save or the rename is done. *)
PollWaits ==
    /\ Polling
    /\ b.activity = "Rename" \/ (b.activity = "Save" /\ b.kitDisconnected = "No")
    /\ b' = Sent
    /\ UNCHANGED <<kit, srv, left>>

(* A session whose hand-shake with the Kit takes too long. *)
PollStaleDisconnect(s) ==
    /\ Polling
    /\ "staleDisconnect" \in Faults \/ (~kit.alive /\ kit.toBroker = <<>>)
    /\ s \in b.sessions
    /\ InWaitDisconnected(b, s)
    /\ b' = FinalRemoveSession(Sent, s)
    /\ UNCHANGED <<kit, srv, left>>

(* A callback has set _stop; others may run before poll() returns. *)
PollStopped ==
    /\ b.stop
    /\ ~b.finished
    /\ b' = LeaveLoop(b)
    /\ UNCHANGED <<kit, srv, left>>

-----------------------------------------------------------------------------
ClientStep ==
    \/ \E s \in Session :
          \/ AddSession(s) \/ AddSessionFails(s)
          \/ ClientDisconnects(s) \/ ClientRemovesSession(s)
          \/ \E flag \in BOOLEAN : Edit(s, flag) \/ ManualSave(s, flag)
          \/ SaveToStorage(s) \/ RenameFile(s) \/ DiscardChanges(s)
          \/ TokenExpires(s)
    \/ AdminSave
    \/ RequestClose

KitStep ==
    \/ KitLoad \/ KitEdit \/ KitSaveUnmodified \/ KitSaveStarts \/ KitSaved
    \/ \E copied \in BOOLEAN : KitSaveFails(copied)
    \/ KitDisconnect \/ KitCrash

ServerStep ==
    \/ ServerStores \/ ServerRenames \/ ServerRefuses
    \/ \E res \in HttpResult : ServerRejects(res)
    \/ \E stored \in BOOLEAN : ServerFails(stored)
    \/ ExternalChange

Callback ==
    \/ ViewLoaded \/ SetModified \/ SessionDisconnected \/ DisconnectedFromKit
    \/ \E elapsed \in BOOLEAN : SaveResponse(elapsed)
    \/ UploadDone
    \/ \E answer \in {"Pass", "Unauthorized", "Fail"} : CheckFileInfoDone(answer)

Poll ==
    \/ PollRename
    \/ \E saveNow, waited, elapsed \in BOOLEAN :
          \/ PollIdle(saveNow, waited, elapsed)
          \/ PollDead(saveNow, waited, elapsed)
          \/ PollUnload(saveNow, waited, elapsed)
    \/ \E flag \in BOOLEAN : PollAutoSave(flag) \/ PollRetryUpload(flag)
    \/ PollSaveLost \/ PollSync \/ PollWaits
    \/ \E slow \in BOOLEAN : PollSaveTimesOut(slow)
    \/ \E s \in Session : PollStaleDisconnect(s)
    \/ PollStopped

Next == ClientStep \/ KitStep \/ ServerStep \/ Callback \/ Poll

Spec == Init /\ [][Next]_vars

(* The poll thread runs as long as the broker does, timers expire, the Kit  *)
(* handles what it is sent while it lives, and the storage answers.         *)
Fairness ==
    /\ WF_vars(PollRename)
    /\ WF_vars(PollDead(TRUE, TRUE, TRUE))
    /\ WF_vars(PollUnload(TRUE, TRUE, TRUE))
    /\ WF_vars(PollRetryUpload(TRUE))
    /\ WF_vars(PollSaveLost \/ PollSaveTimesOut(FALSE))
    /\ WF_vars(PollSync) /\ WF_vars(PollWaits)
    /\ WF_vars(PollAutoSave(FALSE))
    /\ \A s \in Session : WF_vars(PollStaleDisconnect(s))
    /\ WF_vars(PollStopped)
    /\ WF_vars(KitLoad \/ KitEdit \/ KitSaveUnmodified \/ KitSaveStarts \/ KitDisconnect)
    /\ WF_vars(KitSaved)
    /\ WF_vars(ViewLoaded \/ SetModified \/ SessionDisconnected \/ SaveResponse(TRUE))
    /\ WF_vars(DisconnectedFromKit)
    /\ WF_vars(ServerStores \/ ServerRenames \/ ServerRefuses \/ ServerRejects("UNAUTHORIZED"))
    /\ WF_vars(UploadDone)
    /\ WF_vars(\E answer \in {"Pass", "Unauthorized", "Fail"} : CheckFileInfoDone(answer))

FairSpec == Spec /\ Fairness

-----------------------------------------------------------------------------
(* Saving. *)

(* The broker waits for a save (activity Save, in which the poll loop does  *)
(* nothing but wait) only while a request to save is active.                *)
SaveActivityHasSave == b.activity = "Save" => b.saving

(* A save that is requested, that runs or whose answer is on its way is one *)
(* that the broker waits for, and there is never a second one: autoSave()   *)
(* and manualSave() refuse to save while the broker is saving.              *)
OneSaveInFlight ==
    kit.alive => SavesInFlight <= IF b.saving THEN 1 ELSE 0

(* "Doc cannot be saved on save response": when a save has been answered    *)
(* while unloading and needs to be repeated, it can be.                     *)
CanSaveAgain == "CanSaveAgain" \notin b.failedAsserts

-----------------------------------------------------------------------------
(* Data loss. *)

(* The edits that have been sent to the Kit, and a user's decision to give  *)
(* them up because the document in storage has changed.                     *)
Forwarded ==
    kit.edits + Cardinality({i \in DOMAIN b.toKit : b.toKit[i].k = "edit"})
DiscardedConflict == b.closeRequested /\ b.changedInStorage

(* When the broker ends without flagging data-loss, every edit that it sent *)
(* to the Kit is in storage, or the users have given the changes up.        *)
LossIsDetected ==
    b.finished /\ ~b.dataLoss /\ ~DiscardedConflict => srv.ours = Forwarded

(* The same as long as the broker does not stop in the middle of a save.    *)
NoSilentLoss ==
    b.finished /\ ~b.dataLoss /\ ~DiscardedConflict /\ ~b.saving => srv.ours = Forwarded

-----------------------------------------------------------------------------
(* The storage. *)

(* isStorageOutdated() can be trusted: if it says that the storage has the  *)
(* file that was saved last, the storage has been given that file or one    *)
(* with more edits.                                                         *)
StorageTruth ==
    b.uploading # NoFile /\ ~IsStorageOutdated(b) => srv.ours >= b.uploading.c

(* An upload on its way is the one that the broker keeps a request for:     *)
(* what its answer will be taken to say about which file is stored is right.*)
UploadIsTracked ==
    b.http # Null =>
        /\ b.uploadRequest # Null
        /\ ~b.uploadRequest.complete
        /\ b.uploadRequest.t = b.http.file.t

(* "Unexpected async-upload in progress": the broker does not ask for the   *)
(* timestamp of the document while it is uploading one.                     *)
NoUploadInSync == "NoUploadInSync" \notin b.failedAsserts

(* The continuation of checkFileInfo() finds the broker in the activity     *)
(* SyncFileTimestamp, which it asserts.                                     *)
CfiInSync == "CfiInSync" \notin b.failedAsserts

(* The users are told that the document was changed in storage only if      *)
(* somebody else did change it, or if the answer to an upload was lost: the *)
(* broker's own uploads and renames are not mistaken for such a change.     *)
ConflictIsReal ==
    b.changedInStorage => left.changes < MaxChanges \/ left.failed < MaxFailed

(* A user's decision to overwrite the document in storage is still part of  *)
(* the next upload after one that failed.                                   *)
RetryKeepsAttributes ==
    [][b.http = Null /\ b'.http # Null /\ (b.forced \/ b.lastForced)
       => b'.http.ts = UnSafe]_b

-----------------------------------------------------------------------------
(* The end. *)

(* "Disconnecting session of ... with multiple active sessions": an unload  *)
(* that has been requested is not carried out under another live session.   *)
UnloadNotShared == "UnloadNotShared" \notin b.failedAsserts

(* A document that is to be closed, or a broker that is to stop, gets to    *)
(* the end of pollThread(), whatever is in flight.                          *)
EndIsReached == (b.closeRequested \/ b.stop) ~> b.finished

(* The session of a client that has disconnected is removed: the wait for a *)
(* save, for an upload or for the Kit's goodbye does not last for ever.     *)
SessionsLeave ==
    \A s \in Session : (s \in b.closeFrame) ~> (s \notin b.sessions \/ b.finished)

-----------------------------------------------------------------------------
(* The broker, the Kit and the storage together implement SharedDocument.   *)

(* The broker forgets the storage's timestamp (UnSafe) only as the answer   *)
(* of a rename, or of its question after an unanswered upload, comes in; an *)
(* upload that was started without it stays without it.                     *)
Forced == b.forced \/ b.lastForced
Unknown ==
    \/ b.storageTime = UnSafe
    \/ b.http # Null /\ b.http.ts = UnSafe /\ ~Forced
Asking ==
    \/ b.activity = "SyncFileTimestamp"
    \/ b.http # Null /\ b.http.rename
Known == IF Unknown THEN "no" ELSE IF Asking THEN "asking" ELSE "yes"

Promise == INSTANCE SharedDocument WITH
    typed <- Forwarded,
    saved <- kit.doc.c,
    ours <- srv.ours,
    held <- srv.c,
    known <- Known,
    forced <- Forced

(* Every behaviour of the broker, its Kit and its storage is one that the   *)
(* users were promised: whatever fails on its way from the Kit to the       *)
(* storage, no older file replaces a newer one, and nobody else's document  *)
(* is overwritten unasked while the stored version is known.                *)
Promised == Promise!Spec
=============================================================================
