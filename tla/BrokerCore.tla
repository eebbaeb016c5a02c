------------------------------ MODULE BrokerCore ------------------------------
(***************************************************************************)
(* The state of one wsd/DocumentBroker and the member functions its        *)
(* callbacks and its poll loop are built from.  Every member function is   *)
(* an operator from a broker state (a record of the set Broker) to the     *)
(* broker state it leaves, so that one action of module DocumentBroker is  *)
(* one whole callback, with every call it makes.                           *)
(*                                                                         *)
(* Clock readings are abstracted to what the code compares: a save is in   *)
(* flight or not (RequestManager::isActive), there was modifying activity  *)
(* since the last save request or not, and a throttle or a time-out has    *)
(* elapsed or not (an argument, chosen by the action).  A file is its      *)
(* modification time t and its content c, the number of edits it holds.    *)
(*                                                                         *)
(* A definition that is used nowhere (StoreFailuresUnlimited, EndSaveNever *)
(* and so on, each right before the one it resembles) is what that one     *)
(* might look like with a plausible mistake in it.  They show that the     *)
(* properties tell the mistake from the code.                              *)
(***************************************************************************)
EXTENDS Integers, Sequences, FiniteSets

CONSTANTS
    Session,           \* ids of client sessions
    ReadOnly,          \* the sessions that are not editable
    Null,              \* a null pointer, an empty session id
    AlwaysSaveOnExit,  \* per_document.always_save_on_exit
    LimStoreFailures   \* per_document.limit_store_failures, 0 for no limit

ASSUME SessionAssumption ==
    /\ IsFiniteSet(Session)
    /\ ReadOnly \subseteq Session
    /\ Null \notin Session

ASSUME ConfigAssumption ==
    /\ AlwaysSaveOnExit \in BOOLEAN
    /\ LimStoreFailures \in Nat

-----------------------------------------------------------------------------
(* Types. *)

SessionState == {"DETACHED", "LOADING", "LIVE", "WAIT_DISCONNECT"}
Status == {"None", "Loading", "Live", "Destroying"}
Activity == {"None", "Save", "Rename", "SyncFileTimestamp"}
KitDisconnected == {"No", "Normal", "Unexpected"}

(* The assertions of the code whose failure is recorded, not assumed away. *)
Assertion == {"NoUploadInSync", "CanSaveAgain", "CfiInSync", "UnloadNotShared"}

(* A server timestamp that is not trusted, a file that does not exist and   *)
(* the size of an upload that did not start.                                *)
UnSafe == -1
NoTime == -1
NoFile == [t |-> NoTime, c |-> 0]
NoSize == -2

File == [t : Int, c : Int]
UploadRequest == [t : Int, rename : BOOLEAN, s : Session, complete : BOOLEAN]
HttpResult == {"queued", "pending", "OK", "FAILED", "UNAUTHORIZED", "CONFLICT",
               "TOO_LARGE", "Error"}
HttpUpload == [file : File, rename : BOOLEAN, s : Session, ts : Int,
               res : HttpResult, t : Int]
CheckFileInfo == [s : Session, done : BOOLEAN]
KitCommand == [k : {"load", "edit", "save", "disconnect"}, s : Session,
               dontSaveIfUnmodified : BOOLEAN]

(* A null pointer is no request, sent or kept.                              *)
ASSUME NullAssumption == Null \notin UploadRequest \cup HttpUpload

Broker ==
    [sessions : SUBSET Session,               \* the keys of _sessions
     state : [Session -> SessionState],       \* ClientSession::_state
     connected : SUBSET Session,              \* onDisconnect() not called yet
     closeFrame : SUBSET Session,             \* isCloseFrame()
     editable : SUBSET Session,               \* isEditable()
     authorized : SUBSET Session,             \* authorization not expired
     lastEditing : Session \cup {Null},       \* _lastEditingSessionId
     status : Status,
     loaded : BOOLEAN,
     activity : Activity,
     closeRequested : BOOLEAN,
     unloadRequested : BOOLEAN,
     kitDisconnected : KitDisconnected,
     stop : BOOLEAN,                          \* _stop
     changedInStorage : BOOLEAN,              \* _documentChangedInStorage
     modified : BOOLEAN,                      \* _isModified
     modifiedAfterSave : BOOLEAN,             \* activity after the save request
     saving : BOOLEAN,                        \* the save request is active
     saveFailures : Nat,
     versioned : BOOLEAN,                     \* SaveManager::version() > 0
     uploadActive : BOOLEAN,                  \* the upload request is active
     uploadFailures : Nat,
     uploadRequest : UploadRequest \cup {Null},
     lastUploadedTime : Int,                  \* of the local file uploaded last
     serverTime : Int,                        \* StorageManager's server time
     storageTime : Int,                       \* StorageBase's, UnSafe if empty
     sizeAsUploaded : Int,
     http : HttpUpload \cup {Null},           \* WopiStorage::_uploadHttpSession
     upload : File,                           \* <doc>.upload
     uploading : File,                        \* <doc>.uploading
     forced : BOOLEAN,                        \* _currentStorageAttrs.isForced()
     lastForced : BOOLEAN,                    \* _lastStorageAttrs.isForced()
     renameSession : Session \cup {Null},     \* _renameSessionId
     checkFileInfo : CheckFileInfo \cup {Null},
     toKit : Seq(KitCommand),                 \* sent, not read by the Kit yet
     failedAsserts : SUBSET Assertion,        \* assertions that did not hold
     finished : BOOLEAN,                      \* pollThread left its loop
     dataLoss : BOOLEAN]                      \* and flagged data-loss

(* A new broker that has been given its child process. *)
NewBroker ==
    [sessions |-> {}, state |-> [s \in Session |-> "DETACHED"],
     connected |-> {}, closeFrame |-> {}, editable |-> {}, authorized |-> {},
     lastEditing |-> Null, status |-> "None", loaded |-> FALSE,
     activity |-> "None", closeRequested |-> FALSE, unloadRequested |-> FALSE,
     kitDisconnected |-> "No", stop |-> FALSE, changedInStorage |-> FALSE,
     modified |-> FALSE, modifiedAfterSave |-> FALSE, saving |-> FALSE,
     saveFailures |-> 0, versioned |-> FALSE, uploadActive |-> FALSE,
     uploadFailures |-> 0, uploadRequest |-> Null, lastUploadedTime |-> 0,
     serverTime |-> 0, storageTime |-> UnSafe, sizeAsUploaded |-> NoSize,
     http |-> Null, upload |-> NoFile, uploading |-> NoFile, forced |-> FALSE,
     lastForced |-> FALSE, renameSession |-> Null, checkFileInfo |-> Null,
     toKit |-> <<>>, failedAsserts |-> {}, finished |-> FALSE,
     dataLoss |-> FALSE]

-----------------------------------------------------------------------------
(* Queries. *)

IsLive(b, s) == b.state[s] = "LIVE" /\ s \notin b.closeFrame
InWaitDisconnected(b, s) == b.state[s] = "WAIT_DISCONNECT"
ActiveSessions(b) == {s \in b.sessions : IsLive(b, s)}
LoadingSessions(b) ==
    {s \in b.sessions : ~IsLive(b, s) /\ ~InWaitDisconnected(b, s)}
HaveAnotherEditableSession(b, s) ==
    \E x \in b.sessions \ {s} : b.state[x] = "LIVE" /\ x \in b.editable

IsMarkedToDestroy(b) == b.status = "Destroying" \/ b.stop
IsUnloading(b) ==
    IsMarkedToDestroy(b) \/ b.closeRequested \/ b.unloadRequested
IsAsyncUploading(b) == b.http # Null

IsPossiblyModified(b) == b.modifiedAfterSave \/ b.modified
NeedToSaveToDisk(b) ==
    b.saveFailures > 0 \/ b.modified \/ b.modifiedAfterSave
CanSaveToDisk(b) ==
    b.kitDisconnected = "No" /\ b.loaded /\ b.sessions # {}

(* True iff the document on disk is newer than the one in Storage. *)
IsStorageOutdated(b) ==
    b.uploading # NoFile /\ b.uploading.t # b.lastUploadedTime

NeedToUploadToStorage(b) ==
    \/ IsUnloading(b) /\ AlwaysSaveOnExit /\ b.versioned
    \/ b.uploadFailures > 0 /\ ~b.changedInStorage
    \/ IsStorageOutdated(b)

(* The sessions getWriteableSession() may return: the last loaded, editable *)
(* and authorized one in the order of the ids, failing that the first of    *)
(* all.  (No session is the document owner.)                                *)
WriteableSession(b) ==
    LET good == {s \in b.sessions : /\ b.state[s] = "LIVE"
                                    /\ s \in b.editable
                                    /\ s \in b.authorized}
    IN  IF good # {} THEN good
        ELSE IF b.sessions # {} THEN b.sessions ELSE {Null}

(* The failure counts are only compared with 0 and with the limit. *)
FailureCap == IF LimStoreFailures = 0 THEN 1 ELSE LimStoreFailures
OneMore(n) == IF n < FailureCap THEN n + 1 ELSE n
StoreFailuresUnlimited(b) == FALSE
StoreFailuresExceeded(b) ==
    /\ LimStoreFailures > 0
    /\ \/ b.saveFailures >= LimStoreFailures
       \/ b.uploadFailures >= LimStoreFailures

-----------------------------------------------------------------------------
(* Small steps. *)

Check(b, holds, a) ==
    [b EXCEPT !.failedAsserts = IF holds THEN @ ELSE @ \cup {a}]

Stop(b) == [b EXCEPT !.stop = TRUE]
MarkToDestroy(b) == [b EXCEPT !.status = "Destroying"]
EndActivity(b) == [b EXCEPT !.activity = "None"]
EndSaveNever(b) == b
EndSave(b) == IF b.activity = "Save" THEN EndActivity(b) ELSE b
EndRename(b) == [b EXCEPT !.activity = "None", !.renameSession = Null]

Command(k, s, dsiu) == [k |-> k, s |-> s, dontSaveIfUnmodified |-> dsiu]
ForwardToChild(b, m) ==
    IF m.s \in b.sessions THEN [b EXCEPT !.toKit = Append(@, m)] ELSE b

SetLastSaveResultUnderflow(b, success, newVersion) ==
    [b EXCEPT !.saving = FALSE,
              !.versioned = @ \/ newVersion,
              !.saveFailures = IF success THEN @ - 1 ELSE OneMore(@)]
SetLastSaveResult(b, success, newVersion) ==
    [b EXCEPT !.saving = FALSE,
              !.versioned = @ \/ newVersion,
              !.saveFailures = IF success THEN 0 ELSE OneMore(@)]

SetLastUploadResult(b, success) ==
    [b EXCEPT !.uploadActive = FALSE,
              !.uploadFailures = IF success THEN 0 ELSE OneMore(@)]

SetLoaded(b) ==
    IF b.loaded THEN b ELSE [b EXCEPT !.loaded = TRUE, !.status = "Live"]

CloseDocument(b) ==
    [b EXCEPT !.closeRequested = TRUE, !.stop = @ \/ b.changedInStorage]

HandleDocumentConflict(b) ==
    [b EXCEPT !.changedInStorage = TRUE,
              !.stop = @ \/ b.sessions \subseteq b.closeFrame]

-----------------------------------------------------------------------------
(* Sessions leaving. *)

FinalRemoveSession(b, s) == [b EXCEPT !.sessions = @ \ {s}]

FailLoadingSessions(b) ==
    [b EXCEPT !.sessions = @ \ (LoadingSessions(b) \ b.closeFrame)]

(* The "disconnect" messages to the Kit, in some fixed order of the ids.    *)
Goodbyes(D) ==
    LET n == Cardinality(D)
        order == CHOOSE f \in [1..n -> D] : \A i, j \in 1..n :
                    f[i] = f[j] => i = j
    IN  [i \in 1..n |-> Command("disconnect", order[i], FALSE)]

(* "We must be the last session, flag to destroy if unload is requested." *)
MarkIfUnloadRequested(b) ==
    IF b.unloadRequested
    THEN MarkToDestroy(Check(b, Cardinality(ActiveSessions(b)) <= 1, "UnloadNotShared"))
    ELSE b

(* disconnectSessionInternal() for the sessions of D, none of which waits   *)
(* for its disconnection: hand-shake with the Kit, drop the sessions that   *)
(* would wait for a load by the first of them for ever, and give up on a    *)
(* document that nobody has seen load.                                      *)
DisconnectUntold(b, D) ==
    [b EXCEPT !.state = [s \in Session |-> IF s \in D THEN "WAIT_DISCONNECT" ELSE @[s]]]
DisconnectFromKit(b, D) ==
    LET b1 == MarkIfUnloadRequested(b)
        b2 == [b1 EXCEPT
                 !.state = [s \in Session |->
                              IF s \in D THEN "WAIT_DISCONNECT" ELSE @[s]],
                 !.toKit = @ \o Goodbyes(D \cap b.sessions)]
        settled == {s \in b.sessions \ D : IsLive(b, s) \/ InWaitDisconnected(b, s)}
        lastLoaded == Cardinality(settled) = IF D \subseteq b.sessions THEN 0 ELSE 1
        b3 == IF lastLoaded THEN FailLoadingSessions(b2) ELSE b2
    IN  IF ~b3.loaded /\ Cardinality(b3.sessions) <= 1 THEN Stop(b3) ELSE b3

DisconnectSessionInternal(b, s) ==
    IF InWaitDisconnected(b, s)
    THEN FinalRemoveSession(MarkIfUnloadRequested(b), s)
    ELSE DisconnectFromKit(b, {s})

(* The loops that disconnect the sessions whose client has gone. *)
DisconnectClosedSessions(b) ==
    LET D == {s \in b.sessions : s \in b.closeFrame /\ ~InWaitDisconnected(b, s)}
    IN  IF D = {} THEN b ELSE DisconnectFromKit(b, D)

-----------------------------------------------------------------------------
(* Saving. *)

SendUnoSave(b, s, dsiu) ==
    IF s \in b.sessions
    THEN [ForwardToChild(b, Command("save", s, dsiu))
             EXCEPT !.saving = TRUE,
                    !.modifiedAfterSave = FALSE,
                    !.activity = IF @ = "None" THEN "Save" ELSE @]
    ELSE b

(* autoSave(): w is what getWriteableSession() returns, timed whether the   *)
(* idle-save or the auto-save interval has elapsed.                         *)
AutoSaveSession(b, w) ==
    IF /\ b.lastEditing \in b.sessions
       /\ b.lastEditing \in b.editable
       /\ b.state[b.lastEditing] = "LIVE"
    THEN b.lastEditing ELSE w

AutoSaveSendsAgain(b, force, timed) ==
    CanSaveToDisk(b) /\ (force \/ (b.modified /\ timed))
AutoSaveSends(b, force, timed) ==
    /\ b.activity # "Save"
    /\ CanSaveToDisk(b)
    /\ force \/ (b.modified /\ timed)

AutoSave(b, w, force, timed) ==
    IF AutoSaveSends(b, force, timed)
    THEN SendUnoSave(b, AutoSaveSession(b, w), TRUE) ELSE b

AutoSaveResult(b, force, timed) == b.activity = "Save" \/ AutoSaveSends(b, force, timed)

(* removeSession(): the last editable session stays until it has saved.     *)
RemoveSession(b, s, w) ==
    LET active == Cardinality(ActiveSessions(b))
        lastEditable == s \in b.editable /\ ~HaveAnotherEditableSession(b, s)
        force == AlwaysSaveOnExit \/ IsPossiblyModified(b)
        b1 == IF lastEditable /\ b.saving THEN b
              ELSE IF lastEditable /\ AutoSaveResult(b, force, FALSE)
              THEN AutoSave(b, w, force, FALSE)
              ELSE DisconnectSessionInternal(b, s)
    IN  IF active > 1 THEN b1
        ELSE IF b1.saving \/ IsAsyncUploading(b1)
        THEN [b1 EXCEPT !.unloadRequested = TRUE]
        ELSE IF b1.sessions = {} THEN MarkToDestroy(b1) ELSE b1

-----------------------------------------------------------------------------
(* Uploading. *)

(* The callback of an upload that failed without an answer of the server. *)
UploadError(b) ==
    LET b1 == SetLastUploadResult([b EXCEPT !.uploadRequest.complete = TRUE], FALSE)
    IN  IF b.activity = "Rename" THEN EndRename(b1) ELSE b1

(* uploadToStorageInternal(), with the start of                             *)
(* WopiStorage::uploadLocalFileToStorageAsync(), which refuses a second     *)
(* upload and a missing file.                                               *)
UploadToStorageInternal(b, s, isRename, force) ==
    LET b1 == [b EXCEPT !.uploadRequest = [t |-> b.uploading.t, rename |-> isRename,
                                           s |-> s, complete |-> FALSE],
                        !.lastForced = b.forced \/ force,
                        !.forced = FALSE,
                        !.uploadActive = TRUE]
    IN  IF s \notin b.editable THEN b
        ELSE IF IsAsyncUploading(b) \/ b.uploading = NoFile
        THEN [UploadError(b1) EXCEPT !.sizeAsUploaded = NoSize]
        ELSE [b1 EXCEPT !.http = [file |-> b.uploading, rename |-> isRename, s |-> s,
                                  ts |-> IF b1.lastForced THEN UnSafe
                                         ELSE b.storageTime,
                                  res |-> "queued", t |-> NoTime],
                        !.sizeAsUploaded = b.uploading.c]

(* elapsed: the time between two requests has passed. *)
UploadToStorage(b, s, force, elapsed) ==
    IF force \/ b.uploadFailures = 0 \/ (~b.uploadActive /\ elapsed)
    THEN UploadToStorageInternal(b, s, FALSE, force) ELSE b

RenameInStorage(b) ==
    IF b.renameSession \in b.sessions
    THEN UploadToStorageInternal(b, b.renameSession, TRUE, FALSE)
    ELSE EndRename(b)

CheckAndUploadToStorage(b, s, justSaved, elapsed) ==
    LET need == NeedToUploadToStorage(b)
        b1 == EndSave(b)
        modified == IF justSaved THEN b.modifiedAfterSave ELSE NeedToSaveToDisk(b)
    IN  IF b.activity = "Rename" /\ ~need THEN RenameInStorage(b)
        ELSE IF modified /\ IsUnloading(b)
        THEN Check(b1, CanSaveToDisk(b), "CanSaveAgain")
        ELSE IF need THEN UploadToStorage(b1, s, FALSE, elapsed)
        ELSE IF IsAsyncUploading(b) THEN b1
        ELSE DisconnectClosedSessions(b1)

-----------------------------------------------------------------------------
(* Responses. *)

(* handleSaveResponse(): result is "true", "unmodified" or "false". *)
HandleSaveResponse(b, s, result, elapsed) ==
    LET saved == result \in {"true", "unmodified"}
        b1 == SetLastSaveResult(b, saved, result = "true")
        b2 == IF b1.upload = NoFile THEN b1
              ELSE [b1 EXCEPT !.uploading = b1.upload, !.upload = NoFile]
    IN  CheckAndUploadToStorage(b2, s, saved, elapsed)

(* handleUploadToStorageSuccessful(), t being the server's new timestamp;   *)
(* it is the request of the broker that says what was uploaded.             *)
HandleUploadSuccessful(b, t) ==
    LET req == b.uploadRequest
        b1 == [b EXCEPT !.lastUploadedTime = req.t, !.serverTime = t,
                        !.changedInStorage = FALSE, !.lastForced = FALSE]
        b2 == IF req.rename THEN EndRename(b)
              ELSE IF b.activity = "Rename" THEN RenameInStorage(b1) ELSE b1
        b3 == IF b2.unloadRequested THEN MarkToDestroy(b2) ELSE b2
        b4 == IF /\ b3.status = "Destroying" \/ b3.sessions = {}
                 /\ ~IsPossiblyModified(b3)
              THEN Stop(b3) ELSE b3
    IN  DisconnectClosedSessions(b4)

(* handleUploadToStorageFailed(). *)
HandleUploadFailedAsStored(b, result) ==
    [b EXCEPT !.lastUploadedTime = b.uploadRequest.t]
HandleUploadFailed(b, result) ==
    LET b1 == IF b.activity = "Rename" THEN EndRename(b) ELSE b
        b2 == CASE result = "TOO_LARGE" ->
                     [b1 EXCEPT !.editable = @ \ b.sessions]
                [] result = "UNAUTHORIZED" ->
                     [b1 EXCEPT !.authorized =
                        @ \ ({b.uploadRequest.s} \cap b.sessions)]
                [] result = "FAILED" ->
                     [b1 EXCEPT !.activity = "SyncFileTimestamp"]
                [] result = "CONFLICT" -> HandleDocumentConflict(b1)
    IN  [b2 EXCEPT !.forced = @ \/ b2.lastForced, !.lastForced = FALSE]

(* The timestamp of the storage after the answer; a rename has none. *)
StorageTimeAfter(b) ==
    IF b.http.res # "OK" THEN b.storageTime
    ELSE IF b.http.rename THEN UnSafe ELSE b.http.t

(* The end of the HTTP session and the callback of the broker, which        *)
(* ignores an upload that it keeps no request for.                          *)
UploadFinished(b) ==
    LET res == b.http.res
        b1 == [b EXCEPT !.http = Null, !.storageTime = StorageTimeAfter(b)]
        b2 == SetLastUploadResult([b1 EXCEPT !.uploadRequest.complete = TRUE],
                                  res = "OK")
    IN  IF b.uploadRequest = Null THEN b1
        ELSE IF res = "Error" THEN UploadError(b1)
        ELSE IF res = "OK" THEN HandleUploadSuccessful(b2, b1.storageTime)
        ELSE HandleUploadFailed(b2, res)

(* The continuation of checkFileInfo(): the answer is Pass, Unauthorized or *)
(* Fail, and Pass carries the timestamp t and the size c of the document in *)
(* storage.  getSizeOnServer() is 0: nothing ever sets it.                  *)
CheckFileInfoTrusted(b, answer, t, c) ==
    [EndActivity(b) EXCEPT !.checkFileInfo.done = TRUE,
                           !.storageTime = t, !.serverTime = t]
CheckFileInfoFinished(b, answer, t, c) ==
    LET s == b.checkFileInfo.s
        b1 == [Check(EndActivity(b), b.activity = "SyncFileTimestamp", "CfiInSync")
                  EXCEPT !.checkFileInfo.done = TRUE]
    IN  CASE answer = "Pass" ->
               IF b.sizeAsUploaded = c
               THEN [b1 EXCEPT !.storageTime = t, !.serverTime = t]
               ELSE HandleDocumentConflict(b1)
          [] answer = "Unauthorized" ->
               [b1 EXCEPT !.storageTime = UnSafe,
                          !.authorized = @ \ ({s} \cap b.sessions)]
          [] answer = "Fail" -> [b1 EXCEPT !.storageTime = UnSafe]

-----------------------------------------------------------------------------
(* Unloading. *)

(* autoSaveAndStop(): w is the writeable session, saveNow says that the     *)
(* time between saves has passed, waited that the last save was answered    *)
(* two seconds ago, elapsed that the time between uploads has passed.       *)
CanStop(b) ==
    LET needToSave == NeedToSaveToDisk(b)
        retry == /\ AlwaysSaveOnExit
                 /\ b.uploadFailures > 0
                 /\ LimStoreFailures = 0 \/ b.uploadFailures < LimStoreFailures
    IN  IF needToSave THEN ~CanSaveToDisk(b)
        ELSE ~NeedToUploadToStorage(b) \/ (~IsStorageOutdated(b) /\ ~retry)

(* Nothing to upload and the last save succeeded, with no activity since:   *)
(* only the modified flag, which may be late, asks for another save.        *)
OnlyModifiedFlagLeft(b) ==
    /\ ~NeedToUploadToStorage(b)
    /\ ~b.modifiedAfterSave
    /\ b.saveFailures = 0

AutoSaveAndStop(b, w, saveNow, waited, elapsed) ==
    LET force == IsPossiblyModified(b) \/ b.saveFailures > 0
    IN  IF b.saving \/ IsAsyncUploading(b) THEN b
        ELSE IF CanStop(b) THEN Stop(b)
        ELSE IF OnlyModifiedFlagLeft(b) THEN IF waited THEN Stop(b) ELSE b
        ELSE IF ~saveNow THEN b
        ELSE IF AutoSaveResult(b, force, FALSE) THEN AutoSave(b, w, force, FALSE)
        ELSE IF w \in b.authorized
        THEN CheckAndUploadToStorage(b, w, FALSE, elapsed)
        ELSE Stop(b)

(* The data-loss check after the poll loop. *)
DetectStorageLoss(b) == b.uploadFailures > 0 \/ IsStorageOutdated(b)
DetectDataLoss(b) ==
    /\ \/ b.modifiedAfterSave
       \/ b.saveFailures > 0
       \/ b.uploadFailures > 0
       \/ IsStorageOutdated(b)
    /\ ~(b.closeRequested /\ b.changedInStorage)
=============================================================================
