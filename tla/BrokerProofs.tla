------------------------------ MODULE BrokerProofs ------------------------------
(***************************************************************************)
(* The broker is always well-typed, and it is never in the Save activity   *)
(* without a save in flight, for any number of sessions, any configuration *)
(* and any faults.  The type invariant is not inductive without the second *)
(* part (the two are Good), since the answer to a save is what ends the    *)
(* activity.  The first part of the module is about the member functions   *)
(* of BrokerCore, which map a good broker to a good broker, the second     *)
(* about the steps, the third about what is edited, saved and uploaded.    *)
(***************************************************************************)
EXTENDS DocumentBroker, FiniteSetTheorems, SequenceTheorems, TLAPS

(* A broker that waits for a save has asked for one. *)
SaveMarked(d) == d.activity = "Save" => d.saving
Good(d) == d \in Broker /\ SaveMarked(d)

-----------------------------------------------------------------------------
(* Small steps. *)

(* Checking an assertion changes nothing but the record of failures. *)
LEMMA CheckGood ==
    ASSUME NEW d, NEW holds, NEW a \in Assertion
    PROVE  /\ d \in Broker => Check(d, holds, a) \in Broker
           /\ Good(d) => Good(Check(d, holds, a))
<1>1. ASSUME d \in Broker
      PROVE  /\ Check(d, holds, a) \in Broker
             /\ Check(d, holds, a).activity = d.activity
             /\ Check(d, holds, a).saving = d.saving
  <2> DEFINE v == IF holds THEN d.failedAsserts ELSE d.failedAsserts \cup {a}
             e == [d EXCEPT !.failedAsserts = v]
  <2>1. v \in SUBSET Assertion BY <1>1 DEF Broker
  <2>2. Check(d, holds, a) = e BY Zenon DEF Check
  <2> HIDE DEF v
  <2>3. e \in Broker BY <1>1, <2>1, ZenonT(60) DEF Broker
  <2>4. e.activity = d.activity /\ e.saving = d.saving BY <1>1 DEF Broker
  <2> QED BY <2>2, <2>3, <2>4
<1> QED BY <1>1 DEF Good, SaveMarked

(* Stopping and marking to destroy leave the activity and the save alone. *)
LEMMA StopGood ==
    ASSUME NEW d, Good(d)
    PROVE  Good(Stop(d)) /\ Good(MarkToDestroy(d))
<1>1. d \in Broker BY DEF Good
<1>2. Stop(d) \in Broker BY <1>1, ZenonT(60) DEF Broker, Stop
<1>3. Stop(d).activity = d.activity /\ Stop(d).saving = d.saving
  BY <1>1 DEF Broker, Stop
<1>4. MarkToDestroy(d) \in Broker BY <1>1 DEF Broker, MarkToDestroy, Status
<1>5. MarkToDestroy(d).activity = d.activity /\ MarkToDestroy(d).saving = d.saving
  BY <1>1 DEF Broker, MarkToDestroy
<1> QED BY <1>2, <1>3, <1>4, <1>5 DEF Good, SaveMarked

(* Ending an activity repairs a broker whose save has just been answered. *)
LEMMA EndGood ==
    ASSUME NEW d \in Broker
    PROVE  Good(EndActivity(d)) /\ Good(EndSave(d)) /\ Good(EndRename(d))
<1>1. EndActivity(d) \in Broker BY ZenonT(60) DEF Broker, EndActivity, Activity
<1>2. EndActivity(d).activity = "None" BY DEF Broker, EndActivity
<1>3. Good(EndActivity(d)) BY <1>1, <1>2 DEF Good, SaveMarked
<1>4. Good(EndSave(d)) BY <1>3 DEF EndSave, Good, SaveMarked
<1>5. EndRename(d) \in Broker BY ZenonT(60) DEF Broker, EndRename, Activity
<1>6. EndRename(d).activity = "None" BY DEF Broker, EndRename
<1> QED BY <1>3, <1>4, <1>5, <1>6 DEF Good, SaveMarked

(* Sending a command to the Kit only appends to the queue. *)
LEMMA ForwardGood ==
    ASSUME NEW d \in Broker, NEW m \in KitCommand
    PROVE  /\ ForwardToChild(d, m) \in Broker
           /\ ForwardToChild(d, m).activity = d.activity
           /\ ForwardToChild(d, m).saving = d.saving
<1>1. CASE m.s \in d.sessions
  <2>1. Append(d.toKit, m) \in Seq(KitCommand) BY DEF Broker
  <2>2. ForwardToChild(d, m) \in Broker BY <1>1, <2>1, ZenonT(60) DEF Broker, ForwardToChild
  <2> QED BY <1>1, <2>2 DEF Broker, ForwardToChild
<1>2. CASE m.s \notin d.sessions
  BY <1>2 DEF ForwardToChild
<1> QED BY <1>1, <1>2

(* Commands are commands. *)
LEMMA CommandType ==
    ASSUME NEW k \in {"load", "edit", "save", "disconnect"}, NEW s \in Session,
           NEW f \in BOOLEAN
    PROVE  Command(k, s, f) \in KitCommand
BY DEF Command, KitCommand

(* The failure counters stay natural numbers. *)
LEMMA OneMoreType ==
    ASSUME NEW n \in Nat PROVE OneMore(n) \in Nat
BY ConfigAssumption DEF OneMore, FailureCap

(* The answer to a save ends the wait for it, whatever the activity. *)
LEMMA SaveResultType ==
    ASSUME NEW d \in Broker, NEW success \in BOOLEAN, NEW newVersion \in BOOLEAN
    PROVE  /\ SetLastSaveResult(d, success, newVersion) \in Broker
           /\ SetLastSaveResult(d, success, newVersion).activity = d.activity
<1> DEFINE v == d.versioned \/ newVersion
           n == IF success THEN 0 ELSE OneMore(d.saveFailures)
<1>1. v \in BOOLEAN OBVIOUS
<1>2. n \in Nat BY OneMoreType DEF Broker
<1>3. SetLastSaveResult(d, success, newVersion)
        = [d EXCEPT !.saving = FALSE, !.versioned = v, !.saveFailures = n]
  BY Zenon DEF SetLastSaveResult
<1> HIDE DEF v, n
<1>4. [d EXCEPT !.saving = FALSE, !.versioned = v, !.saveFailures = n] \in Broker
  BY <1>1, <1>2, ZenonT(60) DEF Broker
<1> QED BY <1>3, <1>4 DEF Broker

(* The answer to an upload counts failures and touches nothing else. *)
LEMMA UploadResultGood ==
    ASSUME NEW d, Good(d), NEW success \in BOOLEAN
    PROVE  Good(SetLastUploadResult(d, success))
<1> DEFINE n == IF success THEN 0 ELSE OneMore(d.uploadFailures)
           e == [d EXCEPT !.uploadActive = FALSE, !.uploadFailures = n]
<1>1. d \in Broker BY DEF Good
<1>2. n \in Nat BY <1>1, OneMoreType DEF Broker
<1>3. SetLastUploadResult(d, success) = e BY Zenon DEF SetLastUploadResult
<1> HIDE DEF n
<1>4. e \in Broker BY <1>1, <1>2, ZenonT(60) DEF Broker
<1>5. e.activity = d.activity /\ e.saving = d.saving BY <1>1 DEF Broker
<1> QED BY <1>3, <1>4, <1>5 DEF Good, SaveMarked

(* Loading, closing and conflicts. *)
LEMMA DocumentGood ==
    ASSUME NEW d, Good(d)
    PROVE  /\ Good(SetLoaded(d))
           /\ Good(CloseDocument(d))
           /\ Good(HandleDocumentConflict(d))
<1>1. d \in Broker BY DEF Good
<1>2. Good(SetLoaded(d))
  <2>1. CASE d.loaded BY <2>1 DEF SetLoaded
  <2>2. CASE ~d.loaded
    <3> DEFINE e == [d EXCEPT !.loaded = TRUE, !.status = "Live"]
    <3>1. SetLoaded(d) = e BY <2>2, Zenon DEF SetLoaded
    <3>2. "Live" \in Status BY DEF Status
    <3>3. e \in Broker BY <1>1, <3>2, ZenonT(60) DEF Broker
    <3>4. e.activity = d.activity /\ e.saving = d.saving BY <1>1 DEF Broker
    <3> QED BY <3>1, <3>3, <3>4 DEF Good, SaveMarked
  <2> QED BY <2>1, <2>2
<1>3. Good(CloseDocument(d))
  <2> DEFINE v == d.stop \/ d.changedInStorage
             e == [d EXCEPT !.closeRequested = TRUE, !.stop = v]
  <2>1. v \in BOOLEAN OBVIOUS
  <2>2. CloseDocument(d) = e BY Zenon DEF CloseDocument
  <2> HIDE DEF v
  <2>3. e \in Broker BY <1>1, <2>1, ZenonT(60) DEF Broker
  <2>4. e.activity = d.activity /\ e.saving = d.saving BY <1>1 DEF Broker
  <2> QED BY <2>2, <2>3, <2>4 DEF Good, SaveMarked
<1>4. Good(HandleDocumentConflict(d))
  <2> DEFINE v == d.stop \/ d.sessions \subseteq d.closeFrame
             e == [d EXCEPT !.changedInStorage = TRUE, !.stop = v]
  <2>1. v \in BOOLEAN OBVIOUS
  <2>2. HandleDocumentConflict(d) = e BY Zenon DEF HandleDocumentConflict
  <2> HIDE DEF v
  <2>3. e \in Broker BY <1>1, <2>1, ZenonT(60) DEF Broker
  <2>4. e.activity = d.activity /\ e.saving = d.saving BY <1>1 DEF Broker
  <2> QED BY <2>2, <2>3, <2>4 DEF Good, SaveMarked
<1> QED BY <1>2, <1>3, <1>4

-----------------------------------------------------------------------------
(* Sessions leaving. *)

(* The goodbyes to a finite set of sessions are commands for the Kit. *)
LEMMA GoodbyesType ==
    ASSUME NEW D \in SUBSET Session
    PROVE  Goodbyes(D) \in Seq(KitCommand)
<1> DEFINE n == Cardinality(D)
           P(f) == \A i, j \in 1..n : f[i] = f[j] => i = j
           order == CHOOSE f \in [1..n -> D] : P(f)
           g == [i \in 1..n |-> Command("disconnect", order[i], FALSE)]
<1>1. IsFiniteSet(D) BY SessionAssumption, FS_Subset
<1>2. n \in Nat /\ ExistsBijection(1..n, D) BY <1>1, FS_CardinalityType
<1>3. \E f \in [1..n -> D] : P(f)
  BY <1>2 DEF ExistsBijection, Bijection, Injection, IsInjective
<1>4. order \in [1..n -> D] BY <1>3, Zenon
<1>5. Goodbyes(D) = g BY Zenon DEF Goodbyes
<1> HIDE DEF n, order
<1>6. \A i \in 1..n : Command("disconnect", order[i], FALSE) \in KitCommand
  BY <1>4 DEF Command, KitCommand
<1>7. g \in [1..n -> KitCommand] BY <1>6
<1>8. g \in Seq(KitCommand) BY <1>2, <1>7, SeqDef, Zenon
<1> QED BY <1>5, <1>8

(* Removing sessions leaves the activity and the save alone. *)
LEMMA RemoveGood ==
    ASSUME NEW d, Good(d), NEW s
    PROVE  Good(FinalRemoveSession(d, s)) /\ Good(FailLoadingSessions(d))
<1> DEFINE L == LoadingSessions(d) \ d.closeFrame
<1>1. d \in Broker BY DEF Good
<1>2. d.sessions \ {s} \in SUBSET Session /\ d.sessions \ L \in SUBSET Session
  BY <1>1 DEF Broker
<1>3. /\ FinalRemoveSession(d, s) = [d EXCEPT !.sessions = d.sessions \ {s}]
      /\ FailLoadingSessions(d) = [d EXCEPT !.sessions = d.sessions \ L]
  BY Zenon DEF FinalRemoveSession, FailLoadingSessions
<1> HIDE DEF L
<1>4. ASSUME NEW S \in SUBSET Session PROVE Good([d EXCEPT !.sessions = S])
  <2>1. [d EXCEPT !.sessions = S] \in Broker BY <1>1 DEF Broker
  <2>2. /\ [d EXCEPT !.sessions = S].activity = d.activity
        /\ [d EXCEPT !.sessions = S].saving = d.saving
    BY <1>1 DEF Broker
  <2> QED BY <2>1, <2>2 DEF Good, SaveMarked
<1> QED BY <1>2, <1>3, <1>4

(* So does marking for destruction on the way. *)
LEMMA MarkGood ==
    ASSUME NEW d, Good(d)
    PROVE  Good(MarkIfUnloadRequested(d))
<1> DEFINE e == Check(d, Cardinality(ActiveSessions(d)) <= 1, "UnloadNotShared")
<1>1. Good(e) BY CheckGood DEF Assertion
<1> HIDE DEF e
<1>2. Good(MarkToDestroy(e)) BY <1>1, StopGood
<1> QED BY <1>2 DEF MarkIfUnloadRequested, e

(* The hand-shake with the Kit. *)
LEMMA DisconnectGood ==
    ASSUME NEW d, Good(d), NEW D \in SUBSET Session
    PROVE  Good(DisconnectFromKit(d, D))
<1> DEFINE b1 == MarkIfUnloadRequested(d)
           st == [s \in Session |-> IF s \in D THEN "WAIT_DISCONNECT" ELSE b1.state[s]]
           q == b1.toKit \o Goodbyes(D \cap d.sessions)
           b2 == [b1 EXCEPT !.state = st, !.toKit = q]
           settled == {s \in d.sessions \ D : IsLive(d, s) \/ InWaitDisconnected(d, s)}
           lastLoaded == Cardinality(settled) = IF D \subseteq d.sessions THEN 0 ELSE 1
           b3 == IF lastLoaded THEN FailLoadingSessions(b2) ELSE b2
<1>1. Good(b1) BY MarkGood
<1>2. b1 \in Broker BY <1>1 DEF Good
<1>3. DisconnectFromKit(d, D)
        = IF ~b3.loaded /\ Cardinality(b3.sessions) <= 1 THEN Stop(b3) ELSE b3
  BY Zenon DEF DisconnectFromKit
<1> HIDE DEF b1, settled, lastLoaded
<1>4. st \in [Session -> SessionState] BY <1>2 DEF Broker, SessionState
<1>5. q \in Seq(KitCommand)
  <2>1. D \cap d.sessions \in SUBSET Session OBVIOUS
  <2>2. Goodbyes(D \cap d.sessions) \in Seq(KitCommand) BY <2>1, GoodbyesType
  <2> QED BY <1>2, <2>2 DEF Broker
<1> HIDE DEF st, q
<1>6. b2 \in Broker BY <1>2, <1>4, <1>5, ZenonT(60) DEF Broker
<1>7. b2.activity = b1.activity /\ b2.saving = b1.saving BY <1>2 DEF Broker
<1>8. Good(b2) BY <1>1, <1>6, <1>7 DEF Good, SaveMarked
<1> HIDE DEF b2
<1>9. Good(b3) BY <1>8, RemoveGood
<1> HIDE DEF b3
<1> QED BY <1>3, <1>9, StopGood

(* One session. *)
LEMMA DisconnectSessionGood ==
    ASSUME NEW d, Good(d), NEW s \in Session
    PROVE  Good(DisconnectSessionInternal(d, s))
<1>1. Good(DisconnectFromKit(d, {s})) BY DisconnectGood
<1>2. Good(FinalRemoveSession(MarkIfUnloadRequested(d), s)) BY MarkGood, RemoveGood
<1> QED BY <1>1, <1>2 DEF DisconnectSessionInternal

(* All sessions whose client has gone. *)
LEMMA ClosedGood ==
    ASSUME NEW d, Good(d)
    PROVE  Good(DisconnectClosedSessions(d))
<1> DEFINE D == {x \in d.sessions : x \in d.closeFrame /\ ~InWaitDisconnected(d, x)}
<1>1. D \in SUBSET Session BY DEF Good, Broker
<1>2. DisconnectClosedSessions(d) = IF D = {} THEN d ELSE DisconnectFromKit(d, D)
  BY Zenon DEF DisconnectClosedSessions
<1> HIDE DEF D
<1>3. Good(DisconnectFromKit(d, D)) BY <1>1, DisconnectGood
<1> QED BY <1>2, <1>3

-----------------------------------------------------------------------------
(* Saving. *)

(* Whoever asks for a save, the request is marked before the activity is.   *)
LEMMA SendUnoSaveGood ==
    ASSUME NEW d, Good(d), NEW s, NEW dsiu \in BOOLEAN
    PROVE  Good(SendUnoSave(d, s, dsiu))
<1>1. d \in Broker BY DEF Good
<1>2. CASE s \notin d.sessions BY <1>2 DEF SendUnoSave
<1>3. CASE s \in d.sessions
  <2> DEFINE f == ForwardToChild(d, Command("save", s, dsiu))
             a == IF f.activity = "None" THEN "Save" ELSE f.activity
             e == [f EXCEPT !.saving = TRUE, !.modifiedAfterSave = FALSE,
                            !.activity = a]
  <2>1. s \in Session BY <1>1, <1>3 DEF Broker
  <2>2. Command("save", s, dsiu) \in KitCommand BY <2>1, CommandType
  <2>3. f \in Broker BY <1>1, <2>2, ForwardGood
  <2>4. SendUnoSave(d, s, dsiu) = e BY <1>3, Zenon DEF SendUnoSave
  <2> HIDE DEF f
  <2>5. a \in Activity BY <2>3 DEF Broker, Activity
  <2> HIDE DEF a
  <2>6. e \in Broker BY <2>3, <2>5, ZenonT(60) DEF Broker
  <2>7. e.saving = TRUE BY <2>3 DEF Broker
  <2> QED BY <2>4, <2>6, <2>7 DEF Good, SaveMarked
<1> QED BY <1>2, <1>3

(* The automatic save. *)
LEMMA AutoSaveGood ==
    ASSUME NEW d, Good(d), NEW w, NEW force, NEW timed
    PROVE  Good(AutoSave(d, w, force, timed))
<1>1. Good(SendUnoSave(d, AutoSaveSession(d, w), TRUE)) BY SendUnoSaveGood
<1> QED BY <1>1 DEF AutoSave

(* A request to unload touches neither the activity nor the save. *)
LEMMA UnloadGood ==
    ASSUME NEW d, Good(d), NEW v \in BOOLEAN
    PROVE  Good([d EXCEPT !.unloadRequested = v])
<1>1. d \in Broker BY DEF Good
<1>2. [d EXCEPT !.unloadRequested = v] \in Broker BY <1>1 DEF Broker
<1>3. /\ [d EXCEPT !.unloadRequested = v].activity = d.activity
      /\ [d EXCEPT !.unloadRequested = v].saving = d.saving
  BY <1>1 DEF Broker
<1> QED BY <1>2, <1>3 DEF Good, SaveMarked

(* Removing a session saves, waits or disconnects it. *)
LEMMA RemoveSessionGood ==
    ASSUME NEW d, Good(d), NEW s \in Session, NEW w
    PROVE  Good(RemoveSession(d, s, w))
<1> DEFINE active == Cardinality(ActiveSessions(d))
           lastEditable == s \in d.editable /\ ~HaveAnotherEditableSession(d, s)
           force == AlwaysSaveOnExit \/ IsPossiblyModified(d)
           b1 == IF lastEditable /\ d.saving THEN d
                 ELSE IF lastEditable /\ AutoSaveResult(d, force, FALSE)
                 THEN AutoSave(d, w, force, FALSE)
                 ELSE DisconnectSessionInternal(d, s)
<1>1. Good(AutoSave(d, w, force, FALSE)) BY AutoSaveGood
<1>2. Good(DisconnectSessionInternal(d, s)) BY DisconnectSessionGood
<1>3. RemoveSession(d, s, w)
        = IF active > 1 THEN b1
          ELSE IF b1.saving \/ IsAsyncUploading(b1)
          THEN [b1 EXCEPT !.unloadRequested = TRUE]
          ELSE IF b1.sessions = {} THEN MarkToDestroy(b1) ELSE b1
  BY Zenon DEF RemoveSession
<1> HIDE DEF active, lastEditable, force
<1>4. Good(b1) BY <1>1, <1>2
<1> HIDE DEF b1
<1>5. Good([b1 EXCEPT !.unloadRequested = TRUE]) BY <1>4, UnloadGood
<1>6. Good(MarkToDestroy(b1)) BY <1>4, StopGood
<1> QED BY <1>3, <1>4, <1>5, <1>6

-----------------------------------------------------------------------------
(* Uploading. *)

(* Completing the request of an upload. *)
LEMMA CompleteGood ==
    ASSUME NEW d, Good(d), d.uploadRequest \in UploadRequest
    PROVE  /\ Good([d EXCEPT !.uploadRequest.complete = TRUE])
           /\ [d EXCEPT !.uploadRequest.complete = TRUE].uploadRequest \in UploadRequest
<1> DEFINE r == [d.uploadRequest EXCEPT !.complete = TRUE]
           e == [d EXCEPT !.uploadRequest = r]
<1>1. d \in Broker BY DEF Good
<1>2. r \in UploadRequest BY DEF UploadRequest
<1>3. [d EXCEPT !.uploadRequest.complete = TRUE] = e OBVIOUS
<1> HIDE DEF r
<1>4. e \in Broker BY <1>1, <1>2, ZenonT(60) DEF Broker
<1>5. e.activity = d.activity /\ e.saving = d.saving /\ e.uploadRequest = r
  BY <1>1 DEF Broker
<1> QED BY <1>2, <1>3, <1>4, <1>5 DEF Good, SaveMarked

(* An upload that fails at once. *)
LEMMA UploadErrorGood ==
    ASSUME NEW d, Good(d), d.uploadRequest \in UploadRequest
    PROVE  Good(UploadError(d))
<1> DEFINE c == [d EXCEPT !.uploadRequest.complete = TRUE]
           b1 == SetLastUploadResult(c, FALSE)
<1>1. Good(c) BY CompleteGood
<1>2. UploadError(d) = IF d.activity = "Rename" THEN EndRename(b1) ELSE b1
  BY Zenon DEF UploadError
<1> HIDE DEF c
<1>3. Good(b1) BY <1>1, UploadResultGood
<1> HIDE DEF b1
<1>4. Good(EndRename(b1)) BY <1>3, EndGood DEF Good
<1> QED BY <1>2, <1>3, <1>4

(* Starting an upload, or refusing to. *)
LEMMA UploadInternalGood ==
    ASSUME NEW d, Good(d), NEW s, NEW isRename \in BOOLEAN, NEW force \in BOOLEAN
    PROVE  Good(UploadToStorageInternal(d, s, isRename, force))
<1> DEFINE r == [t |-> d.uploading.t, rename |-> isRename, s |-> s, complete |-> FALSE]
           lf == d.forced \/ force
           b1 == [d EXCEPT !.uploadRequest = r, !.lastForced = lf,
                           !.forced = FALSE, !.uploadActive = TRUE]
           h == [file |-> d.uploading, rename |-> isRename, s |-> s,
                 ts |-> IF b1.lastForced THEN UnSafe ELSE d.storageTime,
                 res |-> "queued", t |-> NoTime]
           refused == [UploadError(b1) EXCEPT !.sizeAsUploaded = NoSize]
           sent == [b1 EXCEPT !.http = h, !.sizeAsUploaded = d.uploading.c]
<1>1. d \in Broker BY DEF Good
<1>2. UploadToStorageInternal(d, s, isRename, force)
        = IF s \notin d.editable THEN d
          ELSE IF IsAsyncUploading(d) \/ d.uploading = NoFile THEN refused ELSE sent
  BY Zenon DEF UploadToStorageInternal
<1>3. ASSUME s \in d.editable PROVE Good(refused) /\ Good(sent)
  <2>1. s \in Session BY <1>1, <1>3 DEF Broker
  <2>2. d.uploading.t \in Int /\ d.uploading.c \in Int /\ d.uploading \in File
    BY <1>1 DEF Broker, File
  <2>3. r \in UploadRequest BY <2>1, <2>2 DEF UploadRequest
  <2>4. lf \in BOOLEAN OBVIOUS
  <2>5. d.storageTime \in Int /\ UnSafe \in Int /\ NoTime \in Int /\ NoSize \in Int
    BY <1>1 DEF Broker, UnSafe, NoTime, NoSize
  <2> HIDE DEF r, lf
  <2>6. b1 \in Broker BY <1>1, <2>3, <2>4, ZenonT(60) DEF Broker
  <2>7. b1.activity = d.activity /\ b1.saving = d.saving /\ b1.uploadRequest = r
    BY <1>1 DEF Broker
  <2>8. Good(b1) BY <2>6, <2>7 DEF Good, SaveMarked
  <2> HIDE DEF b1
  <2>9. Good(UploadError(b1)) BY <2>3, <2>7, <2>8, UploadErrorGood
  <2>10. ASSUME NEW x \in Broker, NEW y \in HttpUpload \cup {Null}, NEW z \in Int,
                Good(x)
         PROVE  /\ Good([x EXCEPT !.sizeAsUploaded = z])
                /\ Good([x EXCEPT !.http = y, !.sizeAsUploaded = z])
    <3> DEFINE e1 == [x EXCEPT !.sizeAsUploaded = z]
               e2 == [x EXCEPT !.http = y, !.sizeAsUploaded = z]
    <3>1. e1 \in Broker BY <2>10, ZenonT(60) DEF Broker
    <3>2. e1.activity = x.activity /\ e1.saving = x.saving BY <2>10 DEF Broker
    <3>3. e2 \in Broker BY <2>10, ZenonT(60) DEF Broker
    <3>4. e2.activity = x.activity /\ e2.saving = x.saving BY <2>10 DEF Broker
    <3> QED BY <2>10, <3>1, <3>2, <3>3, <3>4 DEF Good, SaveMarked
  <2>11. h \in HttpUpload
    <3>1. (IF b1.lastForced THEN UnSafe ELSE d.storageTime) \in Int BY <2>5
    <3>2. "queued" \in HttpResult BY DEF HttpResult
    <3> QED BY <2>1, <2>2, <2>5, <3>1, <3>2 DEF HttpUpload
  <2> HIDE DEF h
  <2>12. Good(refused) BY <2>5, <2>9, <2>10 DEF Good
  <2>13. Good(sent) BY <2>2, <2>6, <2>8, <2>10, <2>11
  <2> QED BY <2>12, <2>13
<1> HIDE DEF refused, sent
<1> QED BY <1>2, <1>3

(* The same for an upload that may have to wait, and for a rename. *)
LEMMA UploadGood ==
    ASSUME NEW d, Good(d), NEW s, NEW force \in BOOLEAN, NEW elapsed
    PROVE  Good(UploadToStorage(d, s, force, elapsed)) /\ Good(RenameInStorage(d))
<1>1. Good(UploadToStorageInternal(d, s, FALSE, force)) BY UploadInternalGood
<1>2. Good(UploadToStorageInternal(d, d.renameSession, TRUE, FALSE))
  BY UploadInternalGood
<1>3. Good(EndRename(d)) BY EndGood DEF Good
<1> QED BY <1>1, <1>2, <1>3 DEF UploadToStorage, RenameInStorage

(* After a save was answered the broker may be in the Save activity without *)
(* a save: this is where that ends, on every path.                          *)
LEMMA CheckAndUploadGood ==
    ASSUME NEW d \in Broker, NEW s, NEW justSaved, NEW elapsed
    PROVE  Good(CheckAndUploadToStorage(d, s, justSaved, elapsed))
<1> DEFINE b1 == EndSave(d)
           modified == IF justSaved THEN d.modifiedAfterSave ELSE NeedToSaveToDisk(d)
<1>1. CheckAndUploadToStorage(d, s, justSaved, elapsed)
        = IF d.activity = "Rename" /\ ~NeedToUploadToStorage(d) THEN RenameInStorage(d)
          ELSE IF modified /\ IsUnloading(d)
          THEN Check(b1, CanSaveToDisk(d), "CanSaveAgain")
          ELSE IF NeedToUploadToStorage(d) THEN UploadToStorage(b1, s, FALSE, elapsed)
          ELSE IF IsAsyncUploading(d) THEN b1
          ELSE DisconnectClosedSessions(b1)
  BY Zenon DEF CheckAndUploadToStorage
<1>2. Good(b1) BY EndGood
<1>3. ASSUME d.activity = "Rename" PROVE Good(RenameInStorage(d))
  <2>1. Good(d) BY <1>3 DEF Good, SaveMarked
  <2> QED BY <2>1, UploadGood
<1> HIDE DEF b1, modified
<1>4. Good(Check(b1, CanSaveToDisk(d), "CanSaveAgain"))
  BY <1>2, CheckGood DEF Assertion
<1>5. Good(UploadToStorage(b1, s, FALSE, elapsed)) BY <1>2, UploadGood
<1>6. Good(DisconnectClosedSessions(b1)) BY <1>2, ClosedGood
<1> QED BY <1>1, <1>2, <1>3, <1>4, <1>5, <1>6

-----------------------------------------------------------------------------
(* Responses. *)

(* The answer to a save. *)
LEMMA SaveResponseGood ==
    ASSUME NEW d, Good(d), NEW s, NEW result, NEW elapsed
    PROVE  Good(HandleSaveResponse(d, s, result, elapsed))
<1> DEFINE saved == result \in {"true", "unmodified"}
           new == result = "true"
           b1 == SetLastSaveResult(d, saved, new)
           e == [b1 EXCEPT !.uploading = b1.upload, !.upload = NoFile]
           b2 == IF b1.upload = NoFile THEN b1 ELSE e
<1>1. HandleSaveResponse(d, s, result, elapsed)
        = CheckAndUploadToStorage(b2, s, saved, elapsed)
  BY Zenon DEF HandleSaveResponse
<1>2. saved \in BOOLEAN /\ new \in BOOLEAN OBVIOUS
<1> HIDE DEF saved, new
<1>3. b1 \in Broker BY <1>2, SaveResultType DEF Good
<1> HIDE DEF b1
<1>4. NoFile \in File BY DEF NoFile, File, NoTime
<1>5. e \in Broker BY <1>3, <1>4, ZenonT(60) DEF Broker
<1>6. b2 \in Broker BY <1>3, <1>5
<1> HIDE DEF b2
<1> QED BY <1>1, <1>6, CheckAndUploadGood

(* An upload that was stored. *)
LEMMA UploadSuccessfulGood ==
    ASSUME NEW d, Good(d), d.uploadRequest \in UploadRequest, NEW t \in Int
    PROVE  Good(HandleUploadSuccessful(d, t))
<1> DEFINE rt == d.uploadRequest.t
           b1 == [d EXCEPT !.lastUploadedTime = rt, !.serverTime = t,
                           !.changedInStorage = FALSE, !.lastForced = FALSE]
           b2 == IF d.uploadRequest.rename THEN EndRename(d)
                 ELSE IF d.activity = "Rename" THEN RenameInStorage(b1) ELSE b1
           b3 == IF b2.unloadRequested THEN MarkToDestroy(b2) ELSE b2
           b4 == IF /\ b3.status = "Destroying" \/ b3.sessions = {}
                    /\ ~IsPossiblyModified(b3)
                 THEN Stop(b3) ELSE b3
<1>1. HandleUploadSuccessful(d, t) = DisconnectClosedSessions(b4)
  BY Zenon DEF HandleUploadSuccessful
<1>2. d \in Broker /\ rt \in Int BY DEF Good, UploadRequest
<1> HIDE DEF rt
<1>3. b1 \in Broker BY <1>2, ZenonT(60) DEF Broker
<1>4. b1.activity = d.activity /\ b1.saving = d.saving BY <1>2 DEF Broker
<1>5. Good(b1) BY <1>3, <1>4 DEF Good, SaveMarked
<1> HIDE DEF b1
<1>6. Good(EndRename(d)) BY <1>2, EndGood
<1>7. Good(RenameInStorage(b1)) BY <1>5, UploadGood
<1>8. Good(b2) BY <1>5, <1>6, <1>7
<1> HIDE DEF b2
<1>9. Good(b3) BY <1>8, StopGood
<1> HIDE DEF b3
<1>10. Good(b4) BY <1>9, StopGood
<1> HIDE DEF b4
<1> QED BY <1>1, <1>10, ClosedGood

(* An upload that was not. *)
LEMMA UploadFailedGood ==
    ASSUME NEW d, Good(d),
           NEW result \in {"TOO_LARGE", "UNAUTHORIZED", "FAILED", "CONFLICT"}
    PROVE  Good(HandleUploadFailed(d, result))
<1> DEFINE b1 == IF d.activity = "Rename" THEN EndRename(d) ELSE d
           ro == [b1 EXCEPT !.editable = b1.editable \ d.sessions]
           un == [b1 EXCEPT !.authorized =
                              b1.authorized \ ({d.uploadRequest.s} \cap d.sessions)]
           sy == [b1 EXCEPT !.activity = "SyncFileTimestamp"]
           b2 == CASE result = "TOO_LARGE" -> ro
                   [] result = "UNAUTHORIZED" -> un
                   [] result = "FAILED" -> sy
                   [] result = "CONFLICT" -> HandleDocumentConflict(b1)
           v == b2.forced \/ b2.lastForced
           e == [b2 EXCEPT !.forced = v, !.lastForced = FALSE]
<1>1. HandleUploadFailed(d, result) = e BY Zenon DEF HandleUploadFailed
<1>2. Good(EndRename(d)) BY EndGood DEF Good
<1>3. Good(b1) BY <1>2
<1> HIDE DEF b1
<1>4. b1 \in Broker BY <1>3 DEF Good
<1>5. Good(ro)
  <2>1. b1.editable \ d.sessions \in SUBSET Session BY <1>4 DEF Broker
  <2>2. ro \in Broker BY <1>4, <2>1, ZenonT(60) DEF Broker
  <2>3. ro.activity = b1.activity /\ ro.saving = b1.saving BY <1>4 DEF Broker
  <2> QED BY <1>3, <2>2, <2>3 DEF Good, SaveMarked
<1>6. Good(un)
  <2> DEFINE S == b1.authorized \ ({d.uploadRequest.s} \cap d.sessions)
  <2>1. S \in SUBSET Session BY <1>4 DEF Broker
  <2> HIDE DEF S
  <2>2. [b1 EXCEPT !.authorized = S] \in Broker BY <1>4, <2>1, ZenonT(60) DEF Broker
  <2>3. /\ [b1 EXCEPT !.authorized = S].activity = b1.activity
        /\ [b1 EXCEPT !.authorized = S].saving = b1.saving
    BY <1>4 DEF Broker
  <2>4. Good([b1 EXCEPT !.authorized = S]) BY <1>3, <2>2, <2>3 DEF Good, SaveMarked
  <2> QED BY <2>4 DEF S
<1>7. Good(sy)
  <2>1. sy \in Broker BY <1>4, ZenonT(60) DEF Broker, Activity
  <2>2. sy.activity = "SyncFileTimestamp" BY <1>4 DEF Broker
  <2> QED BY <2>1, <2>2 DEF Good, SaveMarked
<1>8. Good(HandleDocumentConflict(b1)) BY <1>3, DocumentGood
<1> HIDE DEF ro, un, sy
<1>9. Good(b2)
  <2>1. CASE result = "TOO_LARGE" BY <1>5, <2>1
  <2>2. CASE result = "UNAUTHORIZED" BY <1>6, <2>2
  <2>3. CASE result = "FAILED" BY <1>7, <2>3
  <2>4. CASE result = "CONFLICT" BY <1>8, <2>4
  <2> QED BY <2>1, <2>2, <2>3, <2>4
<1> HIDE DEF b2
<1>10. v \in BOOLEAN OBVIOUS
<1> HIDE DEF v
<1>11. b2 \in Broker BY <1>9 DEF Good
<1>12. e \in Broker BY <1>10, <1>11, ZenonT(60) DEF Broker
<1>13. e.activity = b2.activity /\ e.saving = b2.saving BY <1>11 DEF Broker
<1> QED BY <1>1, <1>9, <1>12, <1>13 DEF Good, SaveMarked

(* The end of an upload that was answered. *)
LEMMA UploadFinishedGood ==
    ASSUME NEW d, Good(d), d.http # Null, d.http.res \notin {"queued", "pending"}
    PROVE  Good(UploadFinished(d))
<1> DEFINE res == d.http.res
           st == StorageTimeAfter(d)
           b1 == [d EXCEPT !.http = Null, !.storageTime = st]
           c == [b1 EXCEPT !.uploadRequest.complete = TRUE]
           ok == res = "OK"
           b2 == SetLastUploadResult(c, ok)
<1>1. UploadFinished(d)
        = IF d.uploadRequest = Null THEN b1
          ELSE IF res = "Error" THEN UploadError(b1)
          ELSE IF res = "OK" THEN HandleUploadSuccessful(b2, b1.storageTime)
          ELSE HandleUploadFailed(b2, res)
  BY Zenon DEF UploadFinished
<1>2. d \in Broker BY DEF Good
<1>3. d.http \in HttpUpload BY <1>2 DEF Broker
<1>4. res \in HttpResult /\ d.http.t \in Int BY <1>3 DEF HttpUpload
<1>5. st \in Int BY <1>2, <1>4 DEF StorageTimeAfter, UnSafe, Broker
<1>6. ok \in BOOLEAN OBVIOUS
<1> HIDE DEF st, ok
<1>7. b1 \in Broker BY <1>2, <1>5, ZenonT(60) DEF Broker
<1>8. /\ b1.activity = d.activity /\ b1.saving = d.saving
      /\ b1.uploadRequest = d.uploadRequest /\ b1.storageTime = st
  BY <1>2 DEF Broker
<1>9. Good(b1) BY <1>7, <1>8 DEF Good, SaveMarked
<1> HIDE DEF b1
<1>10. ASSUME d.uploadRequest # Null
       PROVE  /\ Good(UploadError(b1))
              /\ Good(HandleUploadSuccessful(b2, b1.storageTime))
              /\ res \notin {"OK", "Error"} => Good(HandleUploadFailed(b2, res))
  <2>1. b1.uploadRequest \in UploadRequest BY <1>2, <1>8, <1>10 DEF Broker
  <2>2. Good(UploadError(b1)) BY <1>9, <2>1, UploadErrorGood
  <2>3. Good(c) /\ c.uploadRequest \in UploadRequest BY <1>9, <2>1, CompleteGood
  <2> HIDE DEF c
  <2>4. Good(b2) BY <1>6, <2>3, UploadResultGood
  <2>5. b2.uploadRequest = c.uploadRequest
    BY <2>3 DEF SetLastUploadResult, Good, Broker
  <2> HIDE DEF b2
  <2>6. Good(HandleUploadSuccessful(b2, b1.storageTime))
    BY <1>5, <1>8, <2>3, <2>4, <2>5, UploadSuccessfulGood
  <2>7. ASSUME res \notin {"OK", "Error"} PROVE Good(HandleUploadFailed(b2, res))
    <3>1. res \in {"TOO_LARGE", "UNAUTHORIZED", "FAILED", "CONFLICT"}
      BY <1>4, <2>7 DEF HttpResult
    <3> QED BY <2>4, <3>1, UploadFailedGood
  <2> QED BY <2>2, <2>6, <2>7
<1> HIDE DEF b2, res
<1> QED BY <1>1, <1>9, <1>10

(* The answer to CheckFileInfo ends the activity that asked for it. *)
LEMMA CheckFileInfoGood ==
    ASSUME NEW d \in Broker, d.checkFileInfo # Null,
           NEW answer \in {"Pass", "Unauthorized", "Fail"}, NEW t \in Int, NEW c
    PROVE  Good(CheckFileInfoFinished(d, answer, t, c))
<1> DEFINE k == Check(EndActivity(d), d.activity = "SyncFileTimestamp", "CfiInSync")
           b1 == [k EXCEPT !.checkFileInfo.done = TRUE]
           A == b1.authorized \ ({d.checkFileInfo.s} \cap d.sessions)
           pass == IF d.sizeAsUploaded = c
                   THEN [b1 EXCEPT !.storageTime = t, !.serverTime = t]
                   ELSE HandleDocumentConflict(b1)
           unauthorized == [b1 EXCEPT !.storageTime = UnSafe, !.authorized = A]
           fail == [b1 EXCEPT !.storageTime = UnSafe]
<1>1. CheckFileInfoFinished(d, answer, t, c)
        = CASE answer = "Pass" -> pass
            [] answer = "Unauthorized" -> unauthorized
            [] answer = "Fail" -> fail
  BY Zenon DEF CheckFileInfoFinished
<1>2. Good(k) BY EndGood, CheckGood DEF Assertion
<1>3. k.checkFileInfo \in CheckFileInfo BY DEF Check, EndActivity, Broker
<1> HIDE DEF k
<1>4. b1 \in Broker /\ b1.activity = k.activity /\ b1.saving = k.saving
  <2> DEFINE r == [k.checkFileInfo EXCEPT !.done = TRUE]
  <2>1. r \in CheckFileInfo BY <1>3 DEF CheckFileInfo
  <2>2. b1 = [k EXCEPT !.checkFileInfo = r] OBVIOUS
  <2>3. k \in Broker BY <1>2 DEF Good
  <2> HIDE DEF r, b1
  <2>4. [k EXCEPT !.checkFileInfo = r] \in Broker BY <2>1, <2>3, ZenonT(60) DEF Broker
  <2>5. /\ [k EXCEPT !.checkFileInfo = r].activity = k.activity
        /\ [k EXCEPT !.checkFileInfo = r].saving = k.saving
    BY <2>3 DEF Broker
  <2> QED BY <2>2, <2>4, <2>5
<1>5. Good(b1) BY <1>2, <1>4 DEF Good, SaveMarked
<1> HIDE DEF b1
<1>6. A \in SUBSET Session BY <1>4 DEF Broker
<1> HIDE DEF A
<1>7. UnSafe \in Int BY DEF UnSafe
<1>8. Good(pass)
  <2> DEFINE e == [b1 EXCEPT !.storageTime = t, !.serverTime = t]
  <2>1. e \in Broker BY <1>4, ZenonT(60) DEF Broker
  <2>2. e.activity = b1.activity /\ e.saving = b1.saving BY <1>4 DEF Broker
  <2>3. Good(e) BY <1>5, <2>1, <2>2 DEF Good, SaveMarked
  <2>4. Good(HandleDocumentConflict(b1)) BY <1>5, DocumentGood
  <2> QED BY <2>3, <2>4
<1>9. Good(unauthorized)
  <2>1. unauthorized \in Broker BY <1>4, <1>6, <1>7, ZenonT(60) DEF Broker
  <2>2. unauthorized.activity = b1.activity /\ unauthorized.saving = b1.saving
    BY <1>4 DEF Broker
  <2> QED BY <1>5, <2>1, <2>2 DEF Good, SaveMarked
<1>10. Good(fail)
  <2>1. fail \in Broker BY <1>4, <1>7, ZenonT(60) DEF Broker
  <2>2. fail.activity = b1.activity /\ fail.saving = b1.saving BY <1>4 DEF Broker
  <2> QED BY <1>5, <2>1, <2>2 DEF Good, SaveMarked
<1> HIDE DEF pass, unauthorized, fail
<1>11. CASE answer = "Pass" BY <1>1, <1>8, <1>11
<1>12. CASE answer = "Unauthorized" BY <1>1, <1>9, <1>12
<1>13. CASE answer = "Fail" BY <1>1, <1>10, <1>13
<1> QED BY <1>11, <1>12, <1>13

-----------------------------------------------------------------------------
(* Unloading. *)

(* Saving, uploading or stopping on the way out. *)
LEMMA AutoSaveAndStopGood ==
    ASSUME NEW d, Good(d), NEW w, NEW saveNow, NEW waited, NEW elapsed
    PROVE  Good(AutoSaveAndStop(d, w, saveNow, waited, elapsed))
<1> DEFINE force == IsPossiblyModified(d) \/ d.saveFailures > 0
<1>1. Good(Stop(d)) BY StopGood
<1>2. Good(AutoSave(d, w, force, FALSE)) BY AutoSaveGood
<1>3. Good(CheckAndUploadToStorage(d, w, FALSE, elapsed)) BY CheckAndUploadGood DEF Good
<1>4. AutoSaveAndStop(d, w, saveNow, waited, elapsed)
        = IF d.saving \/ IsAsyncUploading(d) THEN d
          ELSE IF CanStop(d) THEN Stop(d)
          ELSE IF OnlyModifiedFlagLeft(d) THEN IF waited THEN Stop(d) ELSE d
          ELSE IF ~saveNow THEN d
          ELSE IF AutoSaveResult(d, force, FALSE) THEN AutoSave(d, w, force, FALSE)
          ELSE IF w \in d.authorized
          THEN CheckAndUploadToStorage(d, w, FALSE, elapsed)
          ELSE Stop(d)
  BY Zenon DEF AutoSaveAndStop
<1> HIDE DEF force
<1> QED BY <1>1, <1>2, <1>3, <1>4

-----------------------------------------------------------------------------
(* The inductive invariant. *)
Inv ==
    /\ Good(b)
    /\ kit \in Kit
    /\ srv \in Storage
    /\ left \in Budget

-----------------------------------------------------------------------------
(* A change of other fields keeps the broker good. *)
LEMMA OtherFields ==
    ASSUME NEW d, Good(d), NEW e \in Broker, e.activity = d.activity, e.saving = d.saving
    PROVE  Good(e)
BY DEF Good, SaveMarked

(* Using up one of the bounded events. *)
LEMMA BudgetType ==
    ASSUME left \in Budget
    PROVE  /\ left.edits > 0 => [left EXCEPT !.edits = @ - 1] \in Budget
           /\ left.commands > 0 => [left EXCEPT !.commands = @ - 1] \in Budget
           /\ left.forces > 0 => [left EXCEPT !.forces = @ - 1] \in Budget
           /\ left.renames > 0 => [left EXCEPT !.renames = @ - 1] \in Budget
           /\ left.timeouts > 0 => [left EXCEPT !.timeouts = @ - 1] \in Budget
           /\ left.failed > 0 => [left EXCEPT !.failed = @ - 1] \in Budget
           /\ left.changes > 0 => [left EXCEPT !.changes = @ - 1] \in Budget
BY DEF Budget

(* The first states. *)
LEMMA InitInv == Init => Inv
<1> SUFFICES ASSUME Init PROVE Inv OBVIOUS
<1>1. NewBroker \in Broker
  <2>1. /\ UnSafe \in Int /\ NoSize \in Int /\ NoFile \in File
    BY DEF UnSafe, NoSize, NoFile, NoTime, File
  <2>2. <<>> \in Seq(KitCommand) OBVIOUS
  <2>3. [s \in Session |-> "DETACHED"] \in [Session -> SessionState]
    BY DEF SessionState
  <2> QED BY <2>1, <2>2, <2>3 DEF NewBroker, Broker, Status, Activity, KitDisconnected
<1>2. NewBroker.activity = "None" BY DEF NewBroker
<1>3. Good(b) BY <1>1, <1>2 DEF Init, Good, SaveMarked
<1>4. kit \in Kit
  <2>1. <<>> \in Seq(KitMessage) OBVIOUS
  <2> QED BY <2>1 DEF Init, Kit, File
<1>5. srv \in Storage BY DEF Init, Storage
<1>6. left \in Budget BY BoundAssumption DEF Init, Budget
<1> QED BY <1>3, <1>4, <1>5, <1>6 DEF Inv

-----------------------------------------------------------------------------
(* The clients. *)

(* A session is added and its load is sent to the Kit. *)
LEMMA AddSessionInv ==
    ASSUME Inv, NEW s \in Session, AddSession(s)
    PROVE  Inv'
<1> DEFINE b1 == [b EXCEPT !.unloadRequested = FALSE]
           f == [b1 EXCEPT !.status = "Loading", !.serverTime = srv.t,
                           !.storageTime = srv.t]
           b2 == IF b.status = "None" THEN f
                 ELSE IF srv.t # b.serverTime /\ b.uploadRequest = Null
                 THEN HandleDocumentConflict(b1) ELSE b1
           S == b2.sessions \cup {s}
           T == [b2.state EXCEPT ![s] = "LOADING"]
           C == b2.connected \cup {s}
           A == b2.authorized \cup {s}
           E == b2.editable \cup ({s} \ ReadOnly)
           b3 == [b2 EXCEPT !.sessions = S, !.state = T, !.connected = C,
                            !.authorized = A, !.editable = E]
<1>1. b' = ForwardToChild(b3, Command("load", s, FALSE))
  BY Zenon DEF AddSession
<1>2. Good(b) /\ srv.t \in Int BY DEF Inv, Storage
<1>3. Good(b1) BY <1>2, UnloadGood
<1>4. b1 \in Broker BY <1>3 DEF Good
<1> HIDE DEF b1
<1>5. f \in Broker BY <1>2, <1>4, ZenonT(60) DEF Broker, Status
<1>6. f.activity = b1.activity /\ f.saving = b1.saving BY <1>4 DEF Broker
<1>7. Good(f) BY <1>3, <1>5, <1>6, OtherFields
<1> HIDE DEF f
<1>8. Good(b2) BY <1>3, <1>7, DocumentGood
<1>9. b2 \in Broker BY <1>8 DEF Good
<1> HIDE DEF b2
<1>10. /\ S \in SUBSET Session /\ C \in SUBSET Session
       /\ A \in SUBSET Session /\ E \in SUBSET Session
  BY <1>9 DEF Broker
<1>11. T \in [Session -> SessionState] BY <1>9 DEF Broker, SessionState
<1> HIDE DEF S, T, C, A, E
<1>12. b3 \in Broker BY <1>9, <1>10, <1>11, ZenonT(60) DEF Broker
<1>13. b3.activity = b2.activity /\ b3.saving = b2.saving BY <1>9 DEF Broker
<1> HIDE DEF b3
<1>14. Command("load", s, FALSE) \in KitCommand BY CommandType
<1>15. /\ b' \in Broker
       /\ b'.activity = b2.activity /\ b'.saving = b2.saving
  BY <1>1, <1>12, <1>13, <1>14, ForwardGood
<1>16. Good(b') BY <1>8, <1>15, OtherFields
<1>17. UNCHANGED <<kit, srv, left>> BY DEF AddSession
<1> QED BY <1>16, <1>17 DEF Inv, Good, SaveMarked

(* A session that could not be added. *)
LEMMA AddSessionFailsInv ==
    ASSUME Inv, NEW s \in Session, AddSessionFails(s)
    PROVE  Inv'
<1> DEFINE b1 == [b EXCEPT !.unloadRequested = FALSE]
<1>1. b' = IF b.sessions = {} THEN MarkToDestroy(b1) ELSE b1
  BY Zenon DEF AddSessionFails
<1>2. Good(b1) BY UnloadGood DEF Inv
<1> HIDE DEF b1
<1>3. Good(b') BY <1>1, <1>2, StopGood
<1>4. UNCHANGED <<kit, srv, left>> BY DEF AddSessionFails
<1> QED BY <1>3, <1>4 DEF Inv, Good, SaveMarked

(* A client goes, or asks for its session to be removed. *)
LEMMA LeaveInv ==
    ASSUME Inv, NEW s \in Session, ClientDisconnects(s) \/ ClientRemovesSession(s)
    PROVE  Inv'
<1>1. CASE ClientDisconnects(s)
  <2>1. PICK w \in WriteableSession(b) :
          b' = [RemoveSession(b, s, w) EXCEPT !.connected = @ \ {s},
                                              !.closeFrame = @ \cup {s}]
    BY <1>1 DEF ClientDisconnects
  <2> DEFINE d == RemoveSession(b, s, w)
             C == d.connected \ {s}
             F == d.closeFrame \cup {s}
             e == [d EXCEPT !.connected = C, !.closeFrame = F]
  <2>2. Good(d) BY RemoveSessionGood DEF Inv
  <2>3. b' = e BY <2>1, Zenon
  <2> HIDE DEF d
  <2>4. d \in Broker BY <2>2 DEF Good
  <2>5. C \in SUBSET Session /\ F \in SUBSET Session BY <2>4 DEF Broker
  <2> HIDE DEF C, F
  <2>6. e \in Broker BY <2>4, <2>5, ZenonT(60) DEF Broker
  <2>7. e.activity = d.activity /\ e.saving = d.saving BY <2>4 DEF Broker
  <2> HIDE DEF e
  <2>8. Good(b') BY <2>2, <2>3, <2>6, <2>7, OtherFields
  <2>9. UNCHANGED <<kit, srv, left>> BY <1>1 DEF ClientDisconnects
  <2> QED BY <2>8, <2>9 DEF Inv, Good, SaveMarked
<1>2. CASE ClientRemovesSession(s)
  <2>1. PICK w \in WriteableSession(b) : b' = RemoveSession(b, s, w)
    BY <1>2 DEF ClientRemovesSession
  <2>2. Good(b') BY <2>1, RemoveSessionGood DEF Inv
  <2>3. left' \in Budget BY <1>2, BudgetType DEF ClientRemovesSession, Inv
  <2>4. UNCHANGED <<kit, srv>> BY <1>2 DEF ClientRemovesSession
  <2> QED BY <2>2, <2>3, <2>4 DEF Inv, Good, SaveMarked
<1> QED BY <1>1, <1>2

(* A message that may modify the document. *)
LEMMA EditInv ==
    ASSUME Inv, NEW s \in Session, NEW isKey \in BOOLEAN, Edit(s, isKey)
    PROVE  Inv'
<1> DEFINE b1 == [b EXCEPT !.modifiedAfterSave = TRUE, !.lastEditing = s]
<1>1. b' = IF isKey /\ IsUnloading(b) THEN b1
           ELSE ForwardToChild(b1, Command("edit", s, FALSE))
  BY Zenon DEF Edit
<1>2. Good(b) /\ b \in Broker BY DEF Inv, Good
<1>3. b1 \in Broker BY <1>2, ZenonT(60) DEF Broker
<1>4. b1.activity = b.activity /\ b1.saving = b.saving BY <1>2 DEF Broker
<1> HIDE DEF b1
<1>5. Command("edit", s, FALSE) \in KitCommand BY CommandType
<1>6. b' \in Broker /\ b'.activity = b.activity /\ b'.saving = b.saving
  BY <1>1, <1>3, <1>4, <1>5, ForwardGood
<1>7. Good(b') BY <1>2, <1>6, OtherFields
<1>8. left' \in Budget BY BudgetType DEF Edit, Inv
<1>9. UNCHANGED <<kit, srv>> BY DEF Edit
<1> QED BY <1>7, <1>8, <1>9 DEF Inv, Good, SaveMarked

(* A save by a client. *)
LEMMA ManualSaveInv ==
    ASSUME Inv, NEW s \in Session, NEW dsiu \in BOOLEAN, ManualSave(s, dsiu)
    PROVE  Inv'
<1>1. Good(SendUnoSave(b, s, dsiu)) BY SendUnoSaveGood DEF Inv
<1>2. Good(b') BY <1>1 DEF ManualSave, Inv
<1>3. left' \in Budget BY BudgetType DEF ManualSave, Inv
<1>4. UNCHANGED <<kit, srv>> BY DEF ManualSave
<1> QED BY <1>2, <1>3, <1>4 DEF Inv, Good, SaveMarked

(* A save by the admin. *)
LEMMA AdminSaveInv ==
    ASSUME Inv, AdminSave
    PROVE  Inv'
<1>1. PICK w \in WriteableSession(b) : b' = AutoSave(b, w, TRUE, FALSE)
  BY DEF AdminSave
<1>2. Good(b') BY <1>1, AutoSaveGood DEF Inv
<1>3. left' \in Budget BY BudgetType DEF AdminSave, Inv
<1>4. UNCHANGED <<kit, srv>> BY DEF AdminSave
<1> QED BY <1>2, <1>3, <1>4 DEF Inv, Good, SaveMarked

(* Starting a rename, which saves first. *)
LEMMA StartRenameGood ==
    ASSUME NEW d, d \in Broker
    PROVE  Good(StartRename(d))
<1> DEFINE e == [d EXCEPT !.activity = "Rename"]
<1>1. e \in Broker BY DEF Broker, Activity
<1>2. e.activity = "Rename" BY DEF Broker
<1>3. Good(e) BY <1>1, <1>2 DEF Good, SaveMarked
<1>4. Good(EndRename(d)) BY EndGood
<1>5. StartRename(d) = IF d.renameSession \in d.sessions
                       THEN SendUnoSave(e, d.renameSession, TRUE) ELSE EndRename(d)
  BY Zenon DEF StartRename
<1> HIDE DEF e
<1>6. Good(SendUnoSave(e, d.renameSession, TRUE)) BY <1>3, SendUnoSaveGood
<1> QED BY <1>4, <1>5, <1>6

(* Uploads and renames that a client asks for. *)
LEMMA StoreInv ==
    ASSUME Inv, NEW s \in Session, SaveToStorage(s) \/ RenameFile(s)
    PROVE  Inv'
<1>1. Good(b) /\ b \in Broker BY DEF Inv, Good
<1>2. CASE SaveToStorage(s)
  <2>1. Good(b') BY <1>1, <1>2, UploadGood DEF SaveToStorage
  <2>2. left' \in Budget BY <1>2, BudgetType DEF SaveToStorage, Inv
  <2>3. UNCHANGED <<kit, srv>> BY <1>2 DEF SaveToStorage
  <2> QED BY <2>1, <2>2, <2>3 DEF Inv, Good, SaveMarked
<1>3. CASE RenameFile(s)
  <2> DEFINE b1 == [b EXCEPT !.renameSession = s]
  <2>1. b' = IF b.activity = "None" THEN StartRename(b1) ELSE b1
    BY <1>3, Zenon DEF RenameFile
  <2>2. b1 \in Broker BY <1>1, ZenonT(60) DEF Broker
  <2>3. b1.activity = b.activity /\ b1.saving = b.saving BY <1>1 DEF Broker
  <2> HIDE DEF b1
  <2>4. Good(b1) BY <1>1, <2>2, <2>3, OtherFields
  <2>5. Good(b') BY <2>1, <2>2, <2>4, StartRenameGood
  <2>6. left' \in Budget BY <1>3, BudgetType DEF RenameFile, Inv
  <2>7. UNCHANGED <<kit, srv>> BY <1>3 DEF RenameFile
  <2> QED BY <2>5, <2>6, <2>7 DEF Inv, Good, SaveMarked
<1> QED BY <1>2, <1>3

(* Closing the document. *)
LEMMA CloseInv ==
    ASSUME Inv, RequestClose
    PROVE  Inv'
<1>1. Good(b') BY DocumentGood DEF RequestClose, Inv
<1>2. UNCHANGED <<kit, srv, left>> BY DEF RequestClose
<1> QED BY <1>1, <1>2 DEF Inv, Good, SaveMarked

(* Discarding the changes and losing the access token. *)
LEMMA DiscardInv ==
    ASSUME Inv, NEW s \in Session, DiscardChanges(s) \/ TokenExpires(s)
    PROVE  Inv'
<1>1. Good(b) /\ b \in Broker BY DEF Inv, Good
<1>2. Good(b')
  <2>1. CASE DiscardChanges(s) BY <1>1, <2>1, StopGood DEF DiscardChanges
  <2>2. CASE TokenExpires(s)
    <3> DEFINE A == b.authorized \ {s}
               e == [b EXCEPT !.authorized = A]
    <3>1. A \in SUBSET Session BY <1>1 DEF Broker
    <3>2. b' = e BY <2>2, Zenon DEF TokenExpires
    <3> HIDE DEF A
    <3>3. e \in Broker BY <1>1, <3>1, ZenonT(60) DEF Broker
    <3>4. e.activity = b.activity /\ e.saving = b.saving BY <1>1 DEF Broker
    <3> QED BY <1>1, <3>2, <3>3, <3>4, OtherFields
  <2> QED BY <2>1, <2>2
<1>3. UNCHANGED <<kit, srv, left>> BY DEF DiscardChanges, TokenExpires
<1> QED BY <1>2, <1>3 DEF Inv, Good, SaveMarked

(* All of them. *)
LEMMA ClientInv == Inv /\ ClientStep => Inv'
BY AddSessionInv, AddSessionFailsInv, LeaveInv, EditInv, ManualSaveInv,
   AdminSaveInv, StoreInv, CloseInv, DiscardInv
   DEF ClientStep

-----------------------------------------------------------------------------
(* The Kit. *)

(* Taking a command from the queue, and handing over a copy of the document. *)
LEMMA HandOver ==
    ASSUME Inv, NEW f \in File
    PROVE  /\ b.toKit # <<>> => Good(Rest) /\ Good([Rest EXCEPT !.upload = f])
           /\ Good([b EXCEPT !.upload = f])
<1>1. Good(b) /\ b \in Broker BY DEF Inv, Good
<1>2. ASSUME NEW d, Good(d), NEW g \in File PROVE Good([d EXCEPT !.upload = g])
  <2>1. d \in Broker BY <1>2 DEF Good
  <2>2. [d EXCEPT !.upload = g] \in Broker BY <2>1, ZenonT(60) DEF Broker
  <2>3. /\ [d EXCEPT !.upload = g].activity = d.activity
        /\ [d EXCEPT !.upload = g].saving = d.saving
    BY <2>1 DEF Broker
  <2> QED BY <1>2, <2>2, <2>3, OtherFields
<1>3. ASSUME b.toKit # <<>> PROVE Good(Rest)
  <2> DEFINE q == Tail(b.toKit)
             e == [b EXCEPT !.toKit = q]
  <2>1. q \in Seq(KitCommand) BY <1>1, <1>3 DEF Broker
  <2>2. Rest = e BY Zenon DEF Rest
  <2> HIDE DEF q
  <2>3. e \in Broker BY <1>1, <2>1, ZenonT(60) DEF Broker
  <2>4. e.activity = b.activity /\ e.saving = b.saving BY <1>1 DEF Broker
  <2> QED BY <1>1, <2>2, <2>3, <2>4, OtherFields
<1> HIDE DEF Rest
<1> QED BY <1>1, <1>2, <1>3

(* The next command is one, and its session is a session. *)
LEMMA CmdType ==
    ASSUME Inv, b.toKit # <<>>
    PROVE  Cmd \in KitCommand /\ Cmd.s \in Session
<1>1. b.toKit \in Seq(KitCommand) BY DEF Inv, Good, Broker
<1>2. Head(b.toKit) \in KitCommand BY <1>1
<1> QED BY <1>2 DEF Cmd, KitCommand

(* Messages to the broker. *)
LEMMA TellType ==
    ASSUME NEW k \in {"status", "modified", "saved", "disconnected"},
           NEW s \in Session \cup {Null}, NEW v \in {"true", "false", "unmodified"}
    PROVE  Tell(k, s, v) \in KitMessage
BY DEF Tell, KitMessage

(* The Kit handles a command. *)
LEMMA KitCommandInv ==
    ASSUME Inv, KitLoad \/ KitEdit \/ KitSaveUnmodified \/ KitSaveStarts \/ KitDisconnect
    PROVE  Inv'
<1>1. kit \in Kit /\ b.toKit # <<>>
  BY DEF Inv, KitLoad, KitEdit, KitSaveUnmodified, KitSaveStarts, KitDisconnect, Heard
<1>2. Cmd.s \in Session BY <1>1, CmdType
<1>3. kit.doc \in File /\ kit.toBroker \in Seq(KitMessage) /\ kit.edits \in Nat
      /\ kit.views \in SUBSET Session /\ kit.modified \in BOOLEAN
  BY <1>1 DEF Kit
<1>4. Good(Rest) /\ Good([Rest EXCEPT !.upload = kit.doc]) BY <1>1, <1>3, HandOver
<1>5. Good(b') /\ UNCHANGED <<srv, left>>
  BY <1>4 DEF KitLoad, KitEdit, KitSaveUnmodified, KitSaveStarts, KitDisconnect
<1>6. kit' \in Kit
  <2>1. CASE KitLoad
    <3> DEFINE f == IF kit.views = {} THEN "true" ELSE "false"
               q == Append(kit.toBroker, Tell("status", Cmd.s, f))
               V == kit.views \cup {Cmd.s}
    <3>1. Tell("status", Cmd.s, f) \in KitMessage BY <1>2, TellType
    <3>2. kit' = [kit EXCEPT !.views = V, !.toBroker = q] BY <2>1, Zenon DEF KitLoad
    <3> HIDE DEF f
    <3>3. q \in Seq(KitMessage) /\ V \in SUBSET Session BY <1>2, <1>3, <3>1
    <3> HIDE DEF q, V
    <3> QED BY <1>1, <3>2, <3>3 DEF Kit
  <2>2. CASE KitEdit
    <3> DEFINE m == Tell("modified", Null, "true")
               q == IF kit.modified THEN kit.toBroker ELSE Append(kit.toBroker, m)
               n == kit.edits + 1
    <3>1. m \in KitMessage BY TellType
    <3>2. kit' = [kit EXCEPT !.edits = n, !.modified = TRUE, !.toBroker = q]
      BY <2>2, Zenon DEF KitEdit
    <3> HIDE DEF m
    <3>3. q \in Seq(KitMessage) /\ n \in Nat BY <1>3, <3>1
    <3> HIDE DEF q, n
    <3> QED BY <1>1, <3>2, <3>3 DEF Kit
  <2>3. CASE KitSaveUnmodified
    <3> DEFINE m == Tell("saved", Cmd.s, "unmodified")
               q == Append(kit.toBroker, m)
    <3>1. m \in KitMessage BY <1>2, TellType
    <3>2. kit' = [kit EXCEPT !.toBroker = q] BY <2>3, Zenon DEF KitSaveUnmodified
    <3> HIDE DEF m
    <3>3. q \in Seq(KitMessage) BY <1>3, <3>1
    <3> HIDE DEF q
    <3> QED BY <1>1, <3>2, <3>3 DEF Kit
  <2>4. CASE KitSaveStarts
    <3> DEFINE j == [s |-> Cmd.s, c |-> kit.edits, modified |-> kit.modified]
    <3>1. j \in KitSave BY <1>2, <1>3 DEF KitSave
    <3>2. kit' = [kit EXCEPT !.save = j, !.modified = FALSE]
      BY <2>4, Zenon DEF KitSaveStarts
    <3> HIDE DEF j
    <3> QED BY <1>1, <3>1, <3>2 DEF Kit
  <2>5. CASE KitDisconnect
    <3> DEFINE V == kit.views \ {Cmd.s}
               live == V # {}
               j == IF V = {} THEN Null ELSE kit.save
               m == Tell("disconnected", Cmd.s, "true")
               q == Append(kit.toBroker, m)
    <3>1. m \in KitMessage BY <1>2, TellType
    <3>2. kit' = [kit EXCEPT !.views = V, !.alive = live, !.save = j, !.toBroker = q]
      BY <2>5, Zenon DEF KitDisconnect
    <3> HIDE DEF m
    <3>3. q \in Seq(KitMessage) BY <1>3, <3>1
    <3>4. live \in BOOLEAN OBVIOUS
    <3>5. V \in SUBSET Session BY <1>3
    <3>6. j \in KitSave \cup {Null} BY <1>1 DEF Kit
    <3> HIDE DEF q, j, V, live
    <3> QED BY <1>1, <3>2, <3>3, <3>4, <3>5, <3>6 DEF Kit
  <2> QED BY <2>1, <2>2, <2>3, <2>4, <2>5
<1> QED BY <1>5, <1>6 DEF Inv, Good, SaveMarked

(* A save ends, well or not, or the Kit dies. *)
LEMMA KitSaveInv ==
    ASSUME Inv, NEW copied \in BOOLEAN, KitSaved \/ KitSaveFails(copied) \/ KitCrash
    PROVE  Inv'
<1>1. Good(b) /\ kit \in Kit BY DEF Inv
<1>2. /\ kit.doc \in File /\ kit.toBroker \in Seq(KitMessage)
      /\ kit.save \in KitSave \cup {Null} /\ kit.doc.t \in Int
  BY <1>1 DEF Kit, File
<1>3. CASE KitSaved
  <2> DEFINE file == [t |-> kit.doc.t + 1, c |-> kit.save.c]
             saved == <<Tell("saved", kit.save.s, "true")>>
             clear == <<Tell("modified", Null, "false")>>
  <2>1. kit.save \in KitSave BY <1>2, <1>3 DEF KitSaved
  <2>2. file \in File BY <1>2, <2>1 DEF KitSave, File
  <2>3. saved \in Seq(KitMessage) /\ clear \in Seq(KitMessage)
    <3>1. Tell("saved", kit.save.s, "true") \in KitMessage
      BY <2>1, TellType DEF KitSave
    <3>2. Tell("modified", Null, "false") \in KitMessage BY TellType
    <3> QED BY <3>1, <3>2
  <2>4. b' = [b EXCEPT !.upload = file] BY <1>3, Zenon DEF KitSaved
  <2>5. \E m \in {saved, saved \o clear, clear \o saved} :
           kit' = [kit EXCEPT !.doc = file, !.save = Null, !.toBroker = @ \o m]
    <3>1. \E m \in IF kit.save.modified /\ ~kit.modified
                   THEN {saved \o clear, clear \o saved} ELSE {saved} :
             kit' = [kit EXCEPT !.doc = file, !.save = Null, !.toBroker = @ \o m]
      BY <1>3, Zenon DEF KitSaved
    <3> HIDE DEF file, saved, clear
    <3> QED BY <3>1, Zenon
  <2> HIDE DEF file, saved, clear
  <2>6. PICK m \in {saved, saved \o clear, clear \o saved} :
           kit' = [kit EXCEPT !.doc = file, !.save = Null, !.toBroker = @ \o m]
    BY <2>5
  <2>7. Good(b') BY <2>2, <2>4, HandOver
  <2>8. kit' \in Kit
    <3> DEFINE q == kit.toBroker \o m
    <3>0. m \in Seq(KitMessage)
      <4>1. saved \o clear \in Seq(KitMessage) BY <2>3
      <4>2. clear \o saved \in Seq(KitMessage) BY <2>3
      <4> QED BY <2>3, <4>1, <4>2
    <3>1. q \in Seq(KitMessage) BY <1>2, <3>0
    <3>2. kit' = [kit EXCEPT !.doc = file, !.save = Null, !.toBroker = q]
      BY <2>6, Zenon
    <3> HIDE DEF q
    <3> QED BY <1>1, <2>2, <3>1, <3>2 DEF Kit
  <2>9. UNCHANGED <<srv, left>> BY <1>3 DEF KitSaved
  <2> QED BY <2>7, <2>8, <2>9 DEF Inv, Good, SaveMarked
<1>4. CASE KitSaveFails(copied)
  <2> DEFINE v == kit.modified \/ kit.save.modified
             m == Tell("saved", kit.save.s, "false")
             q == Append(kit.toBroker, m)
  <2>1. kit.save \in KitSave BY <1>2, <1>4 DEF KitSaveFails
  <2>2. m \in KitMessage BY <2>1, TellType DEF KitSave
  <2>3. v \in BOOLEAN OBVIOUS
  <2>4. kit' = [kit EXCEPT !.save = Null, !.modified = v, !.toBroker = q]
    BY <1>4, Zenon DEF KitSaveFails
  <2> HIDE DEF v, m
  <2>5. q \in Seq(KitMessage) BY <1>2, <2>2
  <2> HIDE DEF q
  <2>6. kit' \in Kit BY <1>1, <2>3, <2>4, <2>5 DEF Kit
  <2>7. Good([b EXCEPT !.upload = kit.doc]) BY <1>2, HandOver
  <2>8. Good(b') BY <1>1, <1>4, <2>7 DEF KitSaveFails
  <2>9. UNCHANGED <<srv, left>> BY <1>4 DEF KitSaveFails
  <2> QED BY <2>6, <2>8, <2>9 DEF Inv, Good, SaveMarked
<1>5. CASE KitCrash
  <2>1. kit' \in Kit BY <1>1, <1>5 DEF KitCrash, Kit
  <2>2. UNCHANGED <<b, srv, left>> BY <1>5 DEF KitCrash
  <2> QED BY <2>1, <2>2 DEF Inv, Good, SaveMarked
<1> QED BY <1>3, <1>4, <1>5

(* All of them. *)
LEMMA KitInv == Inv /\ KitStep => Inv'
BY KitCommandInv, KitSaveInv DEF KitStep

-----------------------------------------------------------------------------
(* The storage. *)

(* An answer is noted in the HTTP session. *)
LEMMA AnswerGood ==
    ASSUME Inv, Pending, NEW res \in HttpResult, NEW t \in Int
    PROVE  Good(Answer(res, t))
<1> DEFINE h == [b.http EXCEPT !.res = res, !.t = t]
           e == [b EXCEPT !.http = h]
<1>1. Good(b) /\ b \in Broker BY DEF Inv, Good
<1>2. b.http \in HttpUpload BY <1>1 DEF Broker, Pending
<1>3. h \in HttpUpload BY <1>2 DEF HttpUpload
<1>4. Answer(res, t) = e BY <1>1 DEF Answer, Broker
<1> HIDE DEF h
<1>5. e \in Broker BY <1>1, <1>3, ZenonT(60) DEF Broker
<1>6. e.activity = b.activity /\ e.saving = b.saving BY <1>1 DEF Broker
<1> QED BY <1>1, <1>4, <1>5, <1>6, OtherFields

(* The document in storage, after an upload. *)
LEMMA StoredType ==
    ASSUME Inv, Pending
    PROVE  Stored \in Storage /\ srv.t + 1 \in Int
<1>1. srv.t \in Int BY DEF Inv, Storage
<1>2. b.http \in HttpUpload BY DEF Inv, Good, Broker, Pending
<1>3. b.http.file.c \in Int BY <1>2 DEF HttpUpload, File
<1> QED BY <1>1, <1>3 DEF Stored, Storage

(* All that the storage does. *)
LEMMA ServerInv == Inv /\ ServerStep => Inv'
<1> SUFFICES ASSUME Inv, ServerStep PROVE Inv' OBVIOUS
<1>0. {"OK", "CONFLICT", "FAILED"} \subseteq HttpResult /\ NoTime \in Int
  BY DEF HttpResult, NoTime
<1>1. CASE ServerStores
  <2>1. Good(b') BY <1>0, <1>1, AnswerGood, StoredType DEF ServerStores
  <2>2. srv' \in Storage BY <1>1, StoredType DEF ServerStores
  <2>3. UNCHANGED <<kit, left>> BY <1>1 DEF ServerStores
  <2> QED BY <2>1, <2>2, <2>3 DEF Inv, Good, SaveMarked
<1>2. CASE ServerRenames
  <2>1. Good(b') BY <1>0, <1>2, AnswerGood DEF ServerRenames
  <2>2. UNCHANGED <<kit, srv, left>> BY <1>2 DEF ServerRenames
  <2> QED BY <2>1, <2>2 DEF Inv, Good, SaveMarked
<1>3. CASE ServerRefuses
  <2>1. Good(b') BY <1>0, <1>3, AnswerGood DEF ServerRefuses
  <2>2. UNCHANGED <<kit, srv, left>> BY <1>3 DEF ServerRefuses
  <2> QED BY <2>1, <2>2 DEF Inv, Good, SaveMarked
<1>4. ASSUME NEW res \in HttpResult, ServerRejects(res) PROVE Inv'
  <2>1. Good(b') BY <1>0, <1>4, AnswerGood DEF ServerRejects
  <2>2. UNCHANGED <<kit, srv, left>> BY <1>4 DEF ServerRejects
  <2> QED BY <2>1, <2>2 DEF Inv, Good, SaveMarked
<1>5. ASSUME NEW stored \in BOOLEAN, ServerFails(stored) PROVE Inv'
  <2>1. Good(b') BY <1>0, <1>5, AnswerGood DEF ServerFails
  <2>2. srv' \in Storage BY <1>5, StoredType DEF ServerFails, Inv
  <2>3. left' \in Budget BY <1>5, BudgetType DEF ServerFails, Inv
  <2>4. UNCHANGED kit BY <1>5 DEF ServerFails
  <2> QED BY <2>1, <2>2, <2>3, <2>4 DEF Inv, Good, SaveMarked
<1>6. CASE ExternalChange
  <2>1. srv' \in Storage
    <3> DEFINE t == srv.t + 1
    <3>1. t \in Int /\ Theirs \in Int BY DEF Inv, Storage, Theirs
    <3>2. srv' = [srv EXCEPT !.t = t, !.c = Theirs]
      BY <1>6, Zenon DEF ExternalChange
    <3> HIDE DEF t
    <3> QED BY <3>1, <3>2 DEF Inv, Storage
  <2>2. left' \in Budget BY <1>6, BudgetType DEF ExternalChange, Inv
  <2>3. UNCHANGED <<b, kit>> BY <1>6 DEF ExternalChange
  <2> QED BY <2>1, <2>2, <2>3 DEF Inv, Good, SaveMarked
<1> QED BY <1>1, <1>2, <1>3, <1>4, <1>5, <1>6 DEF ServerStep

-----------------------------------------------------------------------------
(* The callbacks. *)

(* A message of the Kit is taken from the queue. *)
LEMMA DeliversType ==
    ASSUME Inv, NEW k, Delivers(k)
    PROVE  kit' \in Kit /\ srv' \in Storage /\ left' \in Budget
<1> DEFINE q == Tail(kit.toBroker)
<1>1. kit \in Kit /\ kit.toBroker # <<>> BY DEF Inv, Delivers
<1>2. q \in Seq(KitMessage) BY <1>1 DEF Kit
<1>3. kit' = [kit EXCEPT !.toBroker = q] BY Zenon DEF Delivers
<1> HIDE DEF q
<1>4. kit' \in Kit BY <1>1, <1>2, <1>3 DEF Kit
<1> QED BY <1>4 DEF Inv, Delivers

(* All callbacks. *)
LEMMA CallbackInv == Inv /\ Callback => Inv'
<1> SUFFICES ASSUME Inv, Callback PROVE Inv' OBVIOUS
<1>0. Good(b) /\ b \in Broker BY DEF Inv, Good
<1>1. CASE ViewLoaded
  <2>1. kit' \in Kit /\ srv' \in Storage /\ left' \in Budget
    BY <1>1, DeliversType DEF ViewLoaded
  <2> DEFINE T == [b.state EXCEPT ![Msg.s] = "LIVE"]
             b1 == [b EXCEPT !.state = T]
  <2>2. b' = IF Msg.s \in b.sessions /\ b.state[Msg.s] = "LOADING"
             THEN IF Msg.v = "true" THEN SetLoaded(b1) ELSE b1
             ELSE b
    BY <1>1, Zenon DEF ViewLoaded
  <2>3. T \in [Session -> SessionState] BY <1>0 DEF Broker, SessionState
  <2> HIDE DEF T
  <2>4. b1 \in Broker BY <1>0, <2>3, ZenonT(60) DEF Broker
  <2>5. b1.activity = b.activity /\ b1.saving = b.saving BY <1>0 DEF Broker
  <2> HIDE DEF b1
  <2>6. Good(b1) BY <1>0, <2>4, <2>5, OtherFields
  <2>7. Good(b') BY <1>0, <2>2, <2>6, DocumentGood
  <2> QED BY <2>1, <2>7 DEF Inv, Good, SaveMarked
<1>2. CASE SetModified
  <2>1. kit' \in Kit /\ srv' \in Storage /\ left' \in Budget
    BY <1>2, DeliversType DEF SetModified
  <2> DEFINE v == Msg.v = "true"
             e == [b EXCEPT !.modified = v]
  <2>2. b' = IF b.sessions = {} THEN b ELSE e BY <1>2, Zenon DEF SetModified
  <2>3. v \in BOOLEAN OBVIOUS
  <2> HIDE DEF v
  <2>4. e \in Broker BY <1>0, <2>3 DEF Broker
  <2>5. e.activity = b.activity /\ e.saving = b.saving BY <1>0 DEF Broker
  <2> HIDE DEF e
  <2>6. Good(e) BY <1>0, <2>4, <2>5, OtherFields
  <2>7. Good(b') BY <1>0, <2>2, <2>6
  <2> QED BY <2>1, <2>7 DEF Inv, Good, SaveMarked
<1>3. CASE SessionDisconnected
  <2>1. kit' \in Kit /\ srv' \in Storage /\ left' \in Budget
    BY <1>3, DeliversType DEF SessionDisconnected
  <2>2. Good(b') BY <1>0, <1>3, RemoveGood DEF SessionDisconnected
  <2> QED BY <2>1, <2>2 DEF Inv, Good, SaveMarked
<1>4. CASE DisconnectedFromKit
  <2> DEFINE k == IF IsUnloading(b) THEN "Normal" ELSE "Unexpected"
             b1 == [b EXCEPT !.kitDisconnected = k]
  <2>1. b' = IF b.closeRequested \/ b.stop THEN b1 ELSE CloseDocument(b1)
    BY <1>4, Zenon DEF DisconnectedFromKit
  <2>2. k \in KitDisconnected BY DEF KitDisconnected
  <2> HIDE DEF k
  <2>3. b1 \in Broker BY <1>0, <2>2, ZenonT(60) DEF Broker
  <2>4. b1.activity = b.activity /\ b1.saving = b.saving BY <1>0 DEF Broker
  <2> HIDE DEF b1
  <2>5. Good(b1) BY <1>0, <2>3, <2>4, OtherFields
  <2>6. Good(b') BY <2>1, <2>5, DocumentGood
  <2>7. UNCHANGED <<kit, srv, left>> BY <1>4 DEF DisconnectedFromKit
  <2> QED BY <2>6, <2>7 DEF Inv, Good, SaveMarked
<1>5. ASSUME NEW elapsed \in BOOLEAN, SaveResponse(elapsed) PROVE Inv'
  <2>1. kit' \in Kit /\ srv' \in Storage /\ left' \in Budget
    BY <1>5, DeliversType DEF SaveResponse
  <2>2. Good(HandleSaveResponse(b, Msg.s, Msg.v, elapsed)) BY <1>0, SaveResponseGood
  <2>3. Good(b') BY <1>0, <1>5, <2>2 DEF SaveResponse
  <2> QED BY <2>1, <2>3 DEF Inv, Good, SaveMarked
<1>6. CASE UploadDone
  <2>1. Good(b') BY <1>0, <1>6, UploadFinishedGood DEF UploadDone
  <2>2. UNCHANGED <<kit, srv, left>> BY <1>6 DEF UploadDone
  <2> QED BY <2>1, <2>2 DEF Inv, Good, SaveMarked
<1>7. ASSUME NEW answer \in {"Pass", "Unauthorized", "Fail"}, CheckFileInfoDone(answer)
      PROVE  Inv'
  <2>1. srv.t \in Int BY DEF Inv, Storage
  <2>2. Good(b') BY <1>0, <1>7, <2>1, CheckFileInfoGood DEF CheckFileInfoDone
  <2>3. UNCHANGED <<kit, srv, left>> BY <1>7 DEF CheckFileInfoDone
  <2> QED BY <2>2, <2>3 DEF Inv, Good, SaveMarked
<1> QED BY <1>1, <1>2, <1>3, <1>4, <1>5, <1>6, <1>7 DEF Callback

-----------------------------------------------------------------------------
(* The poll loop. *)

(* The request of an upload goes out. *)
LEMMA SentGood ==
    ASSUME Inv
    PROVE  Good(Sent) /\ Sent \in Broker /\ Sent.uploadRequest = b.uploadRequest
<1> DEFINE h == [b.http EXCEPT !.res = "pending"]
           e == [b EXCEPT !.http = h]
<1>1. Good(b) /\ b \in Broker BY DEF Inv, Good
<1>2. CASE b.http # Null /\ b.http.res = "queued"
  <2>1. b.http \in HttpUpload BY <1>1, <1>2 DEF Broker
  <2>2. h \in HttpUpload BY <2>1 DEF HttpUpload, HttpResult
  <2>3. Sent = e BY <1>1, <1>2 DEF Sent, Broker
  <2> HIDE DEF h
  <2>4. e \in Broker BY <1>1, <2>2, ZenonT(60) DEF Broker
  <2>5. /\ e.activity = b.activity /\ e.saving = b.saving
        /\ e.uploadRequest = b.uploadRequest
    BY <1>1 DEF Broker
  <2> HIDE DEF e
  <2> QED BY <1>1, <2>3, <2>4, <2>5, OtherFields
<1>3. CASE ~(b.http # Null /\ b.http.res = "queued") BY <1>1, <1>3 DEF Sent
<1> QED BY <1>2, <1>3

(* Resetting the requests that are done. *)
LEMMA SettledGood ==
    ASSUME Inv
    PROVE  Good(Settled)
<1> DEFINE r == IF Sent.uploadRequest # Null /\ b.uploadRequest.complete
                THEN Null ELSE Sent.uploadRequest
           e == [Sent EXCEPT !.checkFileInfo = Null, !.uploadRequest = r]
<1>1. Good(Sent) /\ Sent \in Broker BY SentGood
<1>2. r \in UploadRequest \cup {Null} BY <1>1 DEF Broker
<1>3. Settled = e BY Zenon DEF Settled
<1> HIDE DEF r
<1>4. e \in Broker BY <1>1, <1>2, ZenonT(60) DEF Broker
<1>5. e.activity = Sent.activity /\ e.saving = Sent.saving BY <1>1 DEF Broker
<1> QED BY <1>1, <1>3, <1>4, <1>5, OtherFields

(* Leaving the loop. *)
LEMMA LeaveLoopGood ==
    ASSUME NEW d, Good(d)
    PROVE  Good(LeaveLoop(d))
<1> DEFINE v == DetectDataLoss(d)
           e == [d EXCEPT !.finished = TRUE, !.dataLoss = v]
<1>1. d \in Broker BY DEF Good
<1>2. LeaveLoop(d) = IF d.stop THEN e ELSE d BY Zenon DEF LeaveLoop
<1>3. v \in BOOLEAN BY DEF DetectDataLoss
<1> HIDE DEF v
<1>4. e \in Broker BY <1>1, <1>3, ZenonT(60) DEF Broker
<1>5. e.activity = d.activity /\ e.saving = d.saving BY <1>1 DEF Broker
<1> HIDE DEF e
<1>6. Good(e) BY <1>4, <1>5, OtherFields
<1> QED BY <1>2, <1>6

(* All branches of the body of the loop. *)
LEMMA PollInv == Inv /\ Poll => Inv'
<1> SUFFICES ASSUME Inv, Poll PROVE Inv' OBVIOUS
<1>0. Good(b) /\ b \in Broker BY DEF Inv, Good
<1>1. Good(Settled) BY SettledGood
<1>2. Settled \in Broker BY <1>1 DEF Good
<1>3. CASE PollRename
  <2>1. Good(b') BY <1>2, <1>3, StartRenameGood DEF PollRename
  <2>2. UNCHANGED <<kit, srv, left>> BY <1>3 DEF PollRename
  <2> QED BY <2>1, <2>2 DEF Inv, Good, SaveMarked
<1>4. ASSUME NEW saveNow \in BOOLEAN, NEW waited \in BOOLEAN, NEW elapsed \in BOOLEAN,
             \/ PollIdle(saveNow, waited, elapsed)
             \/ PollDead(saveNow, waited, elapsed)
             \/ PollUnload(saveNow, waited, elapsed)
      PROVE  Inv'
  <2>1. \A w : Good(AutoSaveAndStop(Settled, w, saveNow, waited, elapsed))
    BY <1>1, AutoSaveAndStopGood
  <2>2. Good(Stop(Settled)) BY <1>1, StopGood
  <2>3. \E e : Good(e) /\ b' = LeaveLoop(e)
    <3>1. CASE PollIdle(saveNow, waited, elapsed) BY <2>1, <3>1, Zenon DEF PollIdle
    <3>2. CASE PollDead(saveNow, waited, elapsed)
      <4>1. Good(AutoSaveAndStop(Stop(Settled), Null, saveNow, waited, elapsed))
        BY <2>2, AutoSaveAndStopGood
      <4> QED BY <2>1, <3>2, <4>1, Zenon DEF PollDead
    <3>3. CASE PollUnload(saveNow, waited, elapsed)
      BY <2>1, <2>2, <3>3, Zenon DEF PollUnload
    <3> QED BY <1>4, <3>1, <3>2, <3>3
  <2>4. Good(b') BY <2>3, LeaveLoopGood
  <2>5. UNCHANGED <<kit, srv, left>> BY <1>4 DEF PollIdle, PollDead, PollUnload
  <2> QED BY <2>4, <2>5 DEF Inv, Good, SaveMarked
<1>5. ASSUME NEW flag \in BOOLEAN, PollAutoSave(flag) \/ PollRetryUpload(flag)
      PROVE  Inv'
  <2>1. \A w : Good(AutoSave(Settled, w, FALSE, flag)) BY <1>1, AutoSaveGood
  <2>2. \A w : Good(CheckAndUploadToStorage(Settled, w, FALSE, flag))
    BY <1>2, CheckAndUploadGood
  <2>3. Good(b') BY <1>5, <2>1, <2>2, Zenon DEF PollAutoSave, PollRetryUpload
  <2>4. UNCHANGED <<kit, srv, left>> BY <1>5 DEF PollAutoSave, PollRetryUpload
  <2> QED BY <2>3, <2>4 DEF Inv, Good, SaveMarked
<1>6. Good(EndActivity(SetLastSaveResult(Sent, FALSE, FALSE)))
  BY SentGood, SaveResultType, EndGood
<1>7. CASE PollSaveLost
  <2>1. Good(b') BY <1>6, <1>7 DEF PollSaveLost
  <2>2. UNCHANGED <<kit, srv, left>> BY <1>7 DEF PollSaveLost
  <2> QED BY <2>1, <2>2 DEF Inv, Good, SaveMarked
<1>8. ASSUME NEW slow \in BOOLEAN, PollSaveTimesOut(slow) PROVE Inv'
  <2>1. Good(b') BY <1>6, <1>8 DEF PollSaveTimesOut
  <2>2. left' \in Budget
    <3> DEFINE n == IF slow THEN left.timeouts - 1 ELSE left.timeouts
    <3>1. left \in Budget /\ (slow => left.timeouts > 0)
      BY <1>8 DEF PollSaveTimesOut, Inv
    <3>2. n \in Nat BY <3>1 DEF Budget
    <3>3. left' = [left EXCEPT !.timeouts = n] BY <1>8, Zenon DEF PollSaveTimesOut
    <3> HIDE DEF n
    <3> QED BY <3>1, <3>2, <3>3 DEF Budget
  <2>3. UNCHANGED <<kit, srv>> BY <1>8 DEF PollSaveTimesOut
  <2> QED BY <2>1, <2>2, <2>3 DEF Inv, Good, SaveMarked
<1>9. CASE PollSync
  <2> DEFINE b1 == Check(Sent, ~IsAsyncUploading(b), "NoUploadInSync")
             can == b.sessions \cap b.authorized
             u == [b1 EXCEPT !.storageTime = UnSafe]
  <2>1. Good(b1) BY SentGood, CheckGood DEF Assertion
  <2>2. \/ b' = b1
        \/ b' = EndActivity(u)
        \/ \E s \in can : b' = [b1 EXCEPT !.checkFileInfo = [s |-> s, done |-> FALSE]]
    BY <1>9, Zenon DEF PollSync
  <2>3. can \subseteq Session BY <1>0 DEF Broker
  <2> HIDE DEF b1, can
  <2>4. b1 \in Broker BY <2>1 DEF Good
  <2>5. u \in Broker
    <3>1. UnSafe \in Int BY DEF UnSafe
    <3> QED BY <2>4, <3>1, ZenonT(60) DEF Broker
  <2> HIDE DEF u
  <2>6. Good(EndActivity(u)) BY <2>5, EndGood
  <2>7. ASSUME NEW s \in can
        PROVE  Good([b1 EXCEPT !.checkFileInfo = [s |-> s, done |-> FALSE]])
    <3> DEFINE c == [s |-> s, done |-> FALSE]
               e == [b1 EXCEPT !.checkFileInfo = c]
    <3>1. c \in CheckFileInfo BY <2>3, <2>7 DEF CheckFileInfo
    <3> HIDE DEF c
    <3>2. e \in Broker BY <2>4, <3>1, ZenonT(60) DEF Broker
    <3>3. e.activity = b1.activity /\ e.saving = b1.saving BY <2>4 DEF Broker
    <3>4. Good(e) BY <2>1, <3>2, <3>3, OtherFields
    <3> QED BY <3>4 DEF c
  <2>8. Good(b') BY <2>1, <2>2, <2>6, <2>7, Zenon
  <2>9. UNCHANGED <<kit, srv, left>> BY <1>9 DEF PollSync
  <2> QED BY <2>8, <2>9 DEF Inv, Good, SaveMarked
<1>10. ASSUME NEW s \in Session, PollStaleDisconnect(s) PROVE Inv'
  <2>1. Good(b') BY SentGood, <1>10, RemoveGood DEF PollStaleDisconnect
  <2>2. UNCHANGED <<kit, srv, left>> BY <1>10 DEF PollStaleDisconnect
  <2> QED BY <2>1, <2>2 DEF Inv, Good, SaveMarked
<1>11. CASE PollStopped
  <2>1. Good(b') BY <1>0, <1>11, LeaveLoopGood DEF PollStopped
  <2>2. UNCHANGED <<kit, srv, left>> BY <1>11 DEF PollStopped
  <2> QED BY <2>1, <2>2 DEF Inv, Good, SaveMarked
<1>12. CASE PollWaits
  <2>1. Good(b') BY SentGood, <1>12 DEF PollWaits
  <2>2. UNCHANGED <<kit, srv, left>> BY <1>12 DEF PollWaits
  <2> QED BY <2>1, <2>2 DEF Inv, Good, SaveMarked
<1> QED BY <1>3, <1>4, <1>5, <1>7, <1>8, <1>9, <1>10, <1>11, <1>12 DEF Poll

-----------------------------------------------------------------------------
(* The invariant is inductive. *)
THEOREM Invariance == Spec => []Inv
<1>1. Init => Inv BY InitInv
<1>2. Inv /\ [Next]_vars => Inv'
  <2> SUFFICES ASSUME Inv, [Next]_vars PROVE Inv' OBVIOUS
  <2>1. CASE Next BY <2>1, ClientInv, KitInv, ServerInv, CallbackInv, PollInv DEF Next
  <2>2. CASE UNCHANGED vars BY <2>2 DEF vars, Inv, Good, SaveMarked
  <2> QED BY <2>1, <2>2
<1> QED BY <1>1, <1>2, PTL DEF Spec

(* Every field of the broker, of the Kit and of the storage keeps its type; *)
(* in particular no count of failures drops below zero, and no answer is    *)
(* ever applied to a request that the broker has let go.                    *)
THEOREM TypeCorrect == Spec => []TypeOK
<1>1. Inv => TypeOK BY DEF Inv, Good, TypeOK
<1> QED BY <1>1, Invariance, PTL

(* The broker is in the Save activity only while a save is in flight, so    *)
(* that the poll loop, which does nothing else in that activity, can never  *)
(* wait for an answer that nobody owes.                                     *)
THEOREM SaveActivity == Spec => []SaveActivityHasSave
<1>1. Inv => SaveActivityHasSave BY DEF Inv, Good, SaveMarked, SaveActivityHasSave
<1> QED BY <1>1, Invariance, PTL
-----------------------------------------------------------------------------
(***************************************************************************)
(* What the broker believes about the storage is true, and broker, Kit and *)
(* storage keep the promise of SharedDocument, for any number of sessions, *)
(* any configuration and all faults but two.                               *)
(*                                                                         *)
(* Both are excluded by the hypothesis Unhurried: a user who forces an      *)
(* upload during another one replaces the request that the broker keeps    *)
(* for it, and a save that is answered while an upload is still on its way *)
(* lets the answer to the upload count for the file that was saved after   *)
(* it was sent.  UploadIsTracked is false with either, StorageTruth with   *)
(* the second, and the promise is proved from an invariant that holds both *)
(* of them.                                                                *)
(*                                                                         *)
(* The inductive invariant (Truthful) says which files the broker may have *)
(* in hand: the one in storage, the one uploaded last, the one to upload   *)
(* next and the one on the Kit's disk are versions of the document in this *)
(* order, and two with the same modification time are the same.            *)
(***************************************************************************)

Unhurried == MaxForces = 0 /\ "slowUpload" \notin Faults

-----------------------------------------------------------------------------
(* The invariant.  d is a broker, f the document on the Kit's disk and s    *)
(* the one in storage.                                                      *)

(* g is f or a later version of it. *)
Before(f, g) ==
    /\ 0 <= f.t /\ f.t <= g.t
    /\ 0 <= f.c /\ f.c <= g.c
    /\ f.t = g.t => f.c = g.c

(* The Kit saves edits that were made and never fewer than before. *)
Saved(x) ==
    /\ 0 <= x.doc.t
    /\ 0 <= x.doc.c /\ x.doc.c <= x.edits
    /\ x.save # Null => x.doc.c <= x.save.c /\ x.save.c <= x.edits

(* The upload on its way is the one that the broker keeps a request for. *)
Tracked(d) ==
    d.http # Null =>
        /\ d.http.file = d.uploading
        /\ d.uploading # NoFile
        /\ d.uploadRequest # Null
        /\ ~d.uploadRequest.complete
        /\ d.uploadRequest.t = d.http.file.t
        /\ d.uploadRequest.rename <=> d.http.rename
        /\ d.http.rename => d.activity = "Rename"

Unforced(d) == ~d.forced /\ ~d.lastForced

(* The storage is asked for its version in the activity for it only. *)
Asks(d) ==
    d.checkFileInfo # Null /\ ~d.checkFileInfo.done => d.activity = "SyncFileTimestamp"

(* The copies for the upload are versions of the document, in their order. *)
Copies(d, f) ==
    /\ d.upload # NoFile => Before(d.upload, f)
    /\ d.uploading # NoFile => Before(d.uploading, f)
    /\ d.upload # NoFile /\ d.uploading # NoFile => Before(d.uploading, d.upload)

(* A file that has the time of the one uploaded last has been uploaded, and *)
(* the storage has never been given more than there is to upload.           *)
Given(g, d, s) == g # NoFile /\ g.t = d.lastUploadedTime => g.c <= s.ours
Uploaded(d, f, s) ==
    /\ d.lastUploadedTime <= f.t
    /\ Given(d.uploading, d, s) /\ Given(d.upload, d, s) /\ Given(f, d, s)
    /\ 0 <= s.ours
    /\ IF d.uploading = NoFile THEN s.ours = 0 ELSE s.ours <= d.uploading.c

(* A timestamp that is the storage's is not that of somebody else's change. *)
Seen(t, s) == t <= s.t /\ (t = s.t => s.c # Theirs)
Answered(d, s) ==
    d.http # Null =>
        /\ Seen(d.http.ts, s)
        /\ d.http.res = "OK" /\ ~d.http.rename =>
              /\ 0 <= d.http.t
              /\ Seen(d.http.t, s)
              /\ s.ours = d.uploading.c
Timed(d, s) ==
    /\ 0 <= s.t
    /\ d.status = "None" => s.c # Theirs
    /\ Seen(d.storageTime, s)
    /\ d.sizeAsUploaded # Theirs

True(d, f, s) ==
    /\ Tracked(d) /\ Unforced(d) /\ Asks(d) /\ Copies(d, f)
    /\ Uploaded(d, f, s) /\ Answered(d, s) /\ Timed(d, s)

Truthful == Inv /\ True(b, kit.doc, srv) /\ Saved(kit) /\ left.forces = 0

-----------------------------------------------------------------------------
(* The edits on their way to the Kit. *)

EditsIn(q) == {i \in DOMAIN q : q[i].k = "edit"}
EditCount(q) == Cardinality(EditsIn(q))

(* A queue is finite, and so is a part of it. *)
LEMMA EditsFinite ==
    ASSUME NEW q \in Seq(KitCommand)
    PROVE  /\ EditsIn(q) \subseteq 1..Len(q) /\ Len(q) \in Nat
           /\ IsFiniteSet(EditsIn(q)) /\ EditCount(q) \in Nat
<1>1. DOMAIN q = 1..Len(q) /\ Len(q) \in Nat OBVIOUS
<1>2. EditsIn(q) \subseteq 1..Len(q) BY <1>1 DEF EditsIn
<1>3. IsFiniteSet(1..Len(q)) BY <1>1, FS_Interval
<1>4. IsFiniteSet(EditsIn(q)) BY <1>2, <1>3, FS_Subset
<1> QED BY <1>1, <1>2, <1>4, FS_CardinalityType DEF EditCount

(* A command that is appended counts if it is an edit. *)
LEMMA EditsAppend ==
    ASSUME NEW q \in Seq(KitCommand), NEW m \in KitCommand
    PROVE  EditCount(Append(q, m)) = IF m.k = "edit" THEN EditCount(q) + 1 ELSE EditCount(q)
<1> DEFINE n == Len(q) + 1
           a == Append(q, m)
<1>1. n \in Nat /\ n \notin EditsIn(q) /\ IsFiniteSet(EditsIn(q)) BY EditsFinite
<1>2. DOMAIN a = 1..n /\ (\A i \in 1..Len(q) : a[i] = q[i]) /\ a[n] = m OBVIOUS
<1>3. DOMAIN q = 1..Len(q) OBVIOUS
<1> HIDE DEF a
<1>4. EditsIn(a) = IF m.k = "edit" THEN EditsIn(q) \cup {n} ELSE EditsIn(q)
  BY <1>2, <1>3 DEF EditsIn
<1>5. EditCount(a) = IF m.k = "edit" THEN EditCount(q) + 1 ELSE EditCount(q)
  BY <1>1, <1>4, FS_AddElement DEF EditCount
<1> QED BY <1>5 DEF a

(* Goodbyes are no edits. *)
LEMMA EditsGoodbye ==
    ASSUME NEW q \in Seq(KitCommand), NEW D \in SUBSET Session
    PROVE  EditCount(q \o Goodbyes(D)) = EditCount(q)
<1> DEFINE g == Goodbyes(D)
           a == q \o g
<1>1. g \in Seq(KitCommand) BY GoodbyesType
<1>2. \A i \in DOMAIN g : g[i].k = "disconnect" BY DEF Goodbyes, Command
<1> HIDE DEF g
<1>3. /\ DOMAIN a = 1..(Len(q) + Len(g)) /\ Len(q) \in Nat /\ Len(g) \in Nat
      /\ \A i \in 1..Len(q) : a[i] = q[i]
      /\ \A i \in 1..(Len(q) + Len(g)) : i > Len(q) => a[i] = g[i - Len(q)]
  BY <1>1
<1>4. DOMAIN q = 1..Len(q) /\ DOMAIN g = 1..Len(g) BY <1>1
<1> HIDE DEF a
<1>5. ASSUME NEW i \in 1..(Len(q) + Len(g)), i > Len(q) PROVE a[i].k = "disconnect"
  <2>1. i - Len(q) \in DOMAIN g BY <1>3, <1>4, <1>5
  <2> QED BY <1>2, <1>3, <1>5, <2>1
<1>6. EditsIn(a) = EditsIn(q) BY <1>3, <1>4, <1>5 DEF EditsIn
<1> QED BY <1>6 DEF EditCount, a, g

(* A command that is taken from the queue counted if it was an edit. *)
LEMMA EditsTail ==
    ASSUME NEW q \in Seq(KitCommand), q # <<>>
    PROVE  EditCount(q) = IF Head(q).k = "edit" THEN EditCount(Tail(q)) + 1
                          ELSE EditCount(Tail(q))
<1> DEFINE T == Tail(q)
           S == EditsIn(q) \ {1}
           f == [i \in EditsIn(T) |-> i + 1]
<1>1. T \in Seq(KitCommand) /\ Len(q) \in Nat /\ Len(T) = Len(q) - 1 /\ Len(q) # 0 OBVIOUS
<1>2. \A i \in 1..Len(T) : T[i] = q[i + 1] OBVIOUS
<1>3. DOMAIN q = 1..Len(q) /\ DOMAIN T = 1..Len(T) /\ Head(q) = q[1] OBVIOUS
<1> HIDE DEF T
<1>4. f \in Bijection(EditsIn(T), S)
  <2>1. f \in [EditsIn(T) -> S]
    BY <1>1, <1>2, <1>3 DEF EditsIn
  <2>2. \A i, j \in EditsIn(T) : f[i] = f[j] => i = j
    BY <1>1, <1>3 DEF EditsIn
  <2>3. ASSUME NEW j \in S PROVE \E i \in EditsIn(T) : f[i] = j
    <3>1. j \in 2..Len(q) /\ q[j].k = "edit" BY <1>1, <1>3, <2>3 DEF EditsIn
    <3>2. j - 1 \in 1..Len(T) BY <1>1, <3>1
    <3>3. T[j - 1] = q[j] BY <1>1, <1>2, <3>1, <3>2
    <3>4. j - 1 \in EditsIn(T) BY <1>3, <3>1, <3>2, <3>3 DEF EditsIn
    <3>5. f[j - 1] = j BY <3>1, <3>4
    <3> QED BY <3>4, <3>5
  <2> QED BY <2>1, <2>2, <2>3 DEF Bijection, Injection, Surjection, IsInjective
<1>5. IsFiniteSet(EditsIn(T)) /\ IsFiniteSet(EditsIn(q)) BY <1>1, EditsFinite
<1>6. Cardinality(S) = EditCount(T)
  BY <1>4, <1>5, FS_Bijection DEF ExistsBijection, EditCount
<1>7. 1 \in EditsIn(q) <=> Head(q).k = "edit" BY <1>1, <1>3 DEF EditsIn
<1>8. Cardinality(S) = IF 1 \in EditsIn(q) THEN EditCount(q) - 1 ELSE EditCount(q)
  BY <1>5, FS_RemoveElement DEF EditCount
<1>9. EditCount(q) \in Nat /\ EditCount(T) \in Nat BY <1>1, EditsFinite
<1> QED BY <1>6, <1>7, <1>8, <1>9 DEF T

-----------------------------------------------------------------------------
(* Steps that have nothing to do with the storage. *)

(* e is d as far as the invariant and the promise go. *)
Calm(d, e) ==
    /\ e.http = d.http /\ e.uploadRequest = d.uploadRequest
    /\ e.uploading = d.uploading /\ e.upload = d.upload
    /\ e.lastUploadedTime = d.lastUploadedTime /\ e.storageTime = d.storageTime
    /\ e.forced = d.forced /\ e.lastForced = d.lastForced
    /\ e.sizeAsUploaded = d.sizeAsUploaded /\ e.checkFileInfo = d.checkFileInfo
    /\ d.activity \in {"SyncFileTimestamp", "Rename"} => e.activity = d.activity
    /\ e.status = "None" => d.status = "None"
    /\ EditCount(e.toKit) = EditCount(d.toKit)

(* The version in storage is not known, unless a user has forced an upload. *)
Blind(d) == d.storageTime = UnSafe \/ (d.http # Null /\ d.http.ts = UnSafe)

(* Calm steps in a row are calm, and leave the broker as blind as it was.   *)
LEMMA CalmOnwards ==
    ASSUME NEW d, NEW e, Calm(d, e)
    PROVE  /\ \A x : Calm(e, x) => Calm(d, x)
           /\ Blind(e) <=> Blind(d)
BY DEF Calm, Blind

(* To do nothing is calm. *)
LEMMA CalmSame == \A d : Calm(d, d)
BY DEF Calm

(* A calm step leaves what is true. *)
LEMMA CalmTrue ==
    ASSUME NEW d, NEW e, Calm(d, e), NEW f, NEW s, True(d, f, s)
    PROVE  True(e, f, s)
<1>1. Tracked(e) BY DEF Calm, True, Tracked
<1>2. Unforced(e) /\ Asks(e) BY DEF Calm, True, Unforced, Asks
<1>3. Copies(e, f) BY DEF Calm, True, Copies
<1>4. Uploaded(e, f, s) BY DEF Calm, True, Uploaded, Given
<1>5. Answered(e, s) /\ Timed(e, s) BY DEF Calm, True, Answered, Timed
<1> QED BY <1>1, <1>2, <1>3, <1>4, <1>5 DEF True

(* Small steps. *)
LEMMA SmallCalm ==
    ASSUME NEW d \in Broker
    PROVE  /\ \A h, a : Calm(d, Check(d, h, a))
           /\ Calm(d, Stop(d)) /\ Calm(d, MarkToDestroy(d)) /\ Calm(d, EndSave(d))
           /\ Calm(d, CloseDocument(d)) /\ Calm(d, HandleDocumentConflict(d))
           /\ Calm(d, SetLoaded(d))
           /\ \A s : Calm(d, FinalRemoveSession(d, s))
           /\ Calm(d, FailLoadingSessions(d))
           /\ \A v : Calm(d, [d EXCEPT !.unloadRequested = v])
<1>1. \A h, a : Calm(d, Check(d, h, a)) BY DEF Broker, Calm, Check
<1>2. Calm(d, Stop(d)) BY DEF Broker, Calm, Stop
<1>3. Calm(d, MarkToDestroy(d)) BY DEF Broker, Calm, MarkToDestroy
<1>4. Calm(d, EndSave(d)) BY DEF Broker, Calm, EndSave, EndActivity
<1>5. Calm(d, CloseDocument(d)) BY DEF Broker, Calm, CloseDocument
<1>6. Calm(d, HandleDocumentConflict(d)) BY DEF Broker, Calm, HandleDocumentConflict
<1>7. Calm(d, SetLoaded(d)) BY DEF Broker, Calm, SetLoaded
<1>8. \A s : Calm(d, FinalRemoveSession(d, s)) BY DEF Broker, Calm, FinalRemoveSession
<1>9. Calm(d, FailLoadingSessions(d))
  <2> DEFINE S == d.sessions \ (LoadingSessions(d) \ d.closeFrame)
  <2>1. FailLoadingSessions(d) = [d EXCEPT !.sessions = S] BY Zenon DEF FailLoadingSessions
  <2> HIDE DEF S
  <2> QED BY <2>1 DEF Broker, Calm
<1>10. \A v : Calm(d, [d EXCEPT !.unloadRequested = v]) BY DEF Broker, Calm
<1> QED BY <1>1, <1>2, <1>3, <1>4, <1>5, <1>6, <1>7, <1>8, <1>9, <1>10

(* The answers to saves and uploads, apart from what they are about. *)
LEMMA ResultCalm ==
    ASSUME NEW d \in Broker
    PROVE  /\ \A x, v : Calm(d, SetLastSaveResult(d, x, v))
           /\ \A x : Calm(d, SetLastUploadResult(d, x))
BY DEF Broker, Calm, SetLastSaveResult, SetLastUploadResult

(* A command for the Kit that is no edit. *)
LEMMA ForwardCalm ==
    ASSUME NEW d \in Broker, NEW m \in KitCommand, m.k # "edit"
    PROVE  Calm(d, ForwardToChild(d, m))
<1> DEFINE q == Append(d.toKit, m)
           e == [d EXCEPT !.toKit = q]
<1>1. ForwardToChild(d, m) = IF m.s \in d.sessions THEN e ELSE d
  BY Zenon DEF ForwardToChild
<1>2. EditCount(q) = EditCount(d.toKit) BY EditsAppend DEF Broker
<1> HIDE DEF q
<1>3. Calm(d, e) BY <1>2 DEF Broker, Calm
<1> QED BY <1>1, <1>3, CalmSame

(* Sessions leaving. *)
LEMMA DisconnectCalm ==
    ASSUME NEW d, Good(d), NEW D \in SUBSET Session
    PROVE  Calm(d, MarkIfUnloadRequested(d)) /\ Calm(d, DisconnectFromKit(d, D))
<1>0. d \in Broker BY DEF Good
<1> DEFINE e == Check(d, Cardinality(ActiveSessions(d)) <= 1, "UnloadNotShared")
           b1 == MarkIfUnloadRequested(d)
           st == [s \in Session |-> IF s \in D THEN "WAIT_DISCONNECT" ELSE b1.state[s]]
           q == b1.toKit \o Goodbyes(D \cap d.sessions)
           b2 == [b1 EXCEPT !.state = st, !.toKit = q]
           settled == {s \in d.sessions \ D : IsLive(d, s) \/ InWaitDisconnected(d, s)}
           lastLoaded == Cardinality(settled) = IF D \subseteq d.sessions THEN 0 ELSE 1
           b3 == IF lastLoaded THEN FailLoadingSessions(b2) ELSE b2
<1>1. DisconnectFromKit(d, D)
        = IF ~b3.loaded /\ Cardinality(b3.sessions) <= 1 THEN Stop(b3) ELSE b3
  BY Zenon DEF DisconnectFromKit
<1>2. b1 = IF d.unloadRequested THEN MarkToDestroy(e) ELSE d
  BY Zenon DEF MarkIfUnloadRequested
<1>3. Good(e) /\ e \in Broker BY CheckGood DEF Assertion, Good
<1>4. Calm(d, e) BY <1>0, SmallCalm
<1>5. Calm(e, MarkToDestroy(e)) BY <1>3, SmallCalm
<1> HIDE DEF e
<1>6. Calm(d, b1) BY <1>2, <1>4, <1>5, CalmOnwards, CalmSame
<1>7. b1 \in Broker BY MarkGood DEF Good
<1> HIDE DEF b1, settled, lastLoaded
<1>8. D \cap d.sessions \in SUBSET Session OBVIOUS
<1>9. EditCount(q) = EditCount(b1.toKit) BY <1>7, <1>8, EditsGoodbye DEF Broker
<1>10. st \in [Session -> SessionState] BY <1>7 DEF Broker, SessionState
<1>11. q \in Seq(KitCommand) BY <1>7, <1>8, GoodbyesType DEF Broker
<1> HIDE DEF st, q
<1>12. Calm(b1, b2) BY <1>7, <1>9 DEF Broker, Calm
<1>13. b2 \in Broker BY <1>7, <1>10, <1>11, ZenonT(60) DEF Broker
<1> HIDE DEF b2
<1>14. Calm(b2, b3) BY <1>13, SmallCalm, CalmSame
<1>15. Good(b3) \/ b3 \in Broker
  <2>1. CASE lastLoaded
    <3>1. b3 = [b2 EXCEPT !.sessions = b2.sessions \ (LoadingSessions(b2) \ b2.closeFrame)]
      BY <2>1, Zenon DEF FailLoadingSessions
    <3> DEFINE S == b2.sessions \ (LoadingSessions(b2) \ b2.closeFrame)
    <3>2. S \in SUBSET Session BY <1>13 DEF Broker
    <3> HIDE DEF S
    <3>3. [b2 EXCEPT !.sessions = S] \in Broker BY <1>13, <3>2, ZenonT(60) DEF Broker
    <3> QED BY <3>1, <3>3 DEF S
  <2>2. CASE ~lastLoaded BY <1>13, <2>2
  <2> QED BY <2>1, <2>2
<1> HIDE DEF b3
<1>16. b3 \in Broker BY <1>15 DEF Good
<1>17. Calm(b3, Stop(b3)) BY <1>16, SmallCalm
<1>18. Calm(d, b3) /\ Calm(d, Stop(b3)) BY <1>6, <1>12, <1>14, <1>17, CalmOnwards
<1> QED BY <1>1, <1>6, <1>18 DEF b1

(* One session, and all sessions whose client has gone. *)
LEMMA LeaveCalm ==
    ASSUME NEW d, Good(d)
    PROVE  /\ \A s \in Session : Calm(d, DisconnectSessionInternal(d, s))
           /\ Calm(d, DisconnectClosedSessions(d))
<1>1. ASSUME NEW s \in Session PROVE Calm(d, DisconnectSessionInternal(d, s))
  <2> DEFINE e == MarkIfUnloadRequested(d)
  <2>1. Calm(d, DisconnectFromKit(d, {s})) /\ Calm(d, e) BY DisconnectCalm
  <2>2. e \in Broker BY MarkGood DEF Good
  <2> HIDE DEF e
  <2>3. Calm(d, FinalRemoveSession(e, s)) BY <2>1, <2>2, SmallCalm, CalmOnwards
  <2> QED BY <2>1, <2>3, Zenon DEF DisconnectSessionInternal, e
<1>2. Calm(d, DisconnectClosedSessions(d))
  <2> DEFINE D == {x \in d.sessions : x \in d.closeFrame /\ ~InWaitDisconnected(d, x)}
  <2>1. D \in SUBSET Session BY DEF Good, Broker
  <2>2. DisconnectClosedSessions(d) = IF D = {} THEN d ELSE DisconnectFromKit(d, D)
    BY Zenon DEF DisconnectClosedSessions
  <2> HIDE DEF D
  <2>3. Calm(d, DisconnectFromKit(d, D)) BY <2>1, DisconnectCalm
  <2> QED BY <2>2, <2>3, CalmSame
<1> QED BY <1>1, <1>2

(* Saving. *)
LEMMA SaveCalm ==
    ASSUME NEW d \in Broker
    PROVE  /\ \A s : \A f \in BOOLEAN : Calm(d, SendUnoSave(d, s, f))
           /\ \A w, force, timed : Calm(d, AutoSave(d, w, force, timed))
<1>1. ASSUME NEW s, NEW dsiu \in BOOLEAN PROVE Calm(d, SendUnoSave(d, s, dsiu))
  <2>1. CASE s \notin d.sessions BY <2>1, CalmSame DEF SendUnoSave
  <2>2. CASE s \in d.sessions
    <3> DEFINE f == ForwardToChild(d, Command("save", s, dsiu))
               a == IF f.activity = "None" THEN "Save" ELSE f.activity
               e == [f EXCEPT !.saving = TRUE, !.modifiedAfterSave = FALSE,
                              !.activity = a]
    <3>1. s \in Session BY <2>2 DEF Broker
    <3>2. Command("save", s, dsiu) \in KitCommand BY <3>1, CommandType
    <3>3. Command("save", s, dsiu).k # "edit" BY DEF Command
    <3>4. f \in Broker BY <3>2, ForwardGood
    <3>5. Calm(d, f) BY <3>2, <3>3, ForwardCalm
    <3>6. SendUnoSave(d, s, dsiu) = e BY <2>2, Zenon DEF SendUnoSave
    <3> HIDE DEF f
    <3>7. Calm(f, e) BY <3>4 DEF Broker, Calm
    <3> QED BY <3>5, <3>6, <3>7, CalmOnwards
  <2> QED BY <2>1, <2>2
<1>2. ASSUME NEW w, NEW force, NEW timed PROVE Calm(d, AutoSave(d, w, force, timed))
  <2>1. Calm(d, SendUnoSave(d, AutoSaveSession(d, w), TRUE)) BY <1>1
  <2> QED BY <2>1, CalmSame, Zenon DEF AutoSave
<1> QED BY <1>1, <1>2

(* Removing a session. *)
LEMMA RemoveSessionCalm ==
    ASSUME NEW d, Good(d), NEW s \in Session, NEW w
    PROVE  Calm(d, RemoveSession(d, s, w))
<1> DEFINE active == Cardinality(ActiveSessions(d))
           lastEditable == s \in d.editable /\ ~HaveAnotherEditableSession(d, s)
           force == AlwaysSaveOnExit \/ IsPossiblyModified(d)
           b1 == IF lastEditable /\ d.saving THEN d
                 ELSE IF lastEditable /\ AutoSaveResult(d, force, FALSE)
                 THEN AutoSave(d, w, force, FALSE)
                 ELSE DisconnectSessionInternal(d, s)
<1>0. d \in Broker BY DEF Good
<1>1. Good(AutoSave(d, w, force, FALSE)) /\ Calm(d, AutoSave(d, w, force, FALSE))
  BY <1>0, AutoSaveGood, SaveCalm
<1>2. /\ Good(DisconnectSessionInternal(d, s))
      /\ Calm(d, DisconnectSessionInternal(d, s))
  BY DisconnectSessionGood, LeaveCalm
<1>3. RemoveSession(d, s, w)
        = IF active > 1 THEN b1
          ELSE IF b1.saving \/ IsAsyncUploading(b1)
          THEN [b1 EXCEPT !.unloadRequested = TRUE]
          ELSE IF b1.sessions = {} THEN MarkToDestroy(b1) ELSE b1
  BY Zenon DEF RemoveSession
<1> HIDE DEF active, lastEditable, force
<1>4. Good(b1) /\ Calm(d, b1) BY <1>1, <1>2, CalmSame
<1> HIDE DEF b1
<1>5. Calm(b1, [b1 EXCEPT !.unloadRequested = TRUE]) /\ Calm(b1, MarkToDestroy(b1))
  BY <1>4, SmallCalm DEF Good
<1>6. Calm(d, [b1 EXCEPT !.unloadRequested = TRUE]) /\ Calm(d, MarkToDestroy(b1))
  BY <1>4, <1>5, CalmOnwards
<1> QED BY <1>3, <1>4, <1>6

-----------------------------------------------------------------------------
(* Uploads. *)

(* Steps that keep the promise: no edit is lost on the way to the Kit, and  *)
(* the version in storage is not forgotten.                                 *)
Keeps(d, e) ==
    /\ Blind(e) => Blind(d)
    /\ EditCount(e.toKit) = EditCount(d.toKit)

(* So do several in a row. *)
LEMMA KeepsOnwards == \A d, e, x : Keeps(d, e) /\ Keeps(e, x) => Keeps(d, x)
BY DEF Keeps

(* So does a calm step. *)
LEMMA CalmKeeps ==
    ASSUME NEW d, NEW e, Calm(d, e)
    PROVE  /\ Keeps(d, e)
           /\ e.http = d.http
           /\ \A f, s : True(d, f, s) => True(e, f, s)
<1>1. Keeps(d, e) BY DEF Calm, Keeps, Blind
<1> QED BY <1>1, CalmTrue DEF Calm

(* With no upload on its way, any request may be kept or dropped. *)
LEMMA RequestFree ==
    ASSUME NEW d \in Broker, d.http = Null, NEW r, NEW f, NEW s, True(d, f, s),
           NEW e, e = [d EXCEPT !.uploadRequest = r]
    PROVE  True(e, f, s) /\ Keeps(d, e) /\ e.http = Null
<1>1. /\ e.http = Null
      /\ e.uploading = d.uploading /\ e.upload = d.upload
      /\ e.lastUploadedTime = d.lastUploadedTime /\ e.storageTime = d.storageTime
      /\ e.forced = d.forced /\ e.lastForced = d.lastForced
      /\ e.sizeAsUploaded = d.sizeAsUploaded /\ e.checkFileInfo = d.checkFileInfo
      /\ e.activity = d.activity /\ e.status = d.status /\ e.toKit = d.toKit
  BY DEF Broker
<1>2. Keeps(d, e) BY <1>1 DEF Keeps, Blind
<1>3. Tracked(e) /\ Answered(e, s) BY <1>1 DEF Tracked, Answered
<1>4. Unforced(e) /\ Asks(e) BY <1>1 DEF True, Unforced, Asks
<1>5. Copies(e, f) BY <1>1 DEF True, Copies
<1>6. Uploaded(e, f, s) BY <1>1 DEF True, Uploaded, Given
<1>7. Timed(e, s) BY <1>1 DEF True, Timed
<1> QED BY <1>1, <1>2, <1>3, <1>4, <1>5, <1>6, <1>7 DEF True

(* So may a rename end. *)
LEMMA EndRenameTrue ==
    ASSUME NEW d \in Broker, d.http = Null, d.activity # "SyncFileTimestamp",
           NEW f, NEW s, True(d, f, s)
    PROVE  /\ True(EndRename(d), f, s) /\ Keeps(d, EndRename(d))
           /\ EndRename(d).http = Null
<1> DEFINE e == EndRename(d)
<1>1. /\ e.http = Null
      /\ e.uploading = d.uploading /\ e.upload = d.upload
      /\ e.lastUploadedTime = d.lastUploadedTime /\ e.storageTime = d.storageTime
      /\ e.forced = d.forced /\ e.lastForced = d.lastForced
      /\ e.sizeAsUploaded = d.sizeAsUploaded /\ e.checkFileInfo = d.checkFileInfo
      /\ e.status = d.status /\ e.toKit = d.toKit
  BY DEF Broker, EndRename
<1> HIDE DEF e
<1>2. Keeps(d, e) BY <1>1 DEF Keeps, Blind
<1>3. Tracked(e) /\ Answered(e, s) BY <1>1 DEF Tracked, Answered
<1>4. Unforced(e) /\ Asks(e) BY <1>1 DEF True, Unforced, Asks
<1>5. Copies(e, f) BY <1>1 DEF True, Copies
<1>6. Uploaded(e, f, s) BY <1>1 DEF True, Uploaded, Given
<1>7. Timed(e, s) BY <1>1 DEF True, Timed
<1>8. True(e, f, s) BY <1>3, <1>4, <1>5, <1>6, <1>7 DEF True
<1> QED BY <1>1, <1>2, <1>8 DEF e

(* An upload that failed without an answer. *)
LEMMA UploadErrorTrue ==
    ASSUME NEW d, Good(d), d.http = Null, d.uploadRequest \in UploadRequest,
           NEW f, NEW s, True(d, f, s)
    PROVE  /\ True(UploadError(d), f, s) /\ Keeps(d, UploadError(d))
           /\ UploadError(d).http = Null
<1> DEFINE r == [d.uploadRequest EXCEPT !.complete = TRUE]
           c == [d EXCEPT !.uploadRequest = r]
           b1 == SetLastUploadResult(c, FALSE)
<1>1. c = [d EXCEPT !.uploadRequest.complete = TRUE] OBVIOUS
<1>2. UploadError(d) = IF d.activity = "Rename" THEN EndRename(b1) ELSE b1
  BY <1>1, Zenon DEF UploadError
<1>3. Good(c) BY <1>1, CompleteGood
<1>4. d \in Broker /\ c \in Broker BY <1>3 DEF Good
<1>5. c.activity = d.activity BY <1>4 DEF Broker
<1> HIDE DEF r
<1>6. True(c, f, s) /\ Keeps(d, c) /\ c.http = Null BY <1>4, RequestFree
<1> HIDE DEF c
<1>7. Good(b1) /\ b1 \in Broker BY <1>3, UploadResultGood DEF Good
<1>8. Calm(c, b1) BY <1>4, ResultCalm
<1>9. b1.activity = d.activity BY <1>4, <1>5 DEF SetLastUploadResult, Broker
<1> HIDE DEF b1
<1>10. True(b1, f, s) /\ Keeps(d, b1) /\ b1.http = Null
  BY <1>6, <1>8, CalmKeeps, KeepsOnwards
<1>11. ASSUME d.activity = "Rename"
       PROVE  /\ True(EndRename(b1), f, s) /\ Keeps(d, EndRename(b1))
              /\ EndRename(b1).http = Null
  <2>1. b1.activity # "SyncFileTimestamp" BY <1>9, <1>11
  <2> QED BY <1>7, <1>10, <2>1, EndRenameTrue, KeepsOnwards
<1> QED BY <1>2, <1>10, <1>11

(* The attributes of an upload. *)
LEMMA AttributesCalm ==
    ASSUME NEW d \in Broker, ~d.forced, ~d.lastForced, NEW lf \in BOOLEAN, ~lf
    PROVE  LET e == [d EXCEPT !.lastForced = lf, !.forced = FALSE, !.uploadActive = TRUE]
           IN  e \in Broker /\ Calm(d, e)
<1> DEFINE e == [d EXCEPT !.lastForced = lf, !.forced = FALSE, !.uploadActive = TRUE]
<1>1. e \in Broker BY ZenonT(60) DEF Broker
<1>2. Calm(d, e) BY DEF Broker, Calm
<1> QED BY <1>1, <1>2
(* The request of an upload. *)
LEMMA RequestType ==
    ASSUME NEW d \in Broker, NEW r \in UploadRequest \cup {Null}
    PROVE  [d EXCEPT !.uploadRequest = r] \in Broker
BY ZenonT(60) DEF Broker

(* The size of the upload that the answer to a question is compared with.   *)
LEMMA SizeTrue ==
    ASSUME NEW d \in Broker, NEW z, z # Theirs, NEW f, NEW s, True(d, f, s), d.http = Null
    PROVE  /\ True([d EXCEPT !.sizeAsUploaded = z], f, s)
           /\ Keeps(d, [d EXCEPT !.sizeAsUploaded = z])
<1> DEFINE e == [d EXCEPT !.sizeAsUploaded = z]
<1>1. /\ e.http = Null /\ e.sizeAsUploaded = z
      /\ e.uploading = d.uploading /\ e.upload = d.upload
      /\ e.lastUploadedTime = d.lastUploadedTime /\ e.storageTime = d.storageTime
      /\ e.forced = d.forced /\ e.lastForced = d.lastForced
      /\ e.checkFileInfo = d.checkFileInfo
      /\ e.activity = d.activity /\ e.status = d.status /\ e.toKit = d.toKit
  BY DEF Broker
<1> HIDE DEF e
<1>2. Keeps(d, e) BY <1>1 DEF Keeps, Blind
<1>3. Tracked(e) /\ Answered(e, s) BY <1>1 DEF Tracked, Answered
<1>4. Unforced(e) /\ Asks(e) BY <1>1 DEF True, Unforced, Asks
<1>5. Copies(e, f) BY <1>1 DEF True, Copies
<1>6. Uploaded(e, f, s) BY <1>1 DEF True, Uploaded, Given
<1>7. Timed(e, s) BY <1>1 DEF True, Timed
<1>8. True(e, f, s) BY <1>3, <1>4, <1>5, <1>6, <1>7 DEF True
<1> QED BY <1>2, <1>8 DEF e

(* The start of an upload. *)
LEMMA UploadInternalTrue ==
    ASSUME NEW d, Good(d), d.http = Null, NEW u, NEW isRename \in BOOLEAN,
           isRename => d.activity = "Rename", NEW f, NEW s, True(d, f, s)
    PROVE  /\ True(UploadToStorageInternal(d, u, isRename, FALSE), f, s)
           /\ Keeps(d, UploadToStorageInternal(d, u, isRename, FALSE))
<1> DEFINE r == [t |-> d.uploading.t, rename |-> isRename, s |-> u, complete |-> FALSE]
           lf == d.forced \/ FALSE
           b0 == [d EXCEPT !.uploadRequest = r]
           b1 == [d EXCEPT !.uploadRequest = r, !.lastForced = lf,
                           !.forced = FALSE, !.uploadActive = TRUE]
           h == [file |-> d.uploading, rename |-> isRename, s |-> u,
                 ts |-> IF b1.lastForced THEN UnSafe ELSE d.storageTime,
                 res |-> "queued", t |-> NoTime]
           refused == [UploadError(b1) EXCEPT !.sizeAsUploaded = NoSize]
           sent == [b1 EXCEPT !.http = h, !.sizeAsUploaded = d.uploading.c]
<1>1. d \in Broker BY DEF Good
<1>2. UploadToStorageInternal(d, u, isRename, FALSE)
        = IF u \notin d.editable THEN d
          ELSE IF IsAsyncUploading(d) \/ d.uploading = NoFile THEN refused ELSE sent
  BY Zenon DEF UploadToStorageInternal
<1>3. ~d.forced /\ ~d.lastForced BY DEF True, Unforced
<1>4. ~lf BY <1>3
<1>5. ASSUME u \in d.editable
      PROVE  /\ True(refused, f, s) /\ Keeps(d, refused)
             /\ d.uploading # NoFile => True(sent, f, s) /\ Keeps(d, sent)
  <2>1. u \in Session BY <1>1, <1>5 DEF Broker
  <2>2. d.uploading.t \in Int /\ d.uploading.c \in Int /\ d.uploading \in File
    BY <1>1 DEF Broker, File
  <2>3. r \in UploadRequest BY <2>1, <2>2 DEF UploadRequest
  <2>4. /\ r.t = d.uploading.t /\ ~r.complete /\ (r.rename <=> isRename) /\ r # Null
    BY <2>3, NullAssumption
  <2>5. lf \in BOOLEAN OBVIOUS
  <2> HIDE DEF r
  <2>6. b0 \in Broker BY <1>1, <2>3, RequestType
  <2>7. b0.http = Null /\ True(b0, f, s) /\ Keeps(d, b0) BY <1>1, RequestFree
  <2>8. ~b0.forced /\ ~b0.lastForced /\ b0.activity = d.activity BY <1>1, <1>3 DEF Broker
  <2> HIDE DEF b0
  <2>9. b1 = [b0 EXCEPT !.lastForced = lf, !.forced = FALSE, !.uploadActive = TRUE]
    BY DEF b0
  <2> HIDE DEF lf
  <2>10. b1 \in Broker /\ Calm(b0, b1) BY <1>4, <2>5, <2>6, <2>8, <2>9, AttributesCalm
  <2>11. True(b1, f, s) /\ Keeps(d, b1) /\ b1.http = Null
    BY <2>7, <2>10, CalmKeeps, KeepsOnwards
  <2>12. /\ b1.uploadRequest = r /\ b1.uploading = d.uploading
         /\ b1.storageTime = d.storageTime /\ b1.activity = d.activity
         /\ b1.saving = d.saving /\ (b1.lastForced <=> lf)
    BY <1>1 DEF Broker
  <2>13. Good(b1) BY <2>10, <2>12 DEF Good, SaveMarked
  <2> HIDE DEF b1
  <2>14. True(refused, f, s) /\ Keeps(d, refused)
    <3> DEFINE x == UploadError(b1)
    <3>1. True(x, f, s) /\ Keeps(b1, x) /\ x.http = Null
      BY <2>3, <2>11, <2>12, <2>13, UploadErrorTrue
    <3>2. x \in Broker BY <2>3, <2>12, <2>13, UploadErrorGood DEF Good
    <3>3. NoSize # Theirs BY DEF NoSize, Theirs
    <3> HIDE DEF x
    <3>4. /\ True([x EXCEPT !.sizeAsUploaded = NoSize], f, s)
          /\ Keeps(x, [x EXCEPT !.sizeAsUploaded = NoSize])
      BY <3>1, <3>2, <3>3, SizeTrue
    <3> QED BY <2>11, <3>1, <3>4, KeepsOnwards DEF x
  <2>15. ASSUME d.uploading # NoFile PROVE True(sent, f, s) /\ Keeps(d, sent)
    <3>1. /\ h.file = d.uploading /\ (h.rename <=> isRename)
          /\ h.ts = d.storageTime /\ h.res = "queued"
      BY <1>4, <2>12
    <3> HIDE DEF h
    <3>2. /\ sent.http = h /\ sent.sizeAsUploaded = d.uploading.c
          /\ sent.uploadRequest = r
          /\ sent.uploading = d.uploading /\ sent.upload = b1.upload
          /\ sent.lastUploadedTime = b1.lastUploadedTime
          /\ sent.storageTime = d.storageTime
          /\ sent.forced = b1.forced /\ sent.lastForced = b1.lastForced
          /\ sent.checkFileInfo = b1.checkFileInfo
          /\ sent.activity = d.activity /\ sent.status = b1.status
          /\ sent.toKit = b1.toKit
      BY <2>10, <2>12 DEF Broker
    <3> HIDE DEF sent
    <3>3. Keeps(d, sent) BY <2>11, <3>1, <3>2 DEF Keeps, Blind
    <3>4. Tracked(sent) BY <1>3, <2>4, <2>15, <3>1, <3>2 DEF Tracked
    <3>5. Unforced(sent) /\ Asks(sent)
      BY <2>11, <2>12, <3>2 DEF True, Unforced, Asks
    <3>6. Copies(sent, f) BY <2>11, <2>12, <3>2 DEF True, Copies
    <3>7. Uploaded(sent, f, s) BY <2>11, <2>12, <3>2 DEF True, Uploaded, Given
    <3>8. Answered(sent, s) BY <2>11, <2>12, <3>1, <3>2 DEF True, Timed, Answered
    <3>9. d.uploading.c # Theirs
      BY <2>2, <2>15 DEF True, Copies, Before, Theirs
    <3>10. Timed(sent, s) BY <2>11, <2>12, <3>2, <3>9 DEF True, Timed
    <3> QED BY <3>3, <3>4, <3>5, <3>6, <3>7, <3>8, <3>10 DEF True
  <2> QED BY <2>14, <2>15
<1> HIDE DEF refused, sent
<1>6. Keeps(d, d) BY DEF Keeps
<1> QED BY <1>2, <1>5, <1>6 DEF IsAsyncUploading

(* An upload that may have to wait, and a rename. *)
LEMMA UploadTrue ==
    ASSUME NEW d, Good(d), d.http = Null, NEW f, NEW s, True(d, f, s)
    PROVE  /\ \A u, elapsed : /\ True(UploadToStorage(d, u, FALSE, elapsed), f, s)
                              /\ Keeps(d, UploadToStorage(d, u, FALSE, elapsed))
           /\ d.activity = "Rename" => /\ True(RenameInStorage(d), f, s)
                                       /\ Keeps(d, RenameInStorage(d))
<1>1. Keeps(d, d) BY DEF Keeps
<1>2. ASSUME NEW u, NEW elapsed
      PROVE  /\ True(UploadToStorage(d, u, FALSE, elapsed), f, s)
             /\ Keeps(d, UploadToStorage(d, u, FALSE, elapsed))
  <2>1. /\ True(UploadToStorageInternal(d, u, FALSE, FALSE), f, s)
        /\ Keeps(d, UploadToStorageInternal(d, u, FALSE, FALSE))
    BY UploadInternalTrue
  <2> QED BY <1>1, <2>1, Zenon DEF UploadToStorage
<1>3. ASSUME d.activity = "Rename"
      PROVE  True(RenameInStorage(d), f, s) /\ Keeps(d, RenameInStorage(d))
  <2>1. /\ True(UploadToStorageInternal(d, d.renameSession, TRUE, FALSE), f, s)
        /\ Keeps(d, UploadToStorageInternal(d, d.renameSession, TRUE, FALSE))
    BY <1>3, UploadInternalTrue
  <2>2. d \in Broker /\ d.activity # "SyncFileTimestamp" BY <1>3 DEF Good
  <2>3. True(EndRename(d), f, s) /\ Keeps(d, EndRename(d)) BY <2>2, EndRenameTrue
  <2> QED BY <2>1, <2>3, Zenon DEF RenameInStorage
<1> QED BY <1>2, <1>3

(* The end of a save, an upload or a rename that waited for it. *)
LEMMA CheckAndUploadTrue ==
    ASSUME NEW d \in Broker, d.http = Null, NEW u, NEW justSaved, NEW elapsed,
           NEW f, NEW s, True(d, f, s)
    PROVE  /\ True(CheckAndUploadToStorage(d, u, justSaved, elapsed), f, s)
           /\ Keeps(d, CheckAndUploadToStorage(d, u, justSaved, elapsed))
<1> DEFINE b1 == EndSave(d)
           modified == IF justSaved THEN d.modifiedAfterSave ELSE NeedToSaveToDisk(d)
<1>1. CheckAndUploadToStorage(d, u, justSaved, elapsed)
        = IF d.activity = "Rename" /\ ~NeedToUploadToStorage(d) THEN RenameInStorage(d)
          ELSE IF modified /\ IsUnloading(d)
          THEN Check(b1, CanSaveToDisk(d), "CanSaveAgain")
          ELSE IF NeedToUploadToStorage(d) THEN UploadToStorage(b1, u, FALSE, elapsed)
          ELSE IF IsAsyncUploading(d) THEN b1
          ELSE DisconnectClosedSessions(b1)
  BY Zenon DEF CheckAndUploadToStorage
<1>2. Good(b1) /\ b1 \in Broker BY EndGood DEF Good
<1>3. Calm(d, b1) BY SmallCalm
<1> HIDE DEF b1, modified
<1>4. True(b1, f, s) /\ Keeps(d, b1) /\ b1.http = Null BY <1>3, CalmKeeps
<1>5. ASSUME d.activity = "Rename"
      PROVE  True(RenameInStorage(d), f, s) /\ Keeps(d, RenameInStorage(d))
  <2>1. Good(d) BY <1>5 DEF Good, SaveMarked
  <2> QED BY <1>5, <2>1, UploadTrue
<1>6. /\ True(Check(b1, CanSaveToDisk(d), "CanSaveAgain"), f, s)
      /\ Keeps(d, Check(b1, CanSaveToDisk(d), "CanSaveAgain"))
  <2>1. Calm(b1, Check(b1, CanSaveToDisk(d), "CanSaveAgain")) BY <1>2, SmallCalm
  <2> QED BY <1>4, <2>1, CalmKeeps, KeepsOnwards
<1>7. /\ True(UploadToStorage(b1, u, FALSE, elapsed), f, s)
      /\ Keeps(d, UploadToStorage(b1, u, FALSE, elapsed))
  BY <1>2, <1>4, UploadTrue, KeepsOnwards
<1>8. /\ True(DisconnectClosedSessions(b1), f, s)
      /\ Keeps(d, DisconnectClosedSessions(b1))
  <2>1. Calm(b1, DisconnectClosedSessions(b1)) BY <1>2, LeaveCalm
  <2> QED BY <1>4, <2>1, CalmKeeps, KeepsOnwards
<1> QED BY <1>1, <1>4, <1>5, <1>6, <1>7, <1>8

(* Saving, uploading or stopping on the way out. *)
LEMMA AutoSaveAndStopTrue ==
    ASSUME NEW d, Good(d), NEW w, NEW saveNow, NEW waited, NEW elapsed,
           NEW f, NEW s, True(d, f, s)
    PROVE  /\ True(AutoSaveAndStop(d, w, saveNow, waited, elapsed), f, s)
           /\ Keeps(d, AutoSaveAndStop(d, w, saveNow, waited, elapsed))
<1> DEFINE force == IsPossiblyModified(d) \/ d.saveFailures > 0
<1>1. d \in Broker /\ Keeps(d, d) BY DEF Good, Keeps
<1>2. True(Stop(d), f, s) /\ Keeps(d, Stop(d)) BY <1>1, SmallCalm, CalmKeeps
<1>3. True(AutoSave(d, w, force, FALSE), f, s) /\ Keeps(d, AutoSave(d, w, force, FALSE))
  BY <1>1, SaveCalm, CalmKeeps
<1>4. d.http = Null => /\ True(CheckAndUploadToStorage(d, w, FALSE, elapsed), f, s)
                       /\ Keeps(d, CheckAndUploadToStorage(d, w, FALSE, elapsed))
  BY <1>1, CheckAndUploadTrue
<1>5. AutoSaveAndStop(d, w, saveNow, waited, elapsed)
        = IF d.saving \/ IsAsyncUploading(d) THEN d
          ELSE IF CanStop(d) THEN Stop(d)
          ELSE IF OnlyModifiedFlagLeft(d) THEN IF waited THEN Stop(d) ELSE d
          ELSE IF ~saveNow THEN d
          ELSE IF AutoSaveResult(d, force, FALSE) THEN AutoSave(d, w, force, FALSE)
          ELSE IF w \in d.authorized
          THEN CheckAndUploadToStorage(d, w, FALSE, elapsed)
          ELSE Stop(d)
  BY Zenon DEF AutoSaveAndStop
<1> HIDE DEF force
<1> QED BY <1>1, <1>2, <1>3, <1>4, <1>5 DEF IsAsyncUploading

-----------------------------------------------------------------------------
(* Responses. *)

(* The file that was saved becomes the next one to upload. *)
LEMMA HandedOver ==
    ASSUME NEW d \in Broker
    PROVE  [d EXCEPT !.uploading = d.upload, !.upload = NoFile] \in Broker
<1>1. NoFile \in File BY DEF NoFile, File, NoTime
<1> QED BY <1>1, ZenonT(60) DEF Broker

(* The answer to a save. *)
LEMMA SaveResponseTrue ==
    ASSUME NEW d, Good(d), d.http = Null, NEW u, NEW result, NEW elapsed,
           NEW f, NEW s \in Storage, True(d, f, s)
    PROVE  /\ True(HandleSaveResponse(d, u, result, elapsed), f, s)
           /\ Keeps(d, HandleSaveResponse(d, u, result, elapsed))
<1> DEFINE saved == result \in {"true", "unmodified"}
           new == result = "true"
           b1 == SetLastSaveResult(d, saved, new)
           e == [b1 EXCEPT !.uploading = b1.upload, !.upload = NoFile]
           b2 == IF b1.upload = NoFile THEN b1 ELSE e
<1>0. s.ours \in Int BY DEF Storage
<1>1. HandleSaveResponse(d, u, result, elapsed)
        = CheckAndUploadToStorage(b2, u, saved, elapsed)
  BY Zenon DEF HandleSaveResponse
<1>2. saved \in BOOLEAN /\ new \in BOOLEAN OBVIOUS
<1> HIDE DEF saved, new
<1>3. d \in Broker BY DEF Good
<1>4. b1 \in Broker BY <1>2, <1>3, SaveResultType
<1>5. Calm(d, b1) BY <1>3, ResultCalm
<1> HIDE DEF b1
<1>6. True(b1, f, s) /\ Keeps(d, b1) /\ b1.http = Null BY <1>5, CalmKeeps
<1>7. e \in Broker BY <1>4, HandedOver
<1>8. ASSUME b1.upload # NoFile PROVE True(e, f, s) /\ Keeps(d, e) /\ e.http = Null
  <2>1. /\ e.http = Null /\ e.sizeAsUploaded = b1.sizeAsUploaded
        /\ e.uploading = b1.upload /\ e.upload = NoFile
        /\ e.lastUploadedTime = b1.lastUploadedTime /\ e.storageTime = b1.storageTime
        /\ e.forced = b1.forced /\ e.lastForced = b1.lastForced
        /\ e.checkFileInfo = b1.checkFileInfo
        /\ e.activity = b1.activity /\ e.status = b1.status /\ e.toKit = b1.toKit
    BY <1>4, <1>6 DEF Broker
  <2>2. /\ b1.upload.c \in Int /\ b1.uploading.c \in Int
        /\ b1.upload.t \in Int /\ b1.uploading.t \in Int
    BY <1>4 DEF Broker, File
  <2> HIDE DEF e
  <2>3. Keeps(d, e) BY <1>6, <2>1 DEF Keeps, Blind
  <2>4. Tracked(e) /\ Answered(e, s) BY <2>1 DEF Tracked, Answered
  <2>5. Unforced(e) /\ Asks(e) BY <1>6, <2>1 DEF True, Unforced, Asks
  <2>6. Copies(e, f) BY <1>6, <1>8, <2>1 DEF True, Copies
  <2>7. Uploaded(e, f, s)
    <3>1. /\ e.lastUploadedTime <= f.t /\ 0 <= s.ours
          /\ Given(e.uploading, e, s) /\ Given(e.upload, e, s) /\ Given(f, e, s)
      BY <1>6, <2>1 DEF True, Uploaded, Given
    <3>2. CASE b1.uploading = NoFile
      BY <1>6, <1>8, <2>1, <3>1, <3>2 DEF True, Uploaded, Copies, Before
    <3>3. CASE b1.uploading # NoFile
      <4>1. s.ours <= b1.uploading.c /\ b1.uploading.c <= b1.upload.c
        BY <1>6, <1>8, <3>3 DEF True, Uploaded, Copies, Before
      <4>2. s.ours <= b1.upload.c BY <1>0, <2>2, <4>1
      <4> QED BY <1>8, <2>1, <3>1, <4>1, <4>2 DEF Uploaded
    <3> QED BY <3>2, <3>3
  <2>8. Timed(e, s) BY <1>6, <2>1 DEF True, Timed
  <2> QED BY <2>1, <2>3, <2>4, <2>5, <2>6, <2>7, <2>8 DEF True
<1> HIDE DEF e
<1>9. b2 \in Broker /\ True(b2, f, s) /\ Keeps(d, b2) /\ b2.http = Null
  BY <1>4, <1>6, <1>7, <1>8
<1> HIDE DEF b2
<1> QED BY <1>1, <1>9, CheckAndUploadTrue, KeepsOnwards

(* What it takes to be true while no upload is on its way. *)
LEMMA NoUploadTrue ==
    ASSUME NEW d, NEW e, NEW f, NEW s, True(d, f, s), e.http = Null,
           e.uploading = d.uploading, e.upload = d.upload,
           e.lastUploadedTime = d.lastUploadedTime, e.status = d.status,
           e.sizeAsUploaded = d.sizeAsUploaded,
           e.storageTime = d.storageTime, ~e.forced, ~e.lastForced,
           Asks(e)
    PROVE  True(e, f, s)
<1>1. Tracked(e) /\ Answered(e, s) BY DEF Tracked, Answered
<1>2. Unforced(e) BY DEF Unforced
<1>3. Copies(e, f) BY DEF True, Copies
<1>4. Uploaded(e, f, s) BY DEF True, Uploaded, Given
<1>5. Timed(e, s) BY DEF True, Timed
<1> QED BY <1>1, <1>2, <1>3, <1>4, <1>5 DEF True

(* A file that was stored is the one uploaded last. *)
LEMMA SuccessTimes ==
    ASSUME NEW d \in Broker, NEW t \in Int, NEW m \in Int
    PROVE  [d EXCEPT !.lastUploadedTime = m, !.serverTime = t,
                     !.changedInStorage = FALSE, !.lastForced = FALSE] \in Broker
BY ZenonT(60) DEF Broker

(* The broker takes note of a file that was stored. *)
LEMMA UploadSuccessfulTrue ==
    ASSUME NEW d, Good(d), d.http = Null, d.uploadRequest \in UploadRequest,
           d.uploadRequest.rename => d.activity = "Rename",
           NEW f \in File, NEW s \in Storage, True(d, f, s),
           ~d.uploadRequest.rename =>
              /\ d.uploading # NoFile /\ d.uploadRequest.t = d.uploading.t
              /\ s.ours = d.uploading.c,
           NEW t \in Int
    PROVE  /\ True(HandleUploadSuccessful(d, t), f, s)
           /\ Keeps(d, HandleUploadSuccessful(d, t))
<1> DEFINE rt == d.uploadRequest.t
           b1 == [d EXCEPT !.lastUploadedTime = rt, !.serverTime = t,
                           !.changedInStorage = FALSE, !.lastForced = FALSE]
           b2 == IF d.uploadRequest.rename THEN EndRename(d)
                 ELSE IF d.activity = "Rename" THEN RenameInStorage(b1) ELSE b1
           b3 == IF b2.unloadRequested THEN MarkToDestroy(b2) ELSE b2
           b4 == IF /\ b3.status = "Destroying" \/ b3.sessions = {}
                    /\ ~IsPossiblyModified(b3)
                 THEN Stop(b3) ELSE b3
<1>1. HandleUploadSuccessful(d, t) = DisconnectClosedSessions(b4)
  BY Zenon DEF HandleUploadSuccessful
<1>2. d \in Broker /\ rt \in Int BY DEF Good, UploadRequest
<1>3. d.uploading \in File /\ d.upload \in File BY <1>2 DEF Broker
<1>4. ASSUME ~d.uploadRequest.rename
      PROVE  /\ Good(b1) /\ True(b1, f, s) /\ Keeps(d, b1)
             /\ b1.http = Null /\ b1.activity = d.activity
  <2>1. rt = d.uploading.t BY <1>4
  <2> HIDE DEF rt
  <2>2. b1 \in Broker BY <1>2, SuccessTimes
  <2>3. /\ b1.http = Null /\ b1.sizeAsUploaded = d.sizeAsUploaded
        /\ b1.uploading = d.uploading /\ b1.upload = d.upload
        /\ b1.lastUploadedTime = rt /\ b1.storageTime = d.storageTime
        /\ b1.forced = d.forced /\ ~b1.lastForced
        /\ b1.checkFileInfo = d.checkFileInfo /\ b1.saving = d.saving
        /\ b1.activity = d.activity /\ b1.status = d.status /\ b1.toKit = d.toKit
    BY <1>2 DEF Broker
  <2> HIDE DEF b1
  <2>4. Keeps(d, b1) BY <2>3 DEF Keeps, Blind
  <2>5. Tracked(b1) /\ Answered(b1, s) BY <2>3 DEF Tracked, Answered
  <2>6. Unforced(b1) /\ Asks(b1) BY <2>3 DEF True, Unforced, Asks
  <2>7. Copies(b1, f) BY <2>3 DEF True, Copies
  <2>8. Uploaded(b1, f, s)
    <3>1. Before(d.uploading, f) /\ s.ours = d.uploading.c /\ d.uploading # NoFile
      BY <1>4 DEF True, Copies
    <3>2. b1.lastUploadedTime <= f.t BY <2>1, <2>3, <3>1 DEF Before
    <3>3. d.uploading.c \in Int /\ s.ours \in Int BY <1>3 DEF File, Storage
    <3>4. Given(b1.uploading, b1, s)
      BY <2>3, <3>1, <3>3 DEF Given
    <3>5. Given(b1.upload, b1, s)
      BY <2>1, <2>3, <3>1, <3>3 DEF Given, True, Copies, Before
    <3>6. Given(f, b1, s) BY <2>1, <2>3, <3>1, <3>3 DEF Given, Before
    <3> QED BY <2>3, <3>1, <3>2, <3>4, <3>5, <3>6 DEF True, Uploaded
  <2>9. Timed(b1, s) BY <2>3 DEF True, Timed
  <2>10. Good(b1) BY <2>2, <2>3 DEF Good, SaveMarked
  <2> QED BY <2>3, <2>4, <2>5, <2>6, <2>7, <2>8, <2>9, <2>10 DEF True
<1> HIDE DEF rt, b1
<1>5. Good(b2) /\ True(b2, f, s) /\ Keeps(d, b2)
  <2>1. CASE d.uploadRequest.rename
    <3>1. d.activity # "SyncFileTimestamp" BY <2>1
    <3> QED BY <1>2, <2>1, <3>1, EndGood, EndRenameTrue
  <2>2. CASE ~d.uploadRequest.rename /\ d.activity = "Rename"
    BY <1>4, <2>2, UploadGood, UploadTrue, KeepsOnwards
  <2>3. CASE ~d.uploadRequest.rename /\ d.activity # "Rename"
    BY <1>4, <2>3
  <2> QED BY <2>1, <2>2, <2>3
<1> HIDE DEF b2
<1>6. Good(b3) /\ True(b3, f, s) /\ Keeps(d, b3)
  BY <1>5, StopGood, SmallCalm, CalmKeeps, KeepsOnwards DEF Good
<1> HIDE DEF b3
<1>7. Good(b4) /\ True(b4, f, s) /\ Keeps(d, b4)
  BY <1>6, StopGood, SmallCalm, CalmKeeps, KeepsOnwards DEF Good
<1> HIDE DEF b4
<1>8. Calm(b4, DisconnectClosedSessions(b4)) BY <1>7, LeaveCalm
<1> QED BY <1>1, <1>7, <1>8, CalmKeeps, KeepsOnwards

(* An upload that was not stored. *)
LEMMA FailedType ==
    ASSUME NEW d \in Broker, NEW S \in SUBSET Session
    PROVE  /\ [d EXCEPT !.editable = S] \in Broker
           /\ [d EXCEPT !.authorized = S] \in Broker
           /\ [d EXCEPT !.activity = "SyncFileTimestamp"] \in Broker
<1>1. [d EXCEPT !.editable = S] \in Broker BY ZenonT(60) DEF Broker
<1>2. [d EXCEPT !.authorized = S] \in Broker BY ZenonT(60) DEF Broker
<1>3. [d EXCEPT !.activity = "SyncFileTimestamp"] \in Broker
  BY ZenonT(60) DEF Broker, Activity
<1> QED BY <1>1, <1>2, <1>3

(* The broker takes note of one that was not. *)
LEMMA UploadFailedTrue ==
    ASSUME NEW d, Good(d), d.http = Null,
           NEW result \in {"TOO_LARGE", "UNAUTHORIZED", "FAILED", "CONFLICT"},
           NEW f, NEW s, True(d, f, s)
    PROVE  /\ True(HandleUploadFailed(d, result), f, s)
           /\ Keeps(d, HandleUploadFailed(d, result))
<1> DEFINE b1 == IF d.activity = "Rename" THEN EndRename(d) ELSE d
           E == b1.editable \ d.sessions
           A == b1.authorized \ ({d.uploadRequest.s} \cap d.sessions)
           ro == [b1 EXCEPT !.editable = E]
           un == [b1 EXCEPT !.authorized = A]
           sy == [b1 EXCEPT !.activity = "SyncFileTimestamp"]
           b2 == CASE result = "TOO_LARGE" -> ro
                   [] result = "UNAUTHORIZED" -> un
                   [] result = "FAILED" -> sy
                   [] result = "CONFLICT" -> HandleDocumentConflict(b1)
           v == b2.forced \/ b2.lastForced
           e == [b2 EXCEPT !.forced = v, !.lastForced = FALSE]
<1>1. HandleUploadFailed(d, result) = e BY Zenon DEF HandleUploadFailed
<1>2. d \in Broker BY DEF Good
<1>3. b1 \in Broker BY <1>2, EndGood DEF Good
<1>4. True(b1, f, s) /\ Keeps(d, b1) /\ b1.http = Null
  <2>1. CASE d.activity = "Rename"
    <3>1. d.activity # "SyncFileTimestamp" BY <2>1
    <3> QED BY <1>2, <2>1, <3>1, EndRenameTrue
  <2>2. CASE d.activity # "Rename" BY <2>2 DEF Keeps
  <2> QED BY <2>1, <2>2
<1> HIDE DEF b1, E, A
<1>5. \A x \in {ro, un, HandleDocumentConflict(b1)} : Calm(b1, x)
  <2>1. Calm(b1, ro) BY <1>3 DEF Broker, Calm
  <2>2. Calm(b1, un) BY <1>3 DEF Broker, Calm
  <2>3. Calm(b1, HandleDocumentConflict(b1)) BY <1>3, SmallCalm
  <2> QED BY <2>1, <2>2, <2>3
<1>6. True(sy, f, s) /\ Keeps(b1, sy) /\ sy.http = Null
  <2>1. /\ sy.http = Null /\ sy.sizeAsUploaded = b1.sizeAsUploaded
        /\ sy.uploading = b1.uploading /\ sy.upload = b1.upload
        /\ sy.lastUploadedTime = b1.lastUploadedTime
        /\ sy.storageTime = b1.storageTime
        /\ sy.forced = b1.forced /\ sy.lastForced = b1.lastForced
        /\ sy.activity = "SyncFileTimestamp"
        /\ sy.status = b1.status /\ sy.toKit = b1.toKit
    BY <1>3, <1>4 DEF Broker
  <2> HIDE DEF sy
  <2>2. Asks(sy) /\ ~sy.forced /\ ~sy.lastForced BY <1>4, <2>1 DEF Asks, True, Unforced
  <2>3. Keeps(b1, sy) BY <1>4, <2>1 DEF Keeps, Blind
  <2> QED BY <1>4, <2>1, <2>2, <2>3, NoUploadTrue
<1>7. \A x \in {ro, un, HandleDocumentConflict(b1)} :
         True(x, f, s) /\ Keeps(b1, x) /\ x.http = Null
  BY <1>4, <1>5, CalmKeeps
<1>8. {ro, un, sy, HandleDocumentConflict(b1)} \subseteq Broker
  <2>1. E \in SUBSET Session /\ A \in SUBSET Session BY <1>3 DEF Broker, E, A
  <2>2. HandleDocumentConflict(b1) \in Broker BY EndGood, DocumentGood DEF Good, b1
  <2> QED BY <1>3, <2>1, <2>2, FailedType
<1> HIDE DEF ro, un, sy
<1>9. True(b2, f, s) /\ Keeps(d, b2) /\ b2.http = Null
  <2>1. CASE result = "TOO_LARGE" BY <1>4, <1>7, <2>1, KeepsOnwards
  <2>2. CASE result = "UNAUTHORIZED" BY <1>4, <1>7, <2>2, KeepsOnwards
  <2>3. CASE result = "FAILED" BY <1>4, <1>6, <2>3, KeepsOnwards
  <2>4. CASE result = "CONFLICT" BY <1>4, <1>7, <2>4, KeepsOnwards
  <2> QED BY <2>1, <2>2, <2>3, <2>4
<1> HIDE DEF b2
<1>10. ~v BY <1>9 DEF True, Unforced
<1> HIDE DEF v
<1>11. b2 \in Broker
  <2>1. CASE result = "TOO_LARGE" BY <1>8, <2>1 DEF b2
  <2>2. CASE result = "UNAUTHORIZED" BY <1>8, <2>2 DEF b2
  <2>3. CASE result = "FAILED" BY <1>8, <2>3 DEF b2
  <2>4. CASE result = "CONFLICT" BY <1>8, <2>4 DEF b2
  <2> QED BY <2>1, <2>2, <2>3, <2>4
<1>12. /\ e.http = b2.http /\ e.sizeAsUploaded = b2.sizeAsUploaded
       /\ e.uploading = b2.uploading /\ e.upload = b2.upload
       /\ e.lastUploadedTime = b2.lastUploadedTime /\ e.storageTime = b2.storageTime
       /\ (e.forced <=> v) /\ ~e.lastForced /\ e.checkFileInfo = b2.checkFileInfo
       /\ e.activity = b2.activity /\ e.status = b2.status /\ e.toKit = b2.toKit
  BY <1>11 DEF Broker
<1> HIDE DEF e
<1>13. Asks(e) BY <1>9, <1>12 DEF True, Asks
<1>14. True(e, f, s) BY <1>9, <1>10, <1>12, <1>13, NoUploadTrue
<1>15. Keeps(b2, e) BY <1>12 DEF Keeps, Blind
<1> QED BY <1>1, <1>9, <1>14, <1>15, KeepsOnwards

(* The end of an upload: only a rename makes the broker forget the version. *)
LEMMA EndOfUpload ==
    ASSUME NEW d \in Broker, NEW st \in Int
    PROVE  [d EXCEPT !.http = Null, !.storageTime = st] \in Broker
BY ZenonT(60) DEF Broker

(* The answer to an upload, whatever it says. *)
LEMMA UploadFinishedTrue ==
    ASSUME NEW d, Good(d), d.http # Null, d.http.res \notin {"queued", "pending"},
           NEW f \in File, NEW s \in Storage, True(d, f, s)
    PROVE  /\ True(UploadFinished(d), f, s)
           /\ EditCount(UploadFinished(d).toKit) = EditCount(d.toKit)
           /\ Blind(UploadFinished(d)) => Blind(d) \/ d.http.rename
<1> DEFINE res == d.http.res
           st == StorageTimeAfter(d)
           b1 == [d EXCEPT !.http = Null, !.storageTime = st]
           r == [b1.uploadRequest EXCEPT !.complete = TRUE]
           c == [b1 EXCEPT !.uploadRequest = r]
           ok == res = "OK"
           b2 == SetLastUploadResult(c, ok)
<1>1. d.uploadRequest # Null BY DEF True, Tracked
<1>2. [b1 EXCEPT !.uploadRequest.complete = TRUE] = c OBVIOUS
<1>3. UploadFinished(d)
        = IF res = "Error" THEN UploadError(b1)
          ELSE IF res = "OK" THEN HandleUploadSuccessful(b2, b1.storageTime)
          ELSE HandleUploadFailed(b2, res)
  <2>1. UploadFinished(d)
        = IF d.uploadRequest = Null THEN b1
          ELSE IF res = "Error" THEN UploadError(b1)
          ELSE IF res = "OK"
          THEN HandleUploadSuccessful(SetLastUploadResult(
                  [b1 EXCEPT !.uploadRequest.complete = TRUE], ok), b1.storageTime)
          ELSE HandleUploadFailed(SetLastUploadResult(
                  [b1 EXCEPT !.uploadRequest.complete = TRUE], ok), res)
    BY Zenon DEF UploadFinished
  <2> QED BY <1>1, <1>2, <2>1, Zenon
<1>4. d \in Broker BY DEF Good
<1>5. d.http \in HttpUpload /\ d.uploadRequest \in UploadRequest BY <1>1, <1>4 DEF Broker
<1>6. res \in HttpResult /\ d.http.t \in Int /\ d.http.rename \in BOOLEAN
  BY <1>5 DEF HttpUpload
<1>7. st \in Int BY <1>4, <1>6 DEF StorageTimeAfter, UnSafe, Broker
<1>8. /\ Seen(st, s)
      /\ st = UnSafe => Blind(d) \/ d.http.rename
  <2>1. s.t \in Int /\ 0 <= s.t /\ Seen(d.storageTime, s)
    BY DEF True, Timed, Storage
  <2>2. ok /\ ~d.http.rename => 0 <= d.http.t /\ Seen(d.http.t, s)
    BY DEF True, Answered
  <2>3. UnSafe < 0 /\ UnSafe \in Int BY DEF UnSafe
  <2>4. Seen(UnSafe, s) BY <2>1, <2>3 DEF Seen
  <2>5. st = IF ~ok THEN d.storageTime
             ELSE IF d.http.rename THEN UnSafe ELSE d.http.t
    BY DEF StorageTimeAfter
  <2> HIDE DEF st, ok
  <2>6. CASE ~ok BY <2>1, <2>5, <2>6 DEF Blind
  <2>7. CASE ok /\ d.http.rename BY <2>4, <2>5, <2>7
  <2>8. CASE ok /\ ~d.http.rename BY <1>6, <2>2, <2>3, <2>5, <2>8
  <2> QED BY <2>6, <2>7, <2>8
<1> HIDE DEF st
<1>9. b1 \in Broker BY <1>4, <1>7, EndOfUpload
<1>10. /\ b1.http = Null /\ b1.storageTime = st /\ b1.toKit = d.toKit
       /\ b1.uploading = d.uploading /\ b1.upload = d.upload
       /\ b1.lastUploadedTime = d.lastUploadedTime
       /\ b1.sizeAsUploaded = d.sizeAsUploaded
       /\ b1.forced = d.forced /\ b1.lastForced = d.lastForced
       /\ b1.checkFileInfo = d.checkFileInfo /\ b1.uploadRequest = d.uploadRequest
       /\ b1.activity = d.activity /\ b1.status = d.status /\ b1.saving = d.saving
  BY <1>4 DEF Broker
<1> HIDE DEF b1
<1>11. Good(b1) BY <1>9, <1>10 DEF Good, SaveMarked
<1>12. True(b1, f, s)
  <2>1. Tracked(b1) /\ Answered(b1, s) BY <1>10 DEF Tracked, Answered
  <2>2. Unforced(b1) /\ Asks(b1) BY <1>10 DEF True, Unforced, Asks
  <2>3. Copies(b1, f) BY <1>10 DEF True, Copies
  <2>4. Uploaded(b1, f, s) BY <1>10 DEF True, Uploaded, Given
  <2>5. Timed(b1, s) BY <1>8, <1>10 DEF True, Timed
  <2> QED BY <2>1, <2>2, <2>3, <2>4, <2>5 DEF True
<1>13. Blind(b1) => Blind(d) \/ d.http.rename BY <1>8, <1>10 DEF Blind
<1>14. /\ True(UploadError(b1), f, s) /\ Keeps(b1, UploadError(b1))
  BY <1>5, <1>10, <1>11, <1>12, UploadErrorTrue
<1>15. /\ r \in UploadRequest /\ r.t = d.uploadRequest.t
       /\ (r.rename <=> d.uploadRequest.rename)
  BY <1>5, <1>10 DEF UploadRequest
<1> HIDE DEF r
<1>16. c \in Broker /\ True(c, f, s) /\ Keeps(b1, c) /\ c.http = Null
  BY <1>9, <1>10, <1>12, <1>15, RequestType, RequestFree
<1>17. /\ c.uploadRequest = r /\ c.activity = d.activity /\ c.saving = d.saving
       /\ c.uploading = d.uploading
  BY <1>9, <1>10 DEF Broker
<1> HIDE DEF c
<1>18. Good(c) BY <1>16, <1>17, <1>11, <1>10 DEF Good, SaveMarked
<1>19. ok \in BOOLEAN OBVIOUS
<1>20. /\ b2.uploadRequest = r /\ b2.activity = d.activity
       /\ b2.uploading = d.uploading
  BY <1>16, <1>17 DEF SetLastUploadResult, Broker
<1>21. Good(b2) /\ Calm(c, b2) BY <1>16, <1>18, <1>19, UploadResultGood, ResultCalm
<1> HIDE DEF b2
<1>22. True(b2, f, s) /\ Keeps(b1, b2) /\ b2.http = Null
  BY <1>16, <1>21, CalmKeeps, KeepsOnwards
<1>23. ASSUME ok
       PROVE  /\ True(HandleUploadSuccessful(b2, b1.storageTime), f, s)
              /\ Keeps(b1, HandleUploadSuccessful(b2, b1.storageTime))
  <2>1. r.rename => d.activity = "Rename" BY <1>15 DEF True, Tracked
  <2>2. ~r.rename => /\ d.uploading # NoFile /\ r.t = d.uploading.t
                     /\ s.ours = d.uploading.c
    BY <1>15, <1>23 DEF True, Tracked, Answered
  <2>3. b1.storageTime \in Int BY <1>7, <1>10
  <2>4. /\ True(HandleUploadSuccessful(b2, b1.storageTime), f, s)
        /\ Keeps(b2, HandleUploadSuccessful(b2, b1.storageTime))
    BY <1>15, <1>20, <1>21, <1>22, <2>1, <2>2, <2>3, UploadSuccessfulTrue
  <2> QED BY <1>22, <2>4, KeepsOnwards
<1>24. ASSUME res \notin {"OK", "Error"}
       PROVE  True(HandleUploadFailed(b2, res), f, s) /\ Keeps(b1, HandleUploadFailed(b2, res))
  <2>1. res \in {"TOO_LARGE", "UNAUTHORIZED", "FAILED", "CONFLICT"}
    BY <1>6, <1>24 DEF HttpResult
  <2>2. True(HandleUploadFailed(b2, res), f, s) /\ Keeps(b2, HandleUploadFailed(b2, res))
    BY <1>21, <1>22, <2>1, UploadFailedTrue
  <2> QED BY <1>22, <2>2, KeepsOnwards
<1>25. /\ True(UploadFinished(d), f, s) /\ Keeps(b1, UploadFinished(d))
  <2>1. CASE res = "Error" BY <1>3, <1>14, <2>1
  <2>2. CASE res = "OK" BY <1>3, <1>23, <2>2
  <2>3. CASE res \notin {"OK", "Error"} BY <1>3, <1>24, <2>3
  <2> QED BY <2>1, <2>2, <2>3
<1> QED BY <1>10, <1>13, <1>25 DEF Keeps

(* A question that is asked, or answered. *)
LEMMA QuestionType ==
    ASSUME NEW d \in Broker, NEW q \in CheckFileInfo \cup {Null}
    PROVE  [d EXCEPT !.checkFileInfo = q] \in Broker
BY ZenonT(60) DEF Broker

(* The answer to CheckFileInfo.  The size that it is compared with is never *)
(* that of somebody else's document.                                        *)
LEMMA CheckFileInfoTrue ==
    ASSUME NEW d \in Broker, d.checkFileInfo # Null, ~d.checkFileInfo.done,
           NEW answer \in {"Pass", "Unauthorized", "Fail"},
           NEW f, NEW s \in Storage, True(d, f, s)
    PROVE  /\ True(CheckFileInfoFinished(d, answer, s.t, s.c), f, s)
           /\ EditCount(CheckFileInfoFinished(d, answer, s.t, s.c).toKit) = EditCount(d.toKit)
<1> DEFINE k == Check(EndActivity(d), d.activity = "SyncFileTimestamp", "CfiInSync")
           q == [k.checkFileInfo EXCEPT !.done = TRUE]
           b1 == [k EXCEPT !.checkFileInfo = q]
           A == b1.authorized \ ({d.checkFileInfo.s} \cap d.sessions)
           known == [b1 EXCEPT !.storageTime = s.t, !.serverTime = s.t]
           unauthorized == [b1 EXCEPT !.storageTime = UnSafe, !.authorized = A]
           fail == [b1 EXCEPT !.storageTime = UnSafe]
<1>1. [k EXCEPT !.checkFileInfo.done = TRUE] = b1 OBVIOUS
<1>2. CheckFileInfoFinished(d, answer, s.t, s.c)
        = CASE answer = "Pass" -> IF d.sizeAsUploaded = s.c THEN known
                                  ELSE HandleDocumentConflict(b1)
            [] answer = "Unauthorized" -> unauthorized
            [] answer = "Fail" -> fail
  BY <1>1, Zenon DEF CheckFileInfoFinished
<1>3. k \in Broker BY EndGood, CheckGood DEF Assertion, Good
<1>4. /\ k.http = d.http /\ k.storageTime = d.storageTime /\ k.toKit = d.toKit
      /\ k.uploading = d.uploading /\ k.upload = d.upload
      /\ k.lastUploadedTime = d.lastUploadedTime
      /\ k.sizeAsUploaded = d.sizeAsUploaded
      /\ k.forced = d.forced /\ k.lastForced = d.lastForced
      /\ k.checkFileInfo = d.checkFileInfo /\ k.uploadRequest = d.uploadRequest
      /\ k.status = d.status
  BY DEF Check, EndActivity, Broker
<1> HIDE DEF k
<1>5. k.checkFileInfo \in CheckFileInfo BY <1>3, <1>4 DEF Broker
<1>6. q \in CheckFileInfo /\ q.done BY <1>5 DEF CheckFileInfo
<1> HIDE DEF q
<1>7. b1 \in Broker BY <1>3, <1>6, QuestionType
<1>8. /\ b1.http = d.http /\ b1.storageTime = d.storageTime /\ b1.toKit = d.toKit
      /\ b1.uploading = d.uploading /\ b1.upload = d.upload
      /\ b1.lastUploadedTime = d.lastUploadedTime
      /\ b1.sizeAsUploaded = d.sizeAsUploaded
      /\ b1.forced = d.forced /\ b1.lastForced = d.lastForced
      /\ b1.checkFileInfo = q /\ b1.uploadRequest = d.uploadRequest
      /\ b1.status = d.status
  BY <1>3, <1>4 DEF Broker
<1> HIDE DEF b1, A
<1>9. ~(d.http # Null /\ d.http.rename)
  BY DEF True, Tracked, Asks
<1>10. ASSUME NEW e, e.http = b1.http, e.toKit = b1.toKit,
              e.uploading = b1.uploading, e.upload = b1.upload,
              e.lastUploadedTime = b1.lastUploadedTime,
              e.sizeAsUploaded = b1.sizeAsUploaded,
              e.forced = b1.forced, e.lastForced = b1.lastForced,
              e.checkFileInfo = b1.checkFileInfo,
              e.uploadRequest = b1.uploadRequest, e.status = b1.status,
              Seen(e.storageTime, s)
       PROVE  True(e, f, s) /\ EditCount(e.toKit) = EditCount(d.toKit)
  <2>1. Tracked(e) BY <1>8, <1>9, <1>10 DEF True, Tracked
  <2>2. Unforced(e) /\ Asks(e) BY <1>6, <1>8, <1>10 DEF True, Unforced, Asks
  <2>3. Copies(e, f) BY <1>8, <1>10 DEF True, Copies
  <2>4. Uploaded(e, f, s) BY <1>8, <1>10 DEF True, Uploaded, Given
  <2>5. Answered(e, s) BY <1>8, <1>10 DEF True, Answered
  <2>6. Timed(e, s) BY <1>8, <1>10 DEF True, Timed
  <2> QED BY <1>8, <1>10, <2>1, <2>2, <2>3, <2>4, <2>5, <2>6 DEF True
<1>11. Seen(d.storageTime, s) /\ 0 <= s.t /\ s.t \in Int /\ d.sizeAsUploaded # Theirs
  BY DEF True, Timed, Storage
<1>12. Seen(UnSafe, s) BY <1>11 DEF Seen, UnSafe
<1>13. CASE answer = "Pass" /\ d.sizeAsUploaded = s.c
  <2>1. Seen(s.t, s) BY <1>11, <1>13 DEF Seen
  <2>2. /\ known.http = b1.http /\ known.toKit = b1.toKit
        /\ known.uploading = b1.uploading /\ known.upload = b1.upload
        /\ known.lastUploadedTime = b1.lastUploadedTime
        /\ known.sizeAsUploaded = b1.sizeAsUploaded
        /\ known.forced = b1.forced /\ known.lastForced = b1.lastForced
        /\ known.checkFileInfo = b1.checkFileInfo
        /\ known.uploadRequest = b1.uploadRequest /\ known.status = b1.status
        /\ known.storageTime = s.t
    BY <1>7 DEF Broker
  <2> HIDE DEF known
  <2>3. CheckFileInfoFinished(d, answer, s.t, s.c) = known BY <1>2, <1>13
  <2> QED BY <1>10, <2>1, <2>2, <2>3
<1>14. CASE answer = "Pass" /\ d.sizeAsUploaded # s.c
  <2> DEFINE h == HandleDocumentConflict(b1)
  <2>1. Calm(b1, h) BY <1>7, SmallCalm
  <2>2. CheckFileInfoFinished(d, answer, s.t, s.c) = h BY <1>2, <1>14
  <2> HIDE DEF h
  <2>3. True(b1, f, s) /\ EditCount(b1.toKit) = EditCount(d.toKit) BY <1>8, <1>10, <1>11
  <2> QED BY <2>1, <2>2, <2>3, CalmKeeps DEF Keeps
<1>15. CASE answer = "Unauthorized"
  <2>1. /\ unauthorized.http = b1.http /\ unauthorized.toKit = b1.toKit
        /\ unauthorized.uploading = b1.uploading /\ unauthorized.upload = b1.upload
        /\ unauthorized.lastUploadedTime = b1.lastUploadedTime
        /\ unauthorized.sizeAsUploaded = b1.sizeAsUploaded
        /\ unauthorized.forced = b1.forced /\ unauthorized.lastForced = b1.lastForced
        /\ unauthorized.checkFileInfo = b1.checkFileInfo
        /\ unauthorized.uploadRequest = b1.uploadRequest
        /\ unauthorized.status = b1.status /\ unauthorized.storageTime = UnSafe
    BY <1>7 DEF Broker
  <2> HIDE DEF unauthorized
  <2>2. CheckFileInfoFinished(d, answer, s.t, s.c) = unauthorized BY <1>2, <1>15
  <2> QED BY <1>10, <1>12, <2>1, <2>2
<1>16. CASE answer = "Fail"
  <2>1. /\ fail.http = b1.http /\ fail.toKit = b1.toKit
        /\ fail.uploading = b1.uploading /\ fail.upload = b1.upload
        /\ fail.lastUploadedTime = b1.lastUploadedTime
        /\ fail.sizeAsUploaded = b1.sizeAsUploaded
        /\ fail.forced = b1.forced /\ fail.lastForced = b1.lastForced
        /\ fail.checkFileInfo = b1.checkFileInfo
        /\ fail.uploadRequest = b1.uploadRequest
        /\ fail.status = b1.status /\ fail.storageTime = UnSafe
    BY <1>7 DEF Broker
  <2> HIDE DEF fail
  <2>2. CheckFileInfoFinished(d, answer, s.t, s.c) = fail BY <1>2, <1>16
  <2> QED BY <1>10, <1>12, <2>1, <2>2
<1> QED BY <1>13, <1>14, <1>15, <1>16

-----------------------------------------------------------------------------
(* The promise, step by step. *)

(* No user forces anything, so what is blind is what the promise calls      *)
(* unknown.                                                                 *)
LEMMA KnownIs ==
    ASSUME Truthful
    PROVE  /\ ~Forced /\ (Unknown <=> Blind(b))
           /\ Known = IF Blind(b) THEN "no" ELSE IF Asking THEN "asking" ELSE "yes"
BY DEF Truthful, True, Unforced, Forced, Unknown, Blind, Known

(* No user does, before or after. *)
LEMMA NeverForced ==
    ASSUME Truthful, Truthful'
    PROVE  Forced = FALSE /\ Forced' = FALSE
<1>1. /\ b.forced = FALSE /\ b.lastForced = FALSE
      /\ b'.forced = FALSE /\ b'.lastForced = FALSE
  BY DEF Truthful, True, Unforced, Inv, Good, Broker
<1>2. Forced = FALSE BY <1>1 DEF Forced
<1>3. Forced' = FALSE BY <1>1 DEF Forced
<1> QED BY <1>2, <1>3

(* A step that leaves the edits, the Kit's file and the storage alone, and  *)
(* that forgets the version in storage only where it asks for it.           *)
LEMMA Steady ==
    ASSUME Truthful, Inv', True(b', kit.doc, srv), srv' = srv,
           kit'.doc = kit.doc, kit'.edits = kit.edits, Saved(kit'),
           left'.forces = left.forces,
           EditCount(b'.toKit) = EditCount(b.toKit),
           Blind(b') => Blind(b) \/ Asking
    PROVE  Truthful' /\ [Promise!Next]_(Promise!vars)
<1>1. Truthful' BY DEF Truthful
<1>2. /\ ~Forced /\ ~Forced'
      /\ Known = IF Blind(b) THEN "no" ELSE IF Asking THEN "asking" ELSE "yes"
      /\ Known' = IF Blind(b') THEN "no" ELSE IF Asking' THEN "asking" ELSE "yes"
  BY <1>1, KnownIs DEF Truthful, True, Unforced, Forced, Unknown, Blind, Known
<1>3. Known' \in Promise!Follow[Known]
  BY <1>2 DEF Promise!Follow, Promise!Knowledge
<1>4. Forwarded' = Forwarded
  BY DEF Forwarded, EditCount, EditsIn
<1>5. Forced' = FALSE /\ Forced = FALSE BY <1>1, NeverForced
<1>6. Forced' \in {Forced, FALSE} BY <1>5
<1>7. UNCHANGED <<Forwarded, kit.doc.c, srv.ours, srv.c>> BY <1>4
<1>8. Promise!Track BY <1>3, <1>6, <1>7, Zenon DEF Promise!Track
<1> QED BY <1>1, <1>8 DEF Promise!Next

(* What every step is shown to do. *)
Kept == Truthful' /\ [Promise!Next]_(Promise!vars)

(* A step that only touches the broker, and calmly enough. *)
LEMMA KeepsKept ==
    ASSUME Truthful, Inv', True(b', kit.doc, srv), Keeps(b, b'),
           kit'.doc = kit.doc, kit'.edits = kit.edits, kit'.save = kit.save,
           srv' = srv, left'.forces = left.forces
    PROVE  Kept
<1>1. Saved(kit') BY DEF Truthful, Saved
<1>2. EditCount(b'.toKit) = EditCount(b.toKit) /\ (Blind(b') => Blind(b)) BY DEF Keeps
<1> QED BY <1>1, <1>2, Steady DEF Kept

(* A calm step. *)
LEMMA CalmKept ==
    ASSUME Truthful, Inv', Calm(b, b'),
           kit'.doc = kit.doc, kit'.edits = kit.edits, kit'.save = kit.save,
           srv' = srv, left'.forces = left.forces
    PROVE  Kept
BY CalmKeeps, KeepsKept DEF Truthful

(* Using up another of the bounded events. *)
LEMMA ForcesLeft ==
    ASSUME left \in Budget
    PROVE  /\ [left EXCEPT !.edits = @ - 1].forces = left.forces
           /\ [left EXCEPT !.commands = @ - 1].forces = left.forces
           /\ [left EXCEPT !.renames = @ - 1].forces = left.forces
           /\ [left EXCEPT !.failed = @ - 1].forces = left.forces
           /\ [left EXCEPT !.changes = @ - 1].forces = left.forces
           /\ \A n : [left EXCEPT !.timeouts = n].forces = left.forces
BY DEF Budget

-----------------------------------------------------------------------------
(* The clients. *)

(* Adding a session. *)
LEMMA FirstType ==
    ASSUME NEW d \in Broker, NEW t \in Int
    PROVE  [d EXCEPT !.status = "Loading", !.serverTime = t, !.storageTime = t] \in Broker
BY ZenonT(60) DEF Broker, Status

(* Another session. *)
LEMMA AddedType ==
    ASSUME NEW d \in Broker, NEW S \in SUBSET Session, NEW C \in SUBSET Session,
           NEW A \in SUBSET Session, NEW E \in SUBSET Session,
           NEW T \in [Session -> SessionState]
    PROVE  [d EXCEPT !.sessions = S, !.state = T, !.connected = C,
                     !.authorized = A, !.editable = E] \in Broker
BY ZenonT(60) DEF Broker

(* The first session of a broker learns which version is stored. *)
LEMMA AddSessionKept ==
    ASSUME Truthful, Inv', NEW s \in Session, AddSession(s)
    PROVE  Kept
<1> DEFINE b1 == [b EXCEPT !.unloadRequested = FALSE]
           g == [b1 EXCEPT !.status = "Loading", !.serverTime = srv.t,
                           !.storageTime = srv.t]
           b2 == IF b.status = "None" THEN g
                 ELSE IF srv.t # b.serverTime /\ b.uploadRequest = Null
                 THEN HandleDocumentConflict(b1) ELSE b1
           S == b2.sessions \cup {s}
           T == [b2.state EXCEPT ![s] = "LOADING"]
           C == b2.connected \cup {s}
           A == b2.authorized \cup {s}
           E == b2.editable \cup ({s} \ ReadOnly)
           b3 == [b2 EXCEPT !.sessions = S, !.state = T, !.connected = C,
                            !.authorized = A, !.editable = E]
<1>1. b' = ForwardToChild(b3, Command("load", s, FALSE))
  BY Zenon DEF AddSession
<1>2. Good(b) /\ b \in Broker /\ srv \in Storage /\ True(b, kit.doc, srv)
  BY DEF Truthful, Inv, Good
<1>3. srv.t \in Int BY <1>2 DEF Storage
<1>4. Good(b1) /\ b1 \in Broker BY <1>2, UnloadGood DEF Good
<1>5. Calm(b, b1) BY <1>2, SmallCalm
<1>6. b1.status = b.status BY <1>2 DEF Broker
<1> HIDE DEF b1
<1>7. True(b1, kit.doc, srv) /\ Keeps(b, b1) BY <1>2, <1>5, CalmKeeps
<1>8. g \in Broker BY <1>3, <1>4, FirstType
<1>9. ASSUME b.status = "None" PROVE True(g, kit.doc, srv) /\ Keeps(b1, g)
  <2>1. /\ g.http = b1.http /\ g.uploadRequest = b1.uploadRequest
        /\ g.uploading = b1.uploading /\ g.upload = b1.upload
        /\ g.lastUploadedTime = b1.lastUploadedTime /\ g.storageTime = srv.t
        /\ g.forced = b1.forced /\ g.lastForced = b1.lastForced
        /\ g.sizeAsUploaded = b1.sizeAsUploaded
        /\ g.checkFileInfo = b1.checkFileInfo /\ g.status = "Loading"
        /\ g.activity = b1.activity /\ g.toKit = b1.toKit
    BY <1>4 DEF Broker
  <2> HIDE DEF g
  <2>2. 0 <= srv.t /\ srv.c # Theirs BY <1>2, <1>9 DEF True, Timed
  <2>3. Seen(srv.t, srv) /\ srv.t # UnSafe BY <1>3, <2>2 DEF Seen, UnSafe
  <2>4. Keeps(b1, g) BY <2>1, <2>3 DEF Keeps, Blind
  <2>5. Tracked(g) BY <1>7, <2>1 DEF True, Tracked
  <2>6. Unforced(g) /\ Asks(g) BY <1>7, <2>1 DEF True, Unforced, Asks
  <2>7. Copies(g, kit.doc) BY <1>7, <2>1 DEF True, Copies
  <2>8. Uploaded(g, kit.doc, srv) BY <1>7, <2>1 DEF True, Uploaded, Given
  <2>9. Answered(g, srv) BY <1>7, <2>1 DEF True, Answered
  <2>10. Timed(g, srv) BY <1>7, <2>1, <2>2, <2>3 DEF True, Timed
  <2> QED BY <2>4, <2>5, <2>6, <2>7, <2>8, <2>9, <2>10 DEF True
<1> HIDE DEF g
<1>10. True(b2, kit.doc, srv) /\ Keeps(b, b2) /\ b2 \in Broker
  <2>1. CASE b.status = "None" BY <1>7, <1>8, <1>9, <2>1, KeepsOnwards
  <2>2. CASE b.status # "None"
    <3>1. Calm(b1, HandleDocumentConflict(b1)) BY <1>4, SmallCalm
    <3>2. HandleDocumentConflict(b1) \in Broker BY <1>4, DocumentGood DEF Good
    <3> QED BY <1>4, <1>7, <2>2, <3>1, <3>2, CalmKeeps, KeepsOnwards
  <2> QED BY <2>1, <2>2
<1> HIDE DEF b2
<1>11. /\ S \in SUBSET Session /\ C \in SUBSET Session
       /\ A \in SUBSET Session /\ E \in SUBSET Session
  BY <1>10 DEF Broker
<1>12. T \in [Session -> SessionState] BY <1>10 DEF Broker, SessionState
<1> HIDE DEF S, T, C, A, E
<1>13. b3 \in Broker BY <1>10, <1>11, <1>12, AddedType
<1>14. Calm(b2, b3) BY <1>10 DEF Broker, Calm
<1> HIDE DEF b3
<1>15. Command("load", s, FALSE) \in KitCommand /\ Command("load", s, FALSE).k # "edit"
  BY CommandType DEF Command
<1>16. Calm(b3, b') BY <1>1, <1>13, <1>15, ForwardCalm
<1>17. True(b', kit.doc, srv) /\ Keeps(b, b')
  BY <1>10, <1>14, <1>16, CalmKeeps, KeepsOnwards
<1>18. UNCHANGED <<kit, srv, left>> BY DEF AddSession
<1> QED BY <1>17, <1>18, KeepsKept

(* A session that could not be added, one that goes and one whose token     *)
(* expires.                                                                 *)
LEMMA SessionKept ==
    ASSUME Truthful, Inv', NEW s \in Session,
           \/ AddSessionFails(s) \/ ClientDisconnects(s) \/ ClientRemovesSession(s)
           \/ DiscardChanges(s) \/ TokenExpires(s)
    PROVE  Kept
<1>1. Good(b) /\ b \in Broker /\ left \in Budget BY DEF Truthful, Inv, Good
<1>2. CASE AddSessionFails(s)
  <2> DEFINE b1 == [b EXCEPT !.unloadRequested = FALSE]
  <2>1. b' = IF b.sessions = {} THEN MarkToDestroy(b1) ELSE b1
    BY <1>2, Zenon DEF AddSessionFails
  <2>2. Calm(b, b1) /\ b1 \in Broker BY <1>1, SmallCalm, UnloadGood DEF Good
  <2> HIDE DEF b1
  <2>3. Calm(b, MarkToDestroy(b1)) BY <2>2, SmallCalm, CalmOnwards
  <2> QED BY <1>2, <2>1, <2>2, <2>3, CalmKept DEF AddSessionFails
<1>3. CASE ClientDisconnects(s)
  <2>1. PICK w \in WriteableSession(b) :
          b' = [RemoveSession(b, s, w) EXCEPT !.connected = @ \ {s},
                                              !.closeFrame = @ \cup {s}]
    BY <1>3 DEF ClientDisconnects
  <2> DEFINE d == RemoveSession(b, s, w)
             C == d.connected \ {s}
             F == d.closeFrame \cup {s}
             e == [d EXCEPT !.connected = C, !.closeFrame = F]
  <2>2. b' = e BY <2>1, Zenon
  <2>3. d \in Broker /\ Calm(b, d) BY <1>1, RemoveSessionGood, RemoveSessionCalm DEF Good
  <2> HIDE DEF d, C, F
  <2>4. Calm(d, e) BY <2>3 DEF Broker, Calm
  <2>5. Calm(b, b') BY <2>2, <2>3, <2>4, CalmOnwards
  <2> QED BY <1>3, <2>5, CalmKept DEF ClientDisconnects
<1>4. CASE ClientRemovesSession(s)
  <2>1. Calm(b, b') BY <1>1, <1>4, RemoveSessionCalm DEF ClientRemovesSession
  <2> QED BY <1>1, <1>4, <2>1, ForcesLeft, CalmKept DEF ClientRemovesSession
<1>5. CASE DiscardChanges(s)
  BY <1>1, <1>5, SmallCalm, CalmKept DEF DiscardChanges
<1>6. CASE TokenExpires(s)
  <2>1. Calm(b, b') BY <1>1, <1>6 DEF TokenExpires, Broker, Calm
  <2> QED BY <1>6, <2>1, CalmKept DEF TokenExpires
<1> QED BY <1>2, <1>3, <1>4, <1>5, <1>6

(* Saving first and renaming then. *)
LEMMA StartRenameCalm ==
    ASSUME NEW d \in Broker, d.activity = "None"
    PROVE  Calm(d, StartRename(d))
<1> DEFINE e == [d EXCEPT !.activity = "Rename"]
           f == SendUnoSave(e, d.renameSession, TRUE)
<1>1. StartRename(d) = IF d.renameSession \in d.sessions THEN f ELSE EndRename(d)
  BY Zenon DEF StartRename
<1>2. e \in Broker BY DEF Broker, Activity
<1>3. Calm(d, e) /\ Calm(d, EndRename(d)) BY DEF Broker, Calm, EndRename
<1> HIDE DEF e
<1>4. Calm(e, f) BY <1>2, SaveCalm
<1> HIDE DEF f
<1>5. Calm(d, f) BY <1>3, <1>4, CalmOnwards
<1> QED BY <1>1, <1>3, <1>5

(* Saves, renames and the request to close the document.                    *)
LEMMA RequestKept ==
    ASSUME Truthful, Inv',
           \/ \E s \in Session : RenameFile(s) \/ \E f \in BOOLEAN : ManualSave(s, f)
           \/ AdminSave \/ RequestClose
    PROVE  Kept
<1>1. Good(b) /\ b \in Broker /\ left \in Budget BY DEF Truthful, Inv, Good
<1>2. ASSUME NEW s \in Session, RenameFile(s) PROVE Kept
  <2> DEFINE b1 == [b EXCEPT !.renameSession = s]
  <2>1. b' = IF b.activity = "None" THEN StartRename(b1) ELSE b1
    BY <1>2, Zenon DEF RenameFile
  <2>2. b1 \in Broker BY <1>1, ZenonT(60) DEF Broker
  <2>3. Calm(b, b1) /\ b1.activity = b.activity BY <1>1 DEF Broker, Calm
  <2> HIDE DEF b1
  <2>4. b.activity = "None" => Calm(b, StartRename(b1))
    BY <2>2, <2>3, StartRenameCalm, CalmOnwards
  <2> QED BY <1>1, <1>2, <2>1, <2>3, <2>4, ForcesLeft, CalmKept DEF RenameFile
<1>3. ASSUME NEW s \in Session, NEW f \in BOOLEAN, ManualSave(s, f) PROVE Kept
  <2>1. Calm(b, b') BY <1>1, <1>3, SaveCalm, CalmSame DEF ManualSave
  <2> QED BY <1>1, <1>3, <2>1, ForcesLeft, CalmKept DEF ManualSave
<1>4. CASE AdminSave
  <2>1. Calm(b, b') BY <1>1, <1>4, SaveCalm DEF AdminSave
  <2> QED BY <1>1, <1>4, <2>1, ForcesLeft, CalmKept DEF AdminSave
<1>5. CASE RequestClose BY <1>1, <1>5, SmallCalm, CalmKept DEF RequestClose
<1> QED BY <1>2, <1>3, <1>4, <1>5

(* Nothing that is true depends on the commands that the Kit has to handle. *)
LEMMA QueueTrue ==
    ASSUME NEW d \in Broker, NEW q, NEW f, NEW s, True(d, f, s)
    PROVE  LET e == [d EXCEPT !.toKit = q]
           IN  True(e, f, s) /\ (Blind(e) <=> Blind(d)) /\ e.toKit = q
               /\ e.activity = d.activity /\ e.http = d.http
<1> DEFINE e == [d EXCEPT !.toKit = q]
<1>1. /\ e.http = d.http /\ e.uploadRequest = d.uploadRequest
      /\ e.uploading = d.uploading /\ e.upload = d.upload
      /\ e.lastUploadedTime = d.lastUploadedTime /\ e.storageTime = d.storageTime
      /\ e.forced = d.forced /\ e.lastForced = d.lastForced
      /\ e.sizeAsUploaded = d.sizeAsUploaded /\ e.checkFileInfo = d.checkFileInfo
      /\ e.activity = d.activity /\ e.status = d.status /\ e.toKit = q
  BY DEF Broker
<1> HIDE DEF e
<1>2. Tracked(e) /\ Answered(e, s) BY <1>1 DEF True, Tracked, Answered
<1>3. Unforced(e) /\ Asks(e) BY <1>1 DEF True, Unforced, Asks
<1>4. Copies(e, f) BY <1>1 DEF True, Copies
<1>5. Uploaded(e, f, s) BY <1>1 DEF True, Uploaded, Given
<1>6. Timed(e, s) BY <1>1 DEF True, Timed
<1>7. True(e, f, s) BY <1>2, <1>3, <1>4, <1>5, <1>6 DEF True
<1>8. Blind(e) <=> Blind(d) BY <1>1 DEF Blind
<1> QED BY <1>1, <1>7, <1>8 DEF e

(* A user's edit is accepted when it is sent to the Kit. *)
LEMMA EditKept ==
    ASSUME Truthful, Inv', NEW s \in Session, NEW isKey \in BOOLEAN, Edit(s, isKey)
    PROVE  Kept
<1> DEFINE b1 == [b EXCEPT !.modifiedAfterSave = TRUE, !.lastEditing = s]
           m == Command("edit", s, FALSE)
           q == Append(b1.toKit, m)
<1>1. b' = IF isKey /\ IsUnloading(b) THEN b1 ELSE ForwardToChild(b1, m)
  BY Zenon DEF Edit
<1>2. Good(b) /\ b \in Broker /\ left \in Budget /\ True(b, kit.doc, srv) /\ kit \in Kit
  BY DEF Truthful, Inv, Good
<1>3. UNCHANGED <<kit, srv>> /\ left'.forces = left.forces
  BY <1>2, ForcesLeft DEF Edit
<1>4. s \in b.sessions BY DEF Edit, CanSend
<1>5. b1 \in Broker BY <1>2, ZenonT(60) DEF Broker
<1>6. /\ Calm(b, b1) /\ b1.sessions = b.sessions /\ b1.activity = b.activity
      /\ b1.http = b.http /\ b1.toKit = b.toKit
  BY <1>2 DEF Broker, Calm
<1> HIDE DEF b1
<1>7. m \in KitCommand /\ m.s = s /\ m.k = "edit" BY CommandType DEF Command
<1> HIDE DEF m
<1>8. CASE isKey /\ IsUnloading(b) BY <1>1, <1>3, <1>6, <1>8, CalmKept
<1>9. CASE ~(isKey /\ IsUnloading(b))
  <2>1. b' = [b1 EXCEPT !.toKit = q]
    BY <1>1, <1>4, <1>6, <1>7, <1>9 DEF ForwardToChild
  <2>2. EditCount(q) = EditCount(b.toKit) + 1
    BY <1>2, <1>6, <1>7, EditsAppend DEF Broker
  <2> HIDE DEF q
  <2>3. True(b1, kit.doc, srv) /\ (Blind(b1) <=> Blind(b)) BY <1>2, <1>6, CalmTrue, CalmOnwards
  <2>4. /\ True(b', kit.doc, srv) /\ (Blind(b') <=> Blind(b)) /\ b'.toKit = q
        /\ b'.activity = b.activity /\ b'.http = b.http
    BY <1>5, <1>6, <2>1, <2>3, QueueTrue
  <2>5. Truthful' BY <1>3, <2>4 DEF Truthful, Saved
  <2>6. Forwarded' = Forwarded + 1
    <3>1. EditCount(b.toKit) \in Nat /\ kit.edits \in Int
      BY <1>2, EditsFinite DEF Broker, Kit
    <3>2. Forwarded' = kit.edits + EditCount(q)
      BY <1>3, <2>4 DEF Forwarded, EditCount, EditsIn
    <3>3. Forwarded = kit.edits + EditCount(b.toKit) BY DEF Forwarded, EditCount, EditsIn
    <3> QED BY <2>2, <3>1, <3>2, <3>3
  <2>7. Known' = Known /\ Forced' = Forced
    <3>1. Asking' <=> Asking BY <2>4 DEF Asking
    <3>2. /\ ~Forced /\ ~Forced'
          /\ Known = IF Blind(b) THEN "no" ELSE IF Asking THEN "asking" ELSE "yes"
          /\ Known' = IF Blind(b') THEN "no" ELSE IF Asking' THEN "asking" ELSE "yes"
      BY <2>5, KnownIs DEF Truthful, True, Unforced, Forced, Unknown, Blind, Known
    <3> QED BY <2>4, <2>5, <3>1, <3>2, NeverForced
  <2>8. Promise!Type BY <1>3, <2>6, <2>7 DEF Promise!Type
  <2> QED BY <2>5, <2>8 DEF Kept, Promise!Next
<1> QED BY <1>8, <1>9

(* All of them. *)
LEMMA ClientKept == Truthful /\ Inv' /\ ClientStep => Kept
<1> SUFFICES ASSUME Truthful, Inv', ClientStep PROVE Kept OBVIOUS
<1>1. ASSUME NEW s \in Session, SaveToStorage(s) PROVE FALSE
  BY <1>1 DEF SaveToStorage, Truthful
<1> QED BY <1>1, AddSessionKept, SessionKept, RequestKept, EditKept DEF ClientStep

-----------------------------------------------------------------------------
(* The Kit. *)

(* A file is a version of itself, and of every file that is newer. *)
LEMMA CopyTrue ==
    ASSUME NEW d \in Broker, NEW f \in File, NEW g \in File, NEW s,
           True(d, f, s), Before(f, g), g = f \/ f.t < g.t
    PROVE  LET e == [d EXCEPT !.upload = g]
           IN  True(e, g, s) /\ (Blind(e) <=> Blind(d)) /\ e.toKit = d.toKit
               /\ e.activity = d.activity /\ e.http = d.http
<1> DEFINE e == [d EXCEPT !.upload = g]
<1>1. /\ e.http = d.http /\ e.uploadRequest = d.uploadRequest
      /\ e.uploading = d.uploading /\ e.upload = g
      /\ e.lastUploadedTime = d.lastUploadedTime /\ e.storageTime = d.storageTime
      /\ e.forced = d.forced /\ e.lastForced = d.lastForced
      /\ e.sizeAsUploaded = d.sizeAsUploaded /\ e.checkFileInfo = d.checkFileInfo
      /\ e.activity = d.activity /\ e.status = d.status /\ e.toKit = d.toKit
  BY DEF Broker
<1>2. /\ f.t \in Int /\ f.c \in Int /\ g.t \in Int /\ g.c \in Int
      /\ d.uploading.t \in Int /\ d.uploading.c \in Int /\ d.lastUploadedTime \in Int
  BY DEF Broker, File
<1> HIDE DEF e
<1>3. Tracked(e) /\ Answered(e, s) BY <1>1 DEF True, Tracked, Answered
<1>4. Unforced(e) /\ Asks(e) BY <1>1 DEF True, Unforced, Asks
<1>5. Before(g, g) BY <1>2 DEF Before
<1>6. d.uploading # NoFile => Before(d.uploading, g)
  <2>1. d.uploading # NoFile => Before(d.uploading, f) BY DEF True, Copies
  <2> QED BY <1>2, <2>1 DEF Before
<1>7. Copies(e, g) BY <1>1, <1>5, <1>6 DEF Copies
<1>8. d.lastUploadedTime <= f.t /\ Given(f, d, s) BY DEF True, Uploaded
<1>9. d.lastUploadedTime <= g.t BY <1>2, <1>8 DEF Before
<1>10. Given(g, d, s) BY <1>2, <1>8 DEF Given
<1>11. Uploaded(e, g, s) BY <1>1, <1>9, <1>10 DEF True, Uploaded, Given
<1>12. Timed(e, s) BY <1>1 DEF True, Timed
<1>13. True(e, g, s) BY <1>3, <1>4, <1>7, <1>11, <1>12 DEF True
<1>14. Blind(e) <=> Blind(d) BY <1>1 DEF Blind
<1> QED BY <1>1, <1>13, <1>14 DEF e

(* The Kit takes the next command. *)
LEMMA RestTrue ==
    ASSUME Truthful, b.toKit # <<>>
    PROVE  /\ Rest \in Broker /\ True(Rest, kit.doc, srv) /\ (Blind(Rest) <=> Blind(b))
           /\ Rest.activity = b.activity /\ Rest.http = b.http
           /\ EditCount(b.toKit) = IF Cmd.k = "edit" THEN EditCount(Rest.toKit) + 1
                                   ELSE EditCount(Rest.toKit)
<1>1. b \in Broker /\ True(b, kit.doc, srv) /\ Inv BY DEF Truthful, Inv, Good
<1>2. kit.doc \in File BY <1>1 DEF Inv, Kit
<1>3. Rest \in Broker BY <1>1, <1>2, HandOver DEF Good
<1> DEFINE q == Tail(b.toKit)
<1>4. Rest = [b EXCEPT !.toKit = q] BY Zenon DEF Rest
<1>5. EditCount(b.toKit) = IF Cmd.k = "edit" THEN EditCount(q) + 1 ELSE EditCount(q)
  BY <1>1, EditsTail DEF Broker, Cmd
<1> HIDE DEF q, Rest, Cmd
<1>6. /\ True(Rest, kit.doc, srv) /\ (Blind(Rest) <=> Blind(b)) /\ Rest.toKit = q
      /\ Rest.activity = b.activity /\ Rest.http = b.http
  BY <1>1, <1>4, QueueTrue
<1> QED BY <1>3, <1>5, <1>6

(* The Kit's document is one that may be copied. *)
LEMMA DocumentIs ==
    ASSUME Truthful
    PROVE  /\ kit.doc \in File /\ kit \in Kit /\ kit.save \in KitSave \cup {Null}
           /\ kit.edits \in Nat /\ Before(kit.doc, kit.doc)
<1>1. /\ kit.doc \in File /\ kit \in Kit /\ kit.save \in KitSave \cup {Null}
      /\ kit.edits \in Nat
  BY DEF Truthful, Inv, Kit
<1>2. Before(kit.doc, kit.doc) BY <1>1 DEF Truthful, Saved, Before, File
<1> QED BY <1>1, <1>2

(* Steps that have nothing to do with the document. *)
LEMMA KitIdleKept ==
    ASSUME Truthful, Inv', KitLoad \/ KitDisconnect \/ KitSaveStarts \/ KitCrash
    PROVE  Kept
<1>1. /\ kit \in Kit /\ kit.doc.c \in Int /\ kit.edits \in Nat
      /\ b \in Broker /\ True(b, kit.doc, srv)
  BY DocumentIs DEF File, Truthful, Inv, Good
<1>2. srv' = srv /\ left' = left
  BY DEF KitLoad, KitDisconnect, KitSaveStarts, KitCrash
<1>3. kit'.doc = kit.doc /\ kit'.edits = kit.edits
  BY <1>1 DEF KitLoad, KitDisconnect, KitSaveStarts, KitCrash, Kit
<1>4. /\ KitLoad => kit'.save = kit.save
      /\ KitDisconnect => kit'.save \in {Null, kit.save}
      /\ KitCrash => kit'.save = Null
  BY <1>1 DEF KitLoad, KitDisconnect, KitCrash, Kit
<1>5. KitSaveStarts => kit'.save.c = kit.edits
  BY <1>1 DEF KitSaveStarts, Kit
<1>6. Saved(kit') BY <1>1, <1>3, <1>4, <1>5 DEF Truthful, Saved
<1>7. CASE KitCrash
  <2>1. b' = b BY <1>7 DEF KitCrash
  <2> QED BY <1>1, <1>2, <1>3, <1>6, <2>1, Steady DEF Kept
<1>8. CASE KitLoad \/ KitDisconnect \/ KitSaveStarts
  <2>1. b' = Rest /\ b.toKit # <<>> /\ Cmd.k # "edit"
    BY <1>8 DEF KitLoad, KitDisconnect, KitSaveStarts, Heard, Cmd
  <2>2. /\ True(b', kit.doc, srv) /\ (Blind(b') <=> Blind(b))
        /\ EditCount(b.toKit) = EditCount(b'.toKit)
    BY <2>1, RestTrue
  <2> QED BY <1>2, <1>3, <1>6, <2>2, Steady DEF Kept
<1> QED BY <1>7, <1>8

(* What the broker knows about the storage is none of the Kit's business. *)
LEMMA KnownSame ==
    ASSUME Truthful, Truthful', Blind(b') <=> Blind(b), b'.activity = b.activity,
           b'.http # Null /\ b'.http.rename <=> b.http # Null /\ b.http.rename
    PROVE  Known' = Known /\ Forced' = Forced
<1>1. Asking' <=> Asking BY DEF Asking
<1>2. /\ ~Forced /\ ~Forced'
      /\ Known = IF Blind(b) THEN "no" ELSE IF Asking THEN "asking" ELSE "yes"
      /\ Known' = IF Blind(b') THEN "no" ELSE IF Asking' THEN "asking" ELSE "yes"
  BY KnownIs DEF Truthful, True, Unforced, Forced, Unknown, Blind, Known
<1> QED BY <1>1, <1>2, NeverForced

(* An edit is as much of the document in the Kit as on its way there. *)
LEMMA KitEditKept ==
    ASSUME Truthful, Inv', KitEdit
    PROVE  Kept
<1>1. b' = Rest /\ b.toKit # <<>> /\ Cmd.k = "edit" /\ srv' = srv /\ left' = left
  BY DEF KitEdit, Heard, Cmd
<1>2. /\ kit \in Kit /\ kit.doc.c \in Int /\ kit.edits \in Nat
      /\ kit.save \in KitSave \cup {Null} /\ b \in Broker
  BY DocumentIs DEF File, Truthful, Inv, Good
<1>3. kit'.doc = kit.doc /\ kit'.save = kit.save /\ kit'.edits = kit.edits + 1
  BY <1>2 DEF KitEdit, Kit
<1>4. /\ True(b', kit.doc, srv) /\ (Blind(b') <=> Blind(b))
      /\ EditCount(b.toKit) = EditCount(b'.toKit) + 1 /\ b' \in Broker
      /\ b'.activity = b.activity /\ b'.http = b.http
  BY <1>1, RestTrue
<1>5. Saved(kit')
  <2>1. kit.save # Null => kit.save.c \in Int BY <1>2 DEF KitSave
  <2> QED BY <1>2, <1>3, <2>1 DEF Truthful, Saved
<1>6. Truthful' BY <1>1, <1>3, <1>4, <1>5 DEF Truthful
<1>7. Forwarded' = Forwarded
  <2>1. EditCount(b'.toKit) \in Nat BY <1>4, EditsFinite DEF Broker
  <2>2. Forwarded' = kit'.edits + EditCount(b'.toKit) BY DEF Forwarded, EditCount, EditsIn
  <2>3. Forwarded = kit.edits + EditCount(b.toKit) BY DEF Forwarded, EditCount, EditsIn
  <2> QED BY <1>2, <1>3, <1>4, <2>1, <2>2, <2>3
<1>8. Known' = Known /\ Forced' = Forced BY <1>4, <1>6, KnownSame
<1>9. UNCHANGED Promise!vars BY <1>1, <1>3, <1>7, <1>8 DEF Promise!vars
<1> QED BY <1>6, <1>9 DEF Kept

(* A save that Core skips, and one that fails. *)
LEMMA KitCopyKept ==
    ASSUME Truthful, Inv', KitSaveUnmodified \/ \E copied \in BOOLEAN : KitSaveFails(copied)
    PROVE  Kept
<1>1. /\ kit \in Kit /\ kit.doc \in File /\ Before(kit.doc, kit.doc)
      /\ b \in Broker /\ True(b, kit.doc, srv)
  BY DocumentIs DEF Truthful, Inv, Good
<1>2. srv' = srv /\ left' = left BY DEF KitSaveUnmodified, KitSaveFails
<1>3. /\ kit'.doc = kit.doc /\ kit'.edits = kit.edits
      /\ kit'.save \in {Null, kit.save}
  BY <1>1 DEF KitSaveUnmodified, KitSaveFails, Kit
<1>4. Saved(kit') BY <1>3 DEF Truthful, Saved
<1>5. ASSUME NEW d \in Broker, True(d, kit.doc, srv), Blind(d) <=> Blind(b),
             EditCount(d.toKit) = EditCount(b.toKit), b' = [d EXCEPT !.upload = kit.doc]
      PROVE  Kept
  <2>1. True(b', kit.doc, srv) /\ (Blind(b') <=> Blind(d)) /\ b'.toKit = d.toKit
    BY <1>1, <1>5, CopyTrue
  <2> QED BY <1>2, <1>3, <1>4, <1>5, <2>1, Steady DEF Kept
<1>6. CASE KitSaveUnmodified
  <2>1. /\ b' = [Rest EXCEPT !.upload = kit.doc]
        /\ b.toKit # <<>> /\ Cmd.k # "edit"
    BY <1>6 DEF KitSaveUnmodified, Heard, Cmd
  <2>2. /\ Rest \in Broker /\ True(Rest, kit.doc, srv) /\ (Blind(Rest) <=> Blind(b))
        /\ EditCount(b.toKit) = EditCount(Rest.toKit)
    BY <2>1, RestTrue
  <2> QED BY <1>5, <2>1, <2>2
<1>7. ASSUME NEW copied \in BOOLEAN, KitSaveFails(copied) PROVE Kept
  <2>1. CASE copied
    <3>1. b' = [b EXCEPT !.upload = kit.doc] BY <1>7, <2>1 DEF KitSaveFails
    <3> QED BY <1>1, <1>5, <3>1
  <2>2. CASE ~copied
    <3>1. b' = b BY <1>7, <2>2 DEF KitSaveFails
    <3> QED BY <1>1, <1>2, <1>3, <1>4, <3>1, Steady DEF Kept
  <2> QED BY <2>1, <2>2
<1> QED BY <1>6, <1>7

(* A save adds the edits that were made until it started. *)
LEMMA KitSavedKept ==
    ASSUME Truthful, Inv', KitSaved
    PROVE  Kept
<1> DEFINE file == [t |-> kit.doc.t + 1, c |-> kit.save.c]
<1>1. /\ kit \in Kit /\ kit.doc \in File /\ kit.edits \in Nat
      /\ b \in Broker /\ True(b, kit.doc, srv)
  BY DocumentIs DEF Truthful, Inv, Good
<1>2. kit.save \in KitSave /\ kit.save # Null BY DocumentIs DEF KitSaved
<1>3. /\ kit.doc.t \in Int /\ kit.doc.c \in Int /\ kit.save.c \in Int
      /\ 0 <= kit.doc.t /\ 0 <= kit.doc.c
      /\ kit.doc.c <= kit.save.c /\ kit.save.c <= kit.edits
  BY <1>1, <1>2 DEF Truthful, Saved, File, KitSave
<1>4. file \in File /\ Before(kit.doc, file) /\ kit.doc.t < file.t
  BY <1>3 DEF File, Before
<1>5. b' = [b EXCEPT !.upload = file] /\ srv' = srv /\ left' = left BY DEF KitSaved
<1>6. kit'.doc = file /\ kit'.save = Null /\ kit'.edits = kit.edits
  <2>1. \E q : kit' = [kit EXCEPT !.doc = file, !.save = Null, !.toBroker = q]
    BY Zenon DEF KitSaved
  <2> HIDE DEF file
  <2> QED BY <1>1, <2>1 DEF Kit
<1>7. file.t = kit.doc.t + 1 /\ file.c = kit.save.c OBVIOUS
<1> HIDE DEF file
<1>8. /\ True(b', file, srv) /\ (Blind(b') <=> Blind(b)) /\ b'.toKit = b.toKit
      /\ b'.activity = b.activity /\ b'.http = b.http
  BY <1>1, <1>4, <1>5, CopyTrue
<1>9. Saved(kit') BY <1>3, <1>6, <1>7 DEF Saved
<1>10. Truthful' BY <1>5, <1>6, <1>8, <1>9 DEF Truthful
<1>11. Known' = Known /\ Forced' = Forced BY <1>8, <1>10, KnownSame
<1>12. Forwarded' = Forwarded /\ Forwarded \in Int /\ kit.edits <= Forwarded
  <2>1. EditCount(b.toKit) \in Nat BY <1>1, EditsFinite DEF Broker
  <2>2. Forwarded' = kit'.edits + EditCount(b'.toKit) BY DEF Forwarded, EditCount, EditsIn
  <2>3. Forwarded = kit.edits + EditCount(b.toKit) BY DEF Forwarded, EditCount, EditsIn
  <2> QED BY <1>1, <1>6, <1>8, <2>1, <2>2, <2>3
<1>13. kit'.doc.c \in kit.doc.c .. Forwarded
  <2>1. kit'.doc.c = kit.save.c BY <1>6, <1>7
  <2>2. kit.save.c <= Forwarded BY <1>1, <1>3, <1>12
  <2> QED BY <1>3, <1>12, <2>1, <2>2
<1>14. Promise!Save BY <1>5, <1>11, <1>12, <1>13 DEF Promise!Save
<1> QED BY <1>10, <1>14 DEF Kept, Promise!Next

(* All that the Kit does. *)
LEMMA KitKept == Truthful /\ Inv' /\ KitStep => Kept
BY KitIdleKept, KitEditKept, KitCopyKept, KitSavedKept DEF KitStep

-----------------------------------------------------------------------------
(* The storage. *)

(* An answer changes nothing but the answer. *)
LEMMA AnswerIs ==
    ASSUME Truthful, b.http # Null, NEW res \in HttpResult, NEW t \in Int
    PROVE  LET e == Answer(res, t)
           IN  /\ e.http # Null /\ e.http.file = b.http.file
               /\ (e.http.rename <=> b.http.rename) /\ e.http.ts = b.http.ts
               /\ e.http.res = res /\ e.http.t = t
               /\ e.uploadRequest = b.uploadRequest
               /\ e.uploading = b.uploading /\ e.upload = b.upload
               /\ e.lastUploadedTime = b.lastUploadedTime
               /\ e.storageTime = b.storageTime
               /\ e.forced = b.forced /\ e.lastForced = b.lastForced
               /\ e.sizeAsUploaded = b.sizeAsUploaded
               /\ e.checkFileInfo = b.checkFileInfo
               /\ e.activity = b.activity /\ e.status = b.status
               /\ e.toKit = b.toKit
               /\ (Blind(e) <=> Blind(b))
<1> DEFINE h == [b.http EXCEPT !.res = res, !.t = t]
           e == [b EXCEPT !.http = h]
<1>1. b \in Broker /\ b.http \in HttpUpload BY DEF Truthful, Inv, Good, Broker
<1>2. Answer(res, t) = e BY <1>1 DEF Answer, Broker
<1>3. /\ h.file = b.http.file /\ h.rename = b.http.rename /\ h.ts = b.http.ts
      /\ h.res = res /\ h.t = t
  BY <1>1 DEF HttpUpload
<1>4. h # Null
  <2>1. h \in HttpUpload BY <1>1 DEF HttpUpload
  <2> QED BY <2>1, NullAssumption
<1> HIDE DEF h
<1>5. /\ e.http = h
      /\ e.uploadRequest = b.uploadRequest
      /\ e.uploading = b.uploading /\ e.upload = b.upload
      /\ e.lastUploadedTime = b.lastUploadedTime
      /\ e.storageTime = b.storageTime
      /\ e.forced = b.forced /\ e.lastForced = b.lastForced
      /\ e.sizeAsUploaded = b.sizeAsUploaded
      /\ e.checkFileInfo = b.checkFileInfo
      /\ e.activity = b.activity /\ e.status = b.status
      /\ e.toKit = b.toKit
  BY <1>1 DEF Broker
<1> HIDE DEF e
<1>6. Blind(e) <=> Blind(b) BY <1>3, <1>4, <1>5 DEF Blind
<1> QED BY <1>2, <1>3, <1>4, <1>5, <1>6

(* What is stored is what the broker uploads, and the answer says when.     *)
LEMMA StoredTrue ==
    ASSUME Truthful, Pending, ~b.http.rename, srv' = Stored,
           NEW res \in {"OK", "FAILED"}, NEW t \in Int, res = "OK" => t = srv.t + 1,
           b' = Answer(res, t)
    PROVE  True(b', kit.doc, srv')
<1>1. /\ b \in Broker /\ b.http \in HttpUpload /\ b.http # Null /\ True(b, kit.doc, srv)
      /\ srv \in Storage
  BY DEF Truthful, Inv, Good, Broker, Pending
<1>2. /\ b'.http # Null /\ b'.http.file = b.http.file
      /\ (b'.http.rename <=> b.http.rename) /\ b'.http.ts = b.http.ts
      /\ b'.http.res = res /\ b'.http.t = t
      /\ b'.uploadRequest = b.uploadRequest
      /\ b'.uploading = b.uploading /\ b'.upload = b.upload
      /\ b'.lastUploadedTime = b.lastUploadedTime
      /\ b'.storageTime = b.storageTime
      /\ b'.forced = b.forced /\ b'.lastForced = b.lastForced
      /\ b'.sizeAsUploaded = b.sizeAsUploaded
      /\ b'.checkFileInfo = b.checkFileInfo
      /\ b'.activity = b.activity /\ b'.status = b.status
  BY AnswerIs DEF HttpResult, Pending
<1> DEFINE c == b.uploading.c
<1>3. b.http.file = b.uploading /\ b.uploading # NoFile
  BY <1>1 DEF True, Tracked
<1>4. c \in Int /\ srv.t \in Int /\ srv.ours \in Int /\ b.storageTime \in Int
      /\ b.http.ts \in Int
  BY <1>1 DEF Broker, File, Storage, HttpUpload
<1>5. 0 <= c /\ srv.ours <= c /\ 0 <= srv.t
  BY <1>1, <1>3 DEF True, Copies, Before, Uploaded, Timed
<1>6. srv'.t = srv.t + 1 /\ srv'.c = c /\ srv'.ours = c
  BY <1>3 DEF Stored
<1> HIDE DEF c
<1>7. Tracked(b') BY <1>1, <1>2 DEF True, Tracked
<1>8. Unforced(b') /\ Asks(b') BY <1>1, <1>2 DEF True, Unforced, Asks
<1>9. Copies(b', kit.doc) BY <1>1, <1>2 DEF True, Copies
<1>10. Uploaded(b', kit.doc, srv')
  <2>1. /\ b.uploading.c \in Int /\ b.upload.c \in Int /\ kit.doc.c \in Int
        /\ b.uploading.c = c
    BY <1>1 DEF Broker, File, c, Truthful, Inv, Kit
  <2>2. /\ Given(b'.uploading, b', srv') /\ Given(b'.upload, b', srv')
        /\ Given(kit.doc, b', srv')
    BY <1>1, <1>2, <1>4, <1>5, <1>6, <2>1 DEF True, Uploaded, Given
  <2> QED BY <1>1, <1>2, <1>3, <1>4, <1>5, <1>6, <2>1, <2>2 DEF True, Uploaded
<1>11. Theirs < 0 BY DEF Theirs
<1>12. Answered(b', srv')
  <2>1. Seen(b.http.ts, srv') BY <1>1, <1>4, <1>6 DEF True, Answered, Seen
  <2>2. res = "OK" => 0 <= t /\ Seen(t, srv')
    BY <1>4, <1>5, <1>6, <1>11 DEF Seen, Theirs
  <2>3. b.uploading.c = c BY DEF c
  <2> QED BY <1>2, <1>6, <2>1, <2>2, <2>3 DEF Answered
<1>13. Timed(b', srv')
  <2>1. Seen(b.storageTime, srv') BY <1>1, <1>4, <1>6 DEF True, Timed, Seen
  <2>2. srv'.c # Theirs BY <1>4, <1>5, <1>6 DEF Theirs
  <2> QED BY <1>1, <1>2, <1>4, <1>5, <1>6, <2>1, <2>2 DEF True, Timed
<1> QED BY <1>7, <1>8, <1>9, <1>10, <1>12, <1>13 DEF True

(* A document of somebody else is overwritten only if the broker does not   *)
(* know which version is stored.                                            *)
LEMMA StoredKept ==
    ASSUME Truthful, Inv', Pending, ~b.http.rename, ~Refused, srv' = Stored,
           NEW res \in {"OK", "FAILED"}, NEW t \in Int, res = "OK" => t = srv.t + 1,
           b' = Answer(res, t), kit' = kit, left'.forces = left.forces
    PROVE  Kept
<1>1. /\ b \in Broker /\ b.http \in HttpUpload /\ b.http # Null /\ True(b, kit.doc, srv)
      /\ srv \in Storage /\ kit.doc \in File
  BY DEF Truthful, Inv, Good, Broker, Pending, Kit
<1>2. /\ b'.http # Null
      /\ (b'.http.rename <=> b.http.rename) /\ b'.activity = b.activity
      /\ b'.toKit = b.toKit /\ (Blind(b') <=> Blind(b))
  BY AnswerIs DEF HttpResult, Pending
<1>3. True(b', kit.doc, srv') BY StoredTrue
<1>4. Truthful' BY <1>3 DEF Truthful
<1>5. Known' = Known /\ Forced' = Forced BY <1>1, <1>2, <1>4, KnownSame
<1>6. Forwarded' = Forwarded BY <1>2 DEF Forwarded
<1>7. b.http.file = b.uploading /\ b.uploading # NoFile
  BY <1>1 DEF True, Tracked
<1>8. /\ b.uploading.c \in Int /\ srv.ours \in Int /\ kit.doc.c \in Int
      /\ srv.ours <= b.uploading.c /\ b.uploading.c <= kit.doc.c
  BY <1>1, <1>7 DEF Broker, File, Storage, True, Uploaded, Copies, Before
<1>9. srv'.c = b.uploading.c /\ srv'.ours = b.uploading.c BY <1>7 DEF Stored
<1>10. srv.c = Theirs => Known = "no"
  <2>1. ASSUME srv.c = Theirs PROVE b.http.ts = UnSafe
    BY <1>1, <2>1 DEF Refused, True, Answered, Seen
  <2>2. srv.c = Theirs => Blind(b) BY <1>1, <2>1 DEF Blind
  <2> QED BY <2>2, KnownIs
<1>11. Promise!Store
  BY <1>5, <1>6, <1>8, <1>9, <1>10 DEF Promise!Store
<1> QED BY <1>4, <1>11 DEF Kept, Promise!Next

(* An answer that says that nothing was stored, or nothing of the kind.     *)
LEMMA AnswerTrue ==
    ASSUME Truthful, b.http # Null, NEW res \in HttpResult, NEW t \in Int,
           res = "OK" => b.http.rename
    PROVE  True(Answer(res, t), kit.doc, srv) /\ Keeps(b, Answer(res, t))
<1> DEFINE e == Answer(res, t)
<1>1. True(b, kit.doc, srv) BY DEF Truthful
<1>2. /\ e.http # Null /\ e.http.file = b.http.file
      /\ (e.http.rename <=> b.http.rename) /\ e.http.ts = b.http.ts
      /\ e.http.res = res /\ e.http.t = t
      /\ e.uploadRequest = b.uploadRequest
      /\ e.uploading = b.uploading /\ e.upload = b.upload
      /\ e.lastUploadedTime = b.lastUploadedTime
      /\ e.storageTime = b.storageTime
      /\ e.forced = b.forced /\ e.lastForced = b.lastForced
      /\ e.sizeAsUploaded = b.sizeAsUploaded
      /\ e.checkFileInfo = b.checkFileInfo
      /\ e.activity = b.activity /\ e.status = b.status
      /\ e.toKit = b.toKit /\ (Blind(e) <=> Blind(b))
  BY AnswerIs
<1> HIDE DEF e
<1>3. Tracked(e) BY <1>1, <1>2 DEF True, Tracked
<1>4. Unforced(e) /\ Asks(e) BY <1>1, <1>2 DEF True, Unforced, Asks
<1>5. Copies(e, kit.doc) BY <1>1, <1>2 DEF True, Copies
<1>6. Uploaded(e, kit.doc, srv) BY <1>1, <1>2 DEF True, Uploaded, Given
<1>7. Answered(e, srv) BY <1>1, <1>2 DEF True, Answered
<1>8. Timed(e, srv) BY <1>1, <1>2 DEF True, Timed
<1>9. True(e, kit.doc, srv) BY <1>3, <1>4, <1>5, <1>6, <1>7, <1>8 DEF True
<1>10. Keeps(b, e) BY <1>2 DEF Keeps
<1> QED BY <1>9, <1>10 DEF e

(* So the promise is kept. *)
LEMMA AnswerKept ==
    ASSUME Truthful, Inv', Pending, NEW res \in HttpResult, NEW t \in Int,
           b' = Answer(res, t), res = "OK" => b.http.rename,
           kit' = kit, srv' = srv, left'.forces = left.forces
    PROVE  Kept
BY AnswerTrue, KeepsKept DEF Pending

(* Somebody else's document is of a time that the broker has not seen yet.  *)
LEMMA ChangeKept ==
    ASSUME Truthful, Inv', ExternalChange
    PROVE  Kept
<1>1. /\ b \in Broker /\ b.http \in HttpUpload \cup {Null} /\ True(b, kit.doc, srv)
      /\ srv \in Storage /\ left \in Budget
  BY DEF Truthful, Inv, Good, Broker
<1>2. /\ b' = b /\ kit' = kit /\ b.status # "None"
      /\ left'.forces = left.forces
  BY <1>1, ForcesLeft DEF ExternalChange
<1>3. srv'.t = srv.t + 1 /\ srv'.c = Theirs /\ srv'.ours = srv.ours
  BY <1>1 DEF ExternalChange, Storage
<1>4. srv.t \in Int /\ 0 <= srv.t /\ b.storageTime \in Int
  BY <1>1 DEF Storage, True, Timed, Broker
<1>5. ASSUME NEW t \in Int, Seen(t, srv) PROVE Seen(t, srv')
  BY <1>3, <1>4, <1>5 DEF Seen
<1>6. Uploaded(b, kit.doc, srv') BY <1>1, <1>3 DEF True, Uploaded, Given
<1>7. Answered(b, srv')
  <2>1. b.http # Null => b.http.ts \in Int /\ b.http.t \in Int
    BY <1>1 DEF HttpUpload
  <2>2. b.http # Null =>
           /\ Seen(b.http.ts, srv)
           /\ b.http.res = "OK" /\ ~b.http.rename =>
                 /\ 0 <= b.http.t
                 /\ Seen(b.http.t, srv)
                 /\ srv.ours = b.uploading.c
    BY <1>1 DEF True, Answered
  <2> QED BY <1>3, <1>5, <2>1, <2>2 DEF Answered
<1>8. Timed(b, srv') BY <1>1, <1>2, <1>3, <1>4, <1>5 DEF True, Timed
<1>9. True(b', kit.doc, srv') BY <1>1, <1>2, <1>6, <1>7, <1>8 DEF True
<1>10. Truthful' BY <1>2, <1>9 DEF Truthful, Saved
<1>11. Known' = Known /\ Forced' = Forced /\ Forwarded' = Forwarded
  BY <1>2 DEF Known, Unknown, Asking, Forced, Forwarded
<1>12. Promise!SomebodyElseStores
  BY <1>2, <1>3, <1>11 DEF Promise!SomebodyElseStores
<1> QED BY <1>10, <1>12 DEF Kept, Promise!Next

(* All that happens in storage. *)
LEMMA ServerKept == Truthful /\ Inv' /\ ServerStep => Kept
<1> SUFFICES ASSUME Truthful, Inv', ServerStep PROVE Kept OBVIOUS
<1>1. left \in Budget /\ srv.t + 1 \in Int /\ NoTime \in Int
  BY DEF Truthful, Inv, Storage, NoTime
<1>2. {"OK", "CONFLICT", "FAILED"} \subseteq HttpResult /\ "FAILED" # "OK" /\ "CONFLICT" # "OK"
  BY DEF HttpResult
<1>3. CASE ServerStores
  <2>1. /\ Pending /\ ~b.http.rename /\ ~Refused /\ srv' = Stored
        /\ b' = Answer("OK", srv.t + 1) /\ kit' = kit /\ left' = left
    BY <1>3 DEF ServerStores
  <2> QED BY <1>1, <2>1, StoredKept
<1>4. CASE ServerRenames
  <2>1. /\ Pending /\ b.http.rename /\ b' = Answer("OK", NoTime)
        /\ kit' = kit /\ srv' = srv /\ left' = left
    BY <1>4 DEF ServerRenames
  <2> QED BY <1>1, <1>2, <2>1, AnswerKept
<1>5. CASE ServerRefuses
  <2>1. /\ Pending /\ b' = Answer("CONFLICT", NoTime)
        /\ kit' = kit /\ srv' = srv /\ left' = left
    BY <1>5 DEF ServerRefuses
  <2> QED BY <1>1, <1>2, <2>1, AnswerKept
<1>6. ASSUME NEW res \in HttpResult, ServerRejects(res) PROVE Kept
  <2>1. /\ Pending /\ b' = Answer(res, NoTime) /\ res # "OK"
        /\ kit' = kit /\ srv' = srv /\ left' = left
    BY <1>6 DEF ServerRejects
  <2> QED BY <1>1, <2>1, AnswerKept
<1>7. ASSUME NEW stored \in BOOLEAN, ServerFails(stored) PROVE Kept
  <2>1. /\ Pending /\ b' = Answer("FAILED", NoTime) /\ kit' = kit
        /\ left'.forces = left.forces
    BY <1>1, <1>7, ForcesLeft DEF ServerFails
  <2>2. CASE stored
    <3>1. ~b.http.rename /\ ~Refused /\ srv' = Stored BY <1>7, <2>2 DEF ServerFails
    <3> QED BY <1>1, <1>2, <2>1, <3>1, StoredKept
  <2>3. CASE ~stored
    <3>1. srv' = srv BY <1>7, <2>3 DEF ServerFails
    <3> QED BY <1>1, <1>2, <2>1, <3>1, AnswerKept
  <2> QED BY <2>2, <2>3
<1>8. CASE ExternalChange BY <1>8, ChangeKept
<1> QED BY <1>3, <1>4, <1>5, <1>6, <1>7, <1>8 DEF ServerStep

-----------------------------------------------------------------------------
(* The callbacks. *)

(* A message of the Kit is taken from the queue. *)
LEMMA DeliversIs ==
    ASSUME Truthful, NEW k, Delivers(k)
    PROVE  /\ kit'.doc = kit.doc /\ kit'.edits = kit.edits /\ kit'.save = kit.save
           /\ srv' = srv /\ left'.forces = left.forces
<1>1. kit \in Kit BY DEF Truthful, Inv
<1>2. srv' = srv /\ left' = left BY DEF Delivers
<1> DEFINE q == Tail(kit.toBroker)
<1>3. kit' = [kit EXCEPT !.toBroker = q] BY Zenon DEF Delivers
<1> HIDE DEF q
<1> QED BY <1>1, <1>2, <1>3 DEF Kit

(* Messages that say nothing of saves and uploads. *)
LEMMA MessageKept ==
    ASSUME Truthful, Inv',
           ViewLoaded \/ SetModified \/ SessionDisconnected \/ DisconnectedFromKit
    PROVE  Kept
<1>0. b \in Broker BY DEF Truthful, Inv, Good
<1>1. CASE ViewLoaded
  <2> DEFINE T == [b.state EXCEPT ![Msg.s] = "LIVE"]
             b1 == [b EXCEPT !.state = T]
  <2>1. b' = IF Msg.s \in b.sessions /\ b.state[Msg.s] = "LOADING"
             THEN IF Msg.v = "true" THEN SetLoaded(b1) ELSE b1
             ELSE b
    BY <1>1, Zenon DEF ViewLoaded
  <2>2. T \in [Session -> SessionState] BY <1>0 DEF Broker, SessionState
  <2> HIDE DEF T
  <2>3. b1 \in Broker BY <1>0, <2>2, ZenonT(60) DEF Broker
  <2>4. Calm(b, b1) BY <1>0 DEF Broker, Calm
  <2> HIDE DEF b1
  <2>5. Calm(b, b') BY <2>1, <2>3, <2>4, SmallCalm, CalmSame, CalmOnwards
  <2>6. Delivers("status") BY <1>1 DEF ViewLoaded
  <2> QED BY <2>5, <2>6, DeliversIs, CalmKept
<1>2. CASE SetModified
  <2> DEFINE v == Msg.v = "true"
             e == [b EXCEPT !.modified = v]
  <2>1. b' = IF b.sessions = {} THEN b ELSE e BY <1>2, Zenon DEF SetModified
  <2> HIDE DEF v
  <2>2. Calm(b, e) BY <1>0 DEF Broker, Calm
  <2>3. Calm(b, b') BY <2>1, <2>2, CalmSame
  <2>4. Delivers("modified") BY <1>2 DEF SetModified
  <2> QED BY <2>3, <2>4, DeliversIs, CalmKept
<1>3. CASE SessionDisconnected
  <2>1. Calm(b, b') /\ Delivers("disconnected")
    BY <1>0, <1>3, SmallCalm DEF SessionDisconnected
  <2> QED BY <2>1, DeliversIs, CalmKept
<1>4. CASE DisconnectedFromKit
  <2> DEFINE k == IF IsUnloading(b) THEN "Normal" ELSE "Unexpected"
             b1 == [b EXCEPT !.kitDisconnected = k]
  <2>1. b' = IF b.closeRequested \/ b.stop THEN b1 ELSE CloseDocument(b1)
    BY <1>4, Zenon DEF DisconnectedFromKit
  <2>2. k \in KitDisconnected BY DEF KitDisconnected
  <2> HIDE DEF k
  <2>3. b1 \in Broker BY <1>0, <2>2, ZenonT(60) DEF Broker
  <2>4. Calm(b, b1) BY <1>0 DEF Broker, Calm
  <2> HIDE DEF b1
  <2>5. Calm(b, b') BY <2>1, <2>3, <2>4, SmallCalm, CalmOnwards
  <2> QED BY <1>4, <2>5, CalmKept DEF DisconnectedFromKit
<1> QED BY <1>1, <1>2, <1>3, <1>4

(* The answer to a save comes when no upload is on its way. *)
LEMMA SaveResponseKept ==
    ASSUME Truthful, Inv', Unhurried, NEW elapsed \in BOOLEAN, SaveResponse(elapsed)
    PROVE  Kept
<1>1. Good(b) /\ True(b, kit.doc, srv) /\ srv \in Storage BY DEF Truthful, Inv
<1>2. b.http = Null /\ Delivers("saved") BY DEF SaveResponse, Unhurried
<1>3. b' = IF Msg.s \in b.sessions THEN HandleSaveResponse(b, Msg.s, Msg.v, elapsed)
           ELSE b
  BY Zenon DEF SaveResponse
<1>4. /\ True(HandleSaveResponse(b, Msg.s, Msg.v, elapsed), kit.doc, srv)
      /\ Keeps(b, HandleSaveResponse(b, Msg.s, Msg.v, elapsed))
  BY <1>1, <1>2, SaveResponseTrue
<1>5. Keeps(b, b) BY DEF Keeps
<1>6. True(b', kit.doc, srv) /\ Keeps(b, b') BY <1>1, <1>3, <1>4, <1>5
<1> QED BY <1>2, <1>6, DeliversIs, KeepsKept

(* All callbacks: the end of a rename, and an answer to the question for    *)
(* the version in storage, come while the broker is asking.                 *)
LEMMA CallbackKept == Truthful /\ Inv' /\ Unhurried /\ Callback => Kept
<1> SUFFICES ASSUME Truthful, Inv', Unhurried, Callback PROVE Kept OBVIOUS
<1>1. /\ Good(b) /\ b \in Broker /\ True(b, kit.doc, srv) /\ Saved(kit)
      /\ srv \in Storage /\ kit.doc \in File
  BY DocumentIs DEF Truthful, Inv, Good
<1>2. CASE UploadDone
  <2>1. /\ b.http # Null /\ b.http.res \notin {"queued", "pending"}
        /\ b' = UploadFinished(b) /\ kit' = kit /\ srv' = srv /\ left' = left
    BY <1>2 DEF UploadDone
  <2>2. /\ True(b', kit.doc, srv) /\ EditCount(b'.toKit) = EditCount(b.toKit)
        /\ Blind(b') => Blind(b) \/ b.http.rename
    BY <1>1, <2>1, UploadFinishedTrue
  <2>3. Blind(b') => Blind(b) \/ Asking BY <2>1, <2>2 DEF Asking
  <2> QED BY <1>1, <2>1, <2>2, <2>3, Steady DEF Kept
<1>3. ASSUME NEW answer \in {"Pass", "Unauthorized", "Fail"}, CheckFileInfoDone(answer)
      PROVE  Kept
  <2>1. /\ b.checkFileInfo # Null /\ ~b.checkFileInfo.done
        /\ b' = CheckFileInfoFinished(b, answer, srv.t, srv.c)
        /\ kit' = kit /\ srv' = srv /\ left' = left
    BY <1>3 DEF CheckFileInfoDone
  <2>2. True(b', kit.doc, srv) /\ EditCount(b'.toKit) = EditCount(b.toKit)
    BY <1>1, <2>1, CheckFileInfoTrue
  <2>3. Asking BY <1>1, <2>1 DEF True, Asks, Asking
  <2> QED BY <1>1, <2>1, <2>2, <2>3, Steady DEF Kept
<1> QED BY <1>2, <1>3, MessageKept, SaveResponseKept DEF Callback

-----------------------------------------------------------------------------
(* The poll loop. *)

(* The request of an upload goes out. *)
LEMMA SentTrue ==
    ASSUME Truthful
    PROVE  /\ True(Sent, kit.doc, srv) /\ Keeps(b, Sent)
           /\ Sent.activity = b.activity /\ (Sent.http = Null <=> b.http = Null)
<1>1. b \in Broker /\ True(b, kit.doc, srv) /\ Keeps(b, b)
  BY DEF Truthful, Inv, Good, Keeps
<1>2. CASE b.http # Null /\ b.http.res = "queued"
  <2> DEFINE e == Answer("pending", b.http.t)
  <2>1. b.http \in HttpUpload /\ b.http.t \in Int BY <1>1, <1>2 DEF Broker, HttpUpload
  <2>2. Sent = e
    <3> DEFINE h == [b.http EXCEPT !.res = "pending"]
    <3>1. h = [b.http EXCEPT !.res = "pending", !.t = b.http.t]
      BY <2>1 DEF HttpUpload
    <3>2. Sent = [b EXCEPT !.http = h] BY <1>1, <1>2 DEF Sent, Broker
    <3>3. e = [b EXCEPT !.http = [b.http EXCEPT !.res = "pending", !.t = b.http.t]]
      BY <1>1 DEF Answer, Broker
    <3> HIDE DEF h, e
    <3> QED BY <3>1, <3>2, <3>3
  <2>3. "pending" \in HttpResult /\ "pending" # "OK" BY DEF HttpResult
  <2>4. True(e, kit.doc, srv) /\ Keeps(b, e) BY <1>2, <2>1, <2>3, AnswerTrue
  <2>5. e.activity = b.activity /\ e.http # Null BY <1>2, <2>1, <2>3, AnswerIs
  <2> QED BY <1>2, <2>2, <2>4, <2>5
<1>3. CASE ~(b.http # Null /\ b.http.res = "queued") BY <1>1, <1>3 DEF Sent
<1> QED BY <1>2, <1>3

(* What is done is put away. *)
LEMMA SettledTrue ==
    ASSUME Truthful
    PROVE  /\ Good(Settled) /\ Settled \in Broker
           /\ True(Settled, kit.doc, srv) /\ Keeps(b, Settled)
           /\ Settled.activity = b.activity /\ (Settled.http = Null <=> b.http = Null)
<1> DEFINE r == IF Sent.uploadRequest # Null /\ b.uploadRequest.complete
                THEN Null ELSE Sent.uploadRequest
           e == [Sent EXCEPT !.checkFileInfo = Null, !.uploadRequest = r]
<1>1. Good(Settled) /\ Settled \in Broker BY SettledGood DEF Truthful, Good
<1>2. Sent \in Broker /\ Sent.uploadRequest = b.uploadRequest BY SentGood DEF Truthful
<1>3. /\ True(Sent, kit.doc, srv) /\ Keeps(b, Sent)
      /\ Sent.activity = b.activity /\ (Sent.http = Null <=> b.http = Null)
  BY SentTrue
<1>4. Settled = e BY Zenon DEF Settled
<1>5. b.http # Null => r = Sent.uploadRequest
  BY <1>2 DEF Truthful, True, Tracked
<1> HIDE DEF r, Settled
<1>6. /\ e.http = Sent.http /\ e.uploadRequest = r
      /\ e.uploading = Sent.uploading /\ e.upload = Sent.upload
      /\ e.lastUploadedTime = Sent.lastUploadedTime /\ e.storageTime = Sent.storageTime
      /\ e.forced = Sent.forced /\ e.lastForced = Sent.lastForced
      /\ e.sizeAsUploaded = Sent.sizeAsUploaded /\ e.checkFileInfo = Null
      /\ e.activity = Sent.activity /\ e.status = Sent.status /\ e.toKit = Sent.toKit
  BY <1>2 DEF Broker
<1> HIDE DEF e, Sent
<1>7. Tracked(e) /\ Answered(e, srv)
  BY <1>3, <1>5, <1>6 DEF True, Tracked, Answered
<1>8. Unforced(e) /\ Asks(e) BY <1>3, <1>6 DEF True, Unforced, Asks
<1>9. Copies(e, kit.doc) BY <1>3, <1>6 DEF True, Copies
<1>10. Uploaded(e, kit.doc, srv) BY <1>3, <1>6 DEF True, Uploaded, Given
<1>11. Timed(e, srv) BY <1>3, <1>6 DEF True, Timed
<1>12. True(e, kit.doc, srv) BY <1>7, <1>8, <1>9, <1>10, <1>11 DEF True
<1>13. Keeps(Sent, e) BY <1>6 DEF Keeps, Blind
<1> QED BY <1>1, <1>3, <1>4, <1>6, <1>12, <1>13, KeepsOnwards

(* Leaving the loop. *)
LEMMA LeaveLoopCalm ==
    ASSUME NEW d \in Broker
    PROVE  Calm(d, LeaveLoop(d))
<1> DEFINE v == DetectDataLoss(d)
           e == [d EXCEPT !.finished = TRUE, !.dataLoss = v]
<1>1. LeaveLoop(d) = IF d.stop THEN e ELSE d BY Zenon DEF LeaveLoop
<1> HIDE DEF v
<1>2. Calm(d, e) BY DEF Broker, Calm
<1> QED BY <1>1, <1>2, CalmSame

(* The branches that save, upload or stop. *)
LEMMA UnloadKept ==
    ASSUME Truthful, Inv', NEW saveNow \in BOOLEAN, NEW waited \in BOOLEAN,
           NEW elapsed \in BOOLEAN,
           \/ PollIdle(saveNow, waited, elapsed)
           \/ PollDead(saveNow, waited, elapsed)
           \/ PollUnload(saveNow, waited, elapsed)
    PROVE  Kept
<1>1. /\ Good(Settled) /\ Settled \in Broker
      /\ True(Settled, kit.doc, srv) /\ Keeps(b, Settled)
  BY SettledTrue
<1>2. /\ Good(Stop(Settled)) /\ Stop(Settled) \in Broker
      /\ True(Stop(Settled), kit.doc, srv) /\ Keeps(b, Stop(Settled))
  BY <1>1, StopGood, SmallCalm, CalmKeeps, KeepsOnwards DEF Good
<1>3. ASSUME NEW d, Good(d), True(d, kit.doc, srv), Keeps(b, d), NEW w
      PROVE  LET e == AutoSaveAndStop(d, w, saveNow, waited, elapsed)
             IN  e \in Broker /\ True(e, kit.doc, srv) /\ Keeps(b, e)
  BY <1>3, AutoSaveAndStopGood, AutoSaveAndStopTrue, KeepsOnwards DEF Good
<1>4. \E e \in Broker : True(e, kit.doc, srv) /\ Keeps(b, e) /\ b' = LeaveLoop(e)
  <2>1. CASE PollIdle(saveNow, waited, elapsed)
    <3>1. \E w : b' = LeaveLoop(AutoSaveAndStop(Settled, w, saveNow, waited, elapsed))
      BY <2>1, Zenon DEF PollIdle
    <3> QED BY <1>1, <1>3, <3>1, Zenon
  <2>2. CASE PollDead(saveNow, waited, elapsed)
    <3>1. \/ b' = LeaveLoop(AutoSaveAndStop(Settled, Null, saveNow, waited, elapsed))
          \/ b' = LeaveLoop(AutoSaveAndStop(Stop(Settled), Null, saveNow, waited, elapsed))
      BY <2>2, Zenon DEF PollDead
    <3> QED BY <1>1, <1>2, <1>3, <3>1, Zenon
  <2>3. CASE PollUnload(saveNow, waited, elapsed)
    <3>1. \E w : \/ b' = LeaveLoop(Stop(Settled))
                 \/ b' = LeaveLoop(AutoSaveAndStop(Settled, w, saveNow, waited, elapsed))
      BY <2>3, Zenon DEF PollUnload
    <3> QED BY <1>1, <1>2, <1>3, <3>1, Zenon
  <2> QED BY <2>1, <2>2, <2>3
<1>5. True(b', kit.doc, srv) /\ Keeps(b, b')
  BY <1>4, LeaveLoopCalm, CalmKeeps, KeepsOnwards
<1>6. UNCHANGED <<kit, srv, left>> BY DEF PollIdle, PollDead, PollUnload
<1> QED BY <1>5, <1>6, KeepsKept

(* Asking for the version in storage, after an upload that was not answered. *)
LEMMA PollSyncKept ==
    ASSUME Truthful, Inv', PollSync
    PROVE  Kept
<1> DEFINE b1 == Check(Sent, ~IsAsyncUploading(b), "NoUploadInSync")
           can == b.sessions \cap b.authorized
           u == [b1 EXCEPT !.storageTime = UnSafe]
           q(s) == [s |-> s, done |-> FALSE]
           a(s) == [b1 EXCEPT !.checkFileInfo = q(s)]
<1>1. b.activity = "SyncFileTimestamp" /\ kit' = kit /\ srv' = srv /\ left' = left
  BY DEF PollSync
<1>2. /\ True(Sent, kit.doc, srv) /\ Keeps(b, Sent) /\ Sent \in Broker
      /\ Sent.activity = "SyncFileTimestamp" /\ Sent.checkFileInfo = b.checkFileInfo
  <2>1. b \in Broker BY DEF Truthful, Inv, Good
  <2>2. Sent.checkFileInfo = b.checkFileInfo BY <2>1 DEF Sent, Broker
  <2> HIDE DEF Sent
  <2> QED BY <1>1, <2>2, SentTrue, SentGood DEF Truthful
<1>3. \/ b' = b1
      \/ b.checkFileInfo = Null /\ b' = EndActivity(u)
      \/ \E s \in can : b' = a(s)
  BY Zenon DEF PollSync
<1> HIDE DEF Sent
<1>4. Calm(Sent, b1) /\ b1 \in Broker
  <2>1. Calm(Sent, b1) BY <1>2, SmallCalm
  <2>2. Good(Sent) BY SentGood DEF Truthful
  <2> QED BY <2>1, <2>2, CheckGood DEF Assertion, Good
<1>5. b1.activity = "SyncFileTimestamp" /\ b1.checkFileInfo = b.checkFileInfo
  BY <1>2, <1>4 DEF Calm
<1> HIDE DEF b1
<1>6. True(b1, kit.doc, srv) /\ Keeps(b, b1) BY <1>2, <1>4, CalmKeeps, KeepsOnwards
<1>7. Asking /\ Saved(kit) BY <1>1 DEF Asking, Truthful
<1>8. CASE b' = b1 BY <1>1, <1>6, <1>8, KeepsKept
<1>9. CASE b.checkFileInfo = Null /\ b' = EndActivity(u)
  <2>1. /\ b'.http = b1.http /\ b'.uploadRequest = b1.uploadRequest
        /\ b'.uploading = b1.uploading /\ b'.upload = b1.upload
        /\ b'.lastUploadedTime = b1.lastUploadedTime /\ b'.storageTime = UnSafe
        /\ b'.forced = b1.forced /\ b'.lastForced = b1.lastForced
        /\ b'.sizeAsUploaded = b1.sizeAsUploaded /\ b'.checkFileInfo = Null
        /\ b'.status = b1.status /\ b'.toKit = b1.toKit
    BY <1>4, <1>5, <1>9 DEF EndActivity, Broker
  <2>2. srv.t \in Int /\ 0 <= srv.t
    BY <1>6 DEF Truthful, Inv, Storage, True, Timed
  <2>3. Seen(UnSafe, srv) BY <2>2 DEF Seen, UnSafe
  <2>4. Tracked(b') BY <1>5, <1>6, <2>1 DEF True, Tracked
  <2>5. Unforced(b') /\ Asks(b') BY <1>6, <2>1 DEF True, Unforced, Asks
  <2>6. Copies(b', kit.doc) BY <1>6, <2>1 DEF True, Copies
  <2>7. Uploaded(b', kit.doc, srv) BY <1>6, <2>1 DEF True, Uploaded, Given
  <2>8. Answered(b', srv) BY <1>6, <2>1 DEF True, Answered
  <2>9. Timed(b', srv) BY <1>6, <2>1, <2>3 DEF True, Timed
  <2>10. True(b', kit.doc, srv) BY <2>4, <2>5, <2>6, <2>7, <2>8, <2>9 DEF True
  <2>11. EditCount(b'.toKit) = EditCount(b.toKit) BY <1>6, <2>1 DEF Keeps
  <2> QED BY <1>1, <1>7, <2>10, <2>11, Steady DEF Kept
<1>10. ASSUME NEW s \in can, b' = a(s) PROVE Kept
  <2>1. /\ b'.http = b1.http /\ b'.uploadRequest = b1.uploadRequest
        /\ b'.uploading = b1.uploading /\ b'.upload = b1.upload
        /\ b'.lastUploadedTime = b1.lastUploadedTime /\ b'.storageTime = b1.storageTime
        /\ b'.forced = b1.forced /\ b'.lastForced = b1.lastForced
        /\ b'.sizeAsUploaded = b1.sizeAsUploaded /\ b'.activity = "SyncFileTimestamp"
        /\ b'.status = b1.status /\ b'.toKit = b1.toKit
    BY <1>4, <1>5, <1>10 DEF Broker
  <2>2. Tracked(b') BY <1>5, <1>6, <2>1 DEF True, Tracked
  <2>3. Unforced(b') /\ Asks(b') BY <1>6, <2>1 DEF True, Unforced, Asks
  <2>4. Copies(b', kit.doc) BY <1>6, <2>1 DEF True, Copies
  <2>5. Uploaded(b', kit.doc, srv) BY <1>6, <2>1 DEF True, Uploaded, Given
  <2>6. Answered(b', srv) BY <1>6, <2>1 DEF True, Answered
  <2>7. Timed(b', srv) BY <1>6, <2>1 DEF True, Timed
  <2>8. True(b', kit.doc, srv) BY <2>2, <2>3, <2>4, <2>5, <2>6, <2>7 DEF True
  <2>9. Keeps(b1, b') BY <2>1 DEF Keeps, Blind
  <2> QED BY <1>1, <1>6, <2>8, <2>9, KeepsOnwards, KeepsKept
<1> QED BY <1>3, <1>8, <1>9, <1>10

(* All branches of the body of the loop. *)
LEMMA PollKept == Truthful /\ Inv' /\ Poll => Kept
<1> SUFFICES ASSUME Truthful, Inv', Poll PROVE Kept OBVIOUS
<1>0. b \in Broker /\ True(b, kit.doc, srv) /\ left \in Budget
  BY DEF Truthful, Inv, Good
<1>1. /\ Good(Settled) /\ Settled \in Broker /\ True(Settled, kit.doc, srv)
      /\ Keeps(b, Settled) /\ Settled.activity = b.activity
      /\ (Settled.http = Null <=> b.http = Null)
  BY SettledTrue
<1>2. /\ True(Sent, kit.doc, srv) /\ Keeps(b, Sent) /\ Sent.activity = b.activity
      /\ Sent \in Broker
  BY SentTrue, SentGood DEF Truthful
<1> HIDE DEF Settled, Sent
<1>3. ASSUME NEW d, True(d, kit.doc, srv), Keeps(b, d), Calm(d, b'),
             kit' = kit, srv' = srv, left'.forces = left.forces
      PROVE  Kept
  <2>1. True(b', kit.doc, srv) /\ Keeps(d, b') BY <1>3, CalmKeeps
  <2> QED BY <1>3, <2>1, KeepsOnwards, KeepsKept
<1>4. CASE PollRename
  <2>1. Calm(Settled, b') BY <1>1, <1>4, StartRenameCalm DEF PollRename, PollsIdle
  <2> QED BY <1>1, <1>3, <1>4, <2>1 DEF PollRename
<1>5. ASSUME NEW flag \in BOOLEAN, PollAutoSave(flag) PROVE Kept
  <2>1. Calm(Settled, b') BY <1>1, <1>5, SaveCalm DEF PollAutoSave
  <2> QED BY <1>1, <1>3, <1>5, <2>1 DEF PollAutoSave
<1>6. ASSUME NEW flag \in BOOLEAN, PollRetryUpload(flag) PROVE Kept
  <2>1. b.http = Null BY <1>6 DEF PollRetryUpload, IsAsyncUploading
  <2>2. PICK w : b' = CheckAndUploadToStorage(Settled, w, FALSE, flag)
    BY <1>6, Zenon DEF PollRetryUpload
  <2>3. True(b', kit.doc, srv) /\ Keeps(Settled, b')
    BY <1>1, <2>1, <2>2, CheckAndUploadTrue
  <2> QED BY <1>1, <1>6, <2>3, KeepsOnwards, KeepsKept DEF PollRetryUpload
<1>7. b.activity = "Save" => Calm(Sent, EndActivity(SetLastSaveResult(Sent, FALSE, FALSE)))
  <2> DEFINE r == SetLastSaveResult(Sent, FALSE, FALSE)
  <2>1. Calm(Sent, r) /\ r \in Broker BY <1>2, ResultCalm, SaveResultType
  <2>2. r.activity = Sent.activity BY <1>2 DEF SetLastSaveResult, Broker
  <2> HIDE DEF r
  <2>3. b.activity = "Save" => Calm(r, EndActivity(r))
    BY <1>2, <2>1, <2>2 DEF EndActivity, Broker, Calm
  <2> QED BY <2>1, <2>3, CalmOnwards DEF r
<1>8. CASE PollSaveLost
  <2>1. Calm(Sent, b') BY <1>7, <1>8 DEF PollSaveLost
  <2> QED BY <1>2, <1>3, <1>8, <2>1 DEF PollSaveLost
<1>9. ASSUME NEW slow \in BOOLEAN, PollSaveTimesOut(slow) PROVE Kept
  <2>1. Calm(Sent, b') BY <1>7, <1>9 DEF PollSaveTimesOut
  <2>2. left'.forces = left.forces
    <3>1. \E n : left' = [left EXCEPT !.timeouts = n] BY <1>9, Zenon DEF PollSaveTimesOut
    <3> QED BY <1>0, <3>1, ForcesLeft
  <2> QED BY <1>2, <1>3, <1>9, <2>1, <2>2 DEF PollSaveTimesOut
<1>10. ASSUME NEW s \in Session, PollStaleDisconnect(s) PROVE Kept
  <2>1. Calm(Sent, b') BY <1>2, <1>10, SmallCalm DEF PollStaleDisconnect
  <2> QED BY <1>2, <1>3, <1>10, <2>1 DEF PollStaleDisconnect
<1>11. CASE PollStopped
  <2>1. Calm(b, b') BY <1>0, <1>11, LeaveLoopCalm DEF PollStopped
  <2> QED BY <1>11, <2>1, CalmKept DEF PollStopped
<1>12. CASE PollWaits
  <2>1. Calm(Sent, b') BY <1>12, CalmSame DEF PollWaits
  <2> QED BY <1>2, <1>3, <1>12, <2>1 DEF PollWaits
<1> QED BY <1>4, <1>5, <1>6, <1>8, <1>9, <1>10, <1>11, <1>12, UnloadKept, PollSyncKept
        DEF Poll

-----------------------------------------------------------------------------
(* The theorems. *)

(* In the beginning there is nothing to be wrong about. *)
LEMMA InitTruthful == Unhurried /\ Init => Truthful /\ Promise!Init
<1> SUFFICES ASSUME Unhurried, Init PROVE Truthful /\ Promise!Init OBVIOUS
<1>1. Inv BY InitInv
<1>2. /\ b.http = Null /\ b.uploadRequest = Null /\ b.forced = FALSE
      /\ b.lastForced = FALSE /\ b.checkFileInfo = Null /\ b.upload = NoFile
      /\ b.uploading = NoFile /\ b.lastUploadedTime = 0 /\ b.storageTime = UnSafe
      /\ b.sizeAsUploaded = NoSize /\ b.activity = "None" /\ b.toKit = <<>>
  BY DEF Init, NewBroker
<1>3. /\ kit.doc.t = 0 /\ kit.doc.c = 0 /\ kit.save = Null /\ kit.edits = 0
      /\ srv.t = 0 /\ srv.c = 0 /\ srv.ours = 0
  BY DEF Init
<1>4. left.forces = 0 BY DEF Init, Unhurried
<1>5. True(b, kit.doc, srv)
  <2>1. Tracked(b) /\ Answered(b, srv) BY <1>2 DEF Tracked, Answered
  <2>2. Unforced(b) /\ Asks(b) /\ Copies(b, kit.doc)
    BY <1>2 DEF Unforced, Asks, Copies
  <2>3. Uploaded(b, kit.doc, srv) BY <1>2, <1>3 DEF Uploaded, Given
  <2>4. Timed(b, srv) BY <1>2, <1>3 DEF Timed, Seen, UnSafe, NoSize, Theirs
  <2> QED BY <2>1, <2>2, <2>3, <2>4 DEF True
<1>6. Saved(kit) BY <1>3 DEF Saved
<1>7. Forwarded = 0
  <2>1. EditsIn(<<>>) = {} BY DEF EditsIn
  <2>2. EditCount(<<>>) = 0 BY <2>1, FS_EmptySet DEF EditCount
  <2> QED BY <1>2, <1>3, <2>2 DEF Forwarded, EditCount, EditsIn
<1>8. Known = "no" /\ ~Forced BY <1>2 DEF Known, Unknown, Forced
<1> QED BY <1>1, <1>3, <1>4, <1>5, <1>6, <1>7, <1>8 DEF Truthful, Promise!Init

(* Every step keeps the truth and the promise. *)
LEMMA StepKept ==
    ASSUME Unhurried, Truthful, [Next]_vars
    PROVE  Kept
<1>1. CASE Next
  <2>1. Inv' BY <1>1, ClientInv, KitInv, ServerInv, CallbackInv, PollInv DEF Next, Truthful
  <2> QED BY <1>1, <2>1, ClientKept, KitKept, ServerKept, CallbackKept, PollKept DEF Next
<1>2. CASE UNCHANGED vars
  <2>1. b' = b /\ kit' = kit /\ srv' = srv /\ left' = left BY <1>2 DEF vars
  <2>2. Inv' BY <2>1 DEF Truthful, Inv, Good, SaveMarked
  <2> QED BY <2>1, <2>2, CalmSame, CalmKept
<1> QED BY <1>1, <1>2

(* The invariant is inductive. *)
THEOREM Truth == Unhurried => (Spec => []Truthful)
<1> SUFFICES ASSUME Unhurried PROVE Spec => []Truthful OBVIOUS
<1>1. Init => Truthful BY InitTruthful
<1>2. Truthful /\ [Next]_vars => Truthful' BY StepKept DEF Kept
<1> QED BY <1>1, <1>2, PTL DEF Spec

(* The request that the broker keeps is that of the upload on its way, so   *)
(* that the answer is never taken for the answer to another upload.         *)
THEOREM RequestIsUploads == Unhurried => (Spec => []UploadIsTracked)
<1>1. Truthful => UploadIsTracked BY DEF Truthful, True, Tracked, UploadIsTracked
<1> QED BY <1>1, Truth, PTL

(* When the broker takes the storage to be up to date, the storage has been *)
(* given all that the file for the upload holds.                            *)
THEOREM UpToDateIsTrue == Unhurried => (Spec => []StorageTruth)
<1>1. Truthful => StorageTruth
  <2> SUFFICES ASSUME Truthful, b.uploading # NoFile, ~IsStorageOutdated(b)
               PROVE  srv.ours >= b.uploading.c
    BY DEF StorageTruth
  <2>1. b.uploading.t = b.lastUploadedTime BY DEF IsStorageOutdated
  <2>2. b.uploading.c \in Int /\ srv.ours \in Int
    BY DEF Truthful, Inv, Good, Broker, File, Storage
  <2>3. b.uploading.c <= srv.ours BY <2>1 DEF Truthful, True, Uploaded, Given
  <2> QED BY <2>2, <2>3
<1> QED BY <1>1, Truth, PTL

(* Broker, Kit and storage implement SharedDocument: no older file ever     *)
(* replaces a newer one on the way to the storage, and nobody else's        *)
(* document is overwritten while the broker knows which version is stored.  *)
THEOREM PromiseIsKept == Unhurried => (Spec => Promised)
<1> SUFFICES ASSUME Unhurried PROVE Spec => Promised OBVIOUS
<1>1. Init => Promise!Init BY InitTruthful
<1>2. Truthful /\ [Next]_vars => [Promise!Next]_(Promise!vars) BY StepKept DEF Kept
<1>3. Spec => []Truthful BY Truth
<1> QED BY <1>1, <1>2, <1>3, PTL DEF Spec, Promised, Promise!Spec
-----------------------------------------------------------------------------
(***************************************************************************)
(* There is never a second save, and what was edited is saved: the command *)
(* on its way to the Kit, the save that the Kit runs and the answer on its *)
(* way back are together at most one, and there is one only while the      *)
(* broker waits for it; and a broker that ends without a word of lost data *)
(* has brought every edit to the storage.  It holds for any sessions,      *)
(* edits and saves that fail, and whenever the Kit dies.                   *)
(*                                                                         *)
(* The broker refuses to save in the activity Save only.  So the invariant *)
(* (OneSave) says that it is in this activity whenever a request is        *)
(* active.  Three things would part the two, and the hypothesis OneAtATime *)
(* excludes them: a rename saves in an activity of its own, a lost answer  *)
(* to an upload replaces the activity of a save that has begun since, and  *)
(* a save that takes too long is given up and repeated on purpose.         *)
(*                                                                         *)
(* With one save at a time it can be said where the edits are (Covered):   *)
(* without activity after the request they were all sent ahead of it, so   *)
(* that they are in the file that the Kit writes, in the one that it has   *)
(* left for the broker when it says that it has saved, and in the one that *)
(* the broker uploads when it has heard so.  That the storage has this     *)
(* file is what the first part of the module tells.                       *)
(***************************************************************************)
OneAtATime ==
    /\ MaxRenames = 0
    /\ "uploadFails" \in Faults => MaxFailed = 0
    /\ "saveTimesOut" \in Faults => MaxTimeouts = 0

-----------------------------------------------------------------------------
(* The messages of a kind in a queue. *)

Of(q, k) == {i \in DOMAIN q : q[i].k = k}
Count(q, k) == Cardinality(Of(q, k))

(* A queue is finite, and so is a part of it. *)
LEMMA CountType ==
    ASSUME NEW S, NEW q \in Seq(S), NEW k
    PROVE  /\ Of(q, k) \subseteq 1..Len(q) /\ Len(q) \in Nat
           /\ IsFiniteSet(Of(q, k)) /\ Count(q, k) \in Nat
<1>1. DOMAIN q = 1..Len(q) /\ Len(q) \in Nat OBVIOUS
<1>2. Of(q, k) \subseteq 1..Len(q) BY <1>1 DEF Of
<1>3. IsFiniteSet(1..Len(q)) BY <1>1, FS_Interval
<1>4. IsFiniteSet(Of(q, k)) BY <1>2, <1>3, FS_Subset
<1> QED BY <1>1, <1>2, <1>4, FS_CardinalityType DEF Count

(* A message that is appended counts if it is of the kind. *)
LEMMA CountAppend ==
    ASSUME NEW S, NEW q \in Seq(S), NEW m \in S, NEW k
    PROVE  Count(Append(q, m), k) = IF m.k = k THEN Count(q, k) + 1 ELSE Count(q, k)
<1> DEFINE n == Len(q) + 1
           a == Append(q, m)
<1>1. n \in Nat /\ n \notin Of(q, k) /\ IsFiniteSet(Of(q, k)) BY CountType
<1>2. DOMAIN a = 1..n /\ (\A i \in 1..Len(q) : a[i] = q[i]) /\ a[n] = m OBVIOUS
<1>3. DOMAIN q = 1..Len(q) OBVIOUS
<1> HIDE DEF a
<1>4. Of(a, k) = IF m.k = k THEN Of(q, k) \cup {n} ELSE Of(q, k)
  BY <1>2, <1>3 DEF Of
<1>5. Count(a, k) = IF m.k = k THEN Count(q, k) + 1 ELSE Count(q, k)
  BY <1>1, <1>4, FS_AddElement DEF Count
<1> QED BY <1>5 DEF a

(* Messages of other kinds do not count. *)
LEMMA CountOthers ==
    ASSUME NEW S, NEW q \in Seq(S), NEW g \in Seq(S), NEW k,
           \A i \in DOMAIN g : g[i].k # k
    PROVE  Count(q \o g, k) = Count(q, k)
<1> DEFINE a == q \o g
<1>1. /\ DOMAIN a = 1..(Len(q) + Len(g)) /\ Len(q) \in Nat /\ Len(g) \in Nat
      /\ \A i \in 1..Len(q) : a[i] = q[i]
      /\ \A i \in 1..(Len(q) + Len(g)) : i > Len(q) => a[i] = g[i - Len(q)]
  OBVIOUS
<1>2. DOMAIN q = 1..Len(q) /\ DOMAIN g = 1..Len(g) OBVIOUS
<1> HIDE DEF a
<1>3. ASSUME NEW i \in 1..(Len(q) + Len(g)), i > Len(q) PROVE a[i].k # k
  <2>1. i - Len(q) \in DOMAIN g BY <1>1, <1>2, <1>3
  <2> QED BY <1>1, <1>3, <2>1
<1>4. Of(a, k) = Of(q, k) BY <1>1, <1>2, <1>3 DEF Of
<1> QED BY <1>4 DEF Count, a

(* A message that is taken from the queue counted if it was of the kind. *)
LEMMA CountTail ==
    ASSUME NEW S, NEW q \in Seq(S), q # <<>>, NEW k
    PROVE  Count(q, k) = IF Head(q).k = k THEN Count(Tail(q), k) + 1
                         ELSE Count(Tail(q), k)
<1> DEFINE T == Tail(q)
           R == Of(q, k) \ {1}
           f == [i \in Of(T, k) |-> i + 1]
<1>1. T \in Seq(S) /\ Len(q) \in Nat /\ Len(T) = Len(q) - 1 /\ Len(q) # 0 OBVIOUS
<1>2. \A i \in 1..Len(T) : T[i] = q[i + 1] OBVIOUS
<1>3. DOMAIN q = 1..Len(q) /\ DOMAIN T = 1..Len(T) /\ Head(q) = q[1] OBVIOUS
<1> HIDE DEF T
<1>4. f \in Bijection(Of(T, k), R)
  <2>1. f \in [Of(T, k) -> R]
    BY <1>1, <1>2, <1>3 DEF Of
  <2>2. \A i, j \in Of(T, k) : f[i] = f[j] => i = j
    BY <1>1, <1>3 DEF Of
  <2>3. ASSUME NEW j \in R PROVE \E i \in Of(T, k) : f[i] = j
    <3>1. j \in 2..Len(q) /\ q[j].k = k BY <1>1, <1>3, <2>3 DEF Of
    <3>2. j - 1 \in 1..Len(T) BY <1>1, <3>1
    <3>3. T[j - 1] = q[j] BY <1>1, <1>2, <3>1, <3>2
    <3>4. j - 1 \in Of(T, k) BY <1>3, <3>1, <3>2, <3>3 DEF Of
    <3>5. f[j - 1] = j BY <3>1, <3>4
    <3> QED BY <3>4, <3>5
  <2> QED BY <2>1, <2>2, <2>3 DEF Bijection, Injection, Surjection, IsInjective
<1>5. IsFiniteSet(Of(T, k)) /\ IsFiniteSet(Of(q, k)) BY <1>1, CountType
<1>6. Cardinality(R) = Count(T, k)
  BY <1>4, <1>5, FS_Bijection DEF ExistsBijection, Count
<1>7. 1 \in Of(q, k) <=> Head(q).k = k BY <1>1, <1>3 DEF Of
<1>8. Cardinality(R) = IF 1 \in Of(q, k) THEN Count(q, k) - 1 ELSE Count(q, k)
  BY <1>5, FS_RemoveElement DEF Count
<1>9. Count(q, k) \in Nat /\ Count(T, k) \in Nat BY <1>1, CountType
<1> QED BY <1>6, <1>7, <1>8, <1>9 DEF T

(* There is none if none is counted. *)
LEMMA CountNone ==
    ASSUME NEW S, NEW q \in Seq(S), NEW k, Count(q, k) <= 0
    PROVE  Of(q, k) = {}
<1>1. IsFiniteSet(Of(q, k)) /\ Count(q, k) \in Nat BY CountType
<1>2. Count(q, k) = 0 BY <1>1
<1> QED BY <1>1, <1>2, FS_EmptySet DEF Count

(* The edits in the queue were all sent before the save. *)
Sealed(q) == \A i \in Of(q, "save"), j \in Of(q, "edit") : j < i

(* A save that is sent comes after all edits, and what is neither a save    *)
(* nor an edit changes nothing.                                             *)
LEMMA SealedAppend ==
    ASSUME NEW S, NEW q \in Seq(S), NEW m \in S, m.k # "edit",
           IF m.k = "save" THEN Of(q, "save") = {} ELSE Sealed(q)
    PROVE  Sealed(Append(q, m))
<1> DEFINE a == Append(q, m)
<1>1. /\ DOMAIN a = 1..(Len(q) + 1) /\ Len(q) \in Nat /\ DOMAIN q = 1..Len(q)
      /\ \A i \in 1..Len(q) : a[i] = q[i]
      /\ a[Len(q) + 1] = m
  OBVIOUS
<1> HIDE DEF a
<1>2. Of(a, "edit") \subseteq Of(q, "edit") /\ Of(q, "edit") \subseteq 1..Len(q)
  BY <1>1 DEF Of
<1>3. CASE m.k = "save"
  <2>1. Of(a, "save") \subseteq {Len(q) + 1} BY <1>1, <1>3 DEF Of
  <2> QED BY <1>1, <1>2, <2>1 DEF Sealed, a
<1>4. CASE m.k # "save"
  <2>1. Of(a, "save") \subseteq Of(q, "save") BY <1>1, <1>4 DEF Of
  <2> QED BY <1>2, <1>4, <2>1 DEF Sealed, a
<1> QED BY <1>3, <1>4

LEMMA SealedOthers ==
    ASSUME NEW S, NEW q \in Seq(S), NEW g \in Seq(S), Sealed(q),
           \A i \in DOMAIN g : g[i].k \notin {"save", "edit"}
    PROVE  Sealed(q \o g)
<1> DEFINE a == q \o g
<1>1. /\ DOMAIN a = 1..(Len(q) + Len(g)) /\ Len(q) \in Nat /\ Len(g) \in Nat
      /\ \A i \in 1..Len(q) : a[i] = q[i]
      /\ \A i \in 1..(Len(q) + Len(g)) : i > Len(q) => a[i] = g[i - Len(q)]
  OBVIOUS
<1>2. DOMAIN q = 1..Len(q) /\ DOMAIN g = 1..Len(g) OBVIOUS
<1> HIDE DEF a
<1>3. ASSUME NEW i \in 1..(Len(q) + Len(g)), i > Len(q)
      PROVE  a[i].k \notin {"save", "edit"}
  <2>1. i - Len(q) \in DOMAIN g BY <1>1, <1>2, <1>3
  <2> QED BY <1>1, <1>3, <2>1
<1>4. Of(a, "save") \subseteq Of(q, "save") /\ Of(a, "edit") \subseteq Of(q, "edit")
  BY <1>1, <1>2, <1>3 DEF Of
<1> QED BY <1>4 DEF Sealed, a

(* When it is the turn of the save no edit is left. *)
LEMMA SealedTail ==
    ASSUME NEW S, NEW q \in Seq(S), q # <<>>, Sealed(q)
    PROVE  /\ Sealed(Tail(q))
           /\ Head(q).k = "save" => Count(Tail(q), "edit") = 0
<1> DEFINE T == Tail(q)
<1>1. T \in Seq(S) /\ Len(q) \in Nat /\ Len(T) = Len(q) - 1 /\ Len(q) # 0 OBVIOUS
<1>2. \A i \in 1..Len(T) : T[i] = q[i + 1] OBVIOUS
<1>3. DOMAIN q = 1..Len(q) /\ DOMAIN T = 1..Len(T) /\ Head(q) = q[1] OBVIOUS
<1> HIDE DEF T
<1>4. \A k : \A i \in Of(T, k) : i \in Nat /\ i >= 1 /\ i + 1 \in Of(q, k)
  BY <1>1, <1>2, <1>3 DEF Of
<1>5. Sealed(T) BY <1>4 DEF Sealed
<1>6. ASSUME Head(q).k = "save" PROVE Count(T, "edit") = 0
  <2>1. 1 \in Of(q, "save") BY <1>1, <1>3, <1>6 DEF Of
  <2>2. Of(T, "edit") = {} BY <1>4, <2>1 DEF Sealed
  <2> QED BY <2>2, FS_EmptySet DEF Count
<1> QED BY <1>5, <1>6 DEF T

(* No message says that a save has succeeded. *)
NoneSucceeded(q) == \A i \in DOMAIN q : q[i].k = "saved" => q[i].v = "false"

LEMMA SucceededAppend ==
    ASSUME NEW S, NEW q \in Seq(S), NEW m \in S, m.k = "saved" => m.v = "false",
           NoneSucceeded(q)
    PROVE  NoneSucceeded(Append(q, m))
<1> DEFINE a == Append(q, m)
<1>1. /\ DOMAIN a = 1..(Len(q) + 1) /\ Len(q) \in Nat /\ DOMAIN q = 1..Len(q)
      /\ \A i \in 1..Len(q) : a[i] = q[i]
      /\ a[Len(q) + 1] = m
  OBVIOUS
<1> HIDE DEF a
<1>2. \A i \in DOMAIN a : i \in DOMAIN q \/ i = Len(q) + 1 BY <1>1
<1> QED BY <1>1, <1>2 DEF NoneSucceeded, a

LEMMA SucceededTail ==
    ASSUME NEW S, NEW q \in Seq(S), q # <<>>
    PROVE  /\ NoneSucceeded(q) => NoneSucceeded(Tail(q))
           /\ Head(q).k = "saved" /\ NoneSucceeded(q) => Head(q).v = "false"
<1> DEFINE T == Tail(q)
<1>1. T \in Seq(S) /\ Len(q) \in Nat /\ Len(T) = Len(q) - 1 /\ Len(q) # 0 OBVIOUS
<1>2. \A i \in 1..Len(T) : T[i] = q[i + 1] OBVIOUS
<1>3. DOMAIN q = 1..Len(q) /\ DOMAIN T = 1..Len(T) /\ Head(q) = q[1] OBVIOUS
<1> HIDE DEF T
<1>4. \A i \in DOMAIN T : i + 1 \in DOMAIN q /\ T[i] = q[i + 1] BY <1>1, <1>2, <1>3
<1>5. NoneSucceeded(q) => NoneSucceeded(T) BY <1>4 DEF NoneSucceeded
<1>6. 1 \in DOMAIN q BY <1>1, <1>3
<1> QED BY <1>3, <1>5, <1>6 DEF NoneSucceeded, T

LEMMA SucceededNone ==
    ASSUME NEW S, NEW q \in Seq(S), Count(q, "saved") <= 0
    PROVE  NoneSucceeded(q)
<1>1. Of(q, "saved") = {} BY CountNone
<1> QED BY <1>1 DEF Of, NoneSucceeded

-----------------------------------------------------------------------------
(* The invariant. d is a broker and x a Kit. *)

(* The broker is in no activity but that of a save, and what it waits for   *)
(* will not change that.                                                    *)
Plain(d) ==
    /\ d.activity \in {"None", "Save"}
    /\ d.renameSession = Null
    /\ d.checkFileInfo = Null
    /\ d.uploadRequest # Null => ~d.uploadRequest.rename
    /\ d.http # Null => d.http.res # "FAILED"

(* The saves on their way, in the Kit and on their way back. *)
SavesOf(d, x) ==
    Count(d.toKit, "save") + (IF x.save = Null THEN 0 ELSE 1) + Count(x.toBroker, "saved")

OneAtMost(d, x) ==
    /\ Plain(d)
    /\ d.saving => d.activity = "Save"
    /\ d.kitDisconnected # "No" => ~x.alive /\ x.toBroker = <<>>
    /\ d.kitDisconnected = "No" => SavesOf(d, x) <= IF d.saving THEN 1 ELSE 0

(* The edits that were sent to the Kit. *)
Edits(d, x) == x.edits + Count(d.toKit, "edit")

(* The file for the broker holds them all. *)
Copied(d, x) == d.upload # NoFile /\ d.upload.c = Edits(d, x)

(* Where the edits are that precede the last request to save. *)
Covered(d, x) ==
    /\ ~d.saving /\ ~d.modifiedAfterSave /\ d.saveFailures = 0
         => d.uploading.c = Edits(d, x)
    /\ d.saving /\ ~d.modifiedAfterSave =>
         /\ x.alive => Sealed(d.toKit)
         /\ x.save # Null => x.save.c = x.edits /\ Count(d.toKit, "edit") = 0
         /\ NoneSucceeded(x.toBroker) \/ Copied(d, x)

(* What the Kit takes for unmodified is on its disk. *)
Unmodified(x) ==
    /\ 0 <= x.doc.t
    /\ ~x.alive => x.save = Null
    /\ x.alive /\ x.save = Null /\ ~x.modified => x.doc.c = x.edits
    /\ x.alive /\ x.save # Null =>
         /\ ~x.modified => x.save.c = x.edits
         /\ ~x.save.modified => x.save.c = x.doc.c

OneSave(d, x) == OneAtMost(d, x) /\ Covered(d, x) /\ Unmodified(x)

(* A broker that has ended has looked for lost data. *)
Ended(d) == d.finished => d.dataLoss = DetectDataLoss(d)

(* What OneAtATime excludes will not happen any more. *)
Spent ==
    /\ left.renames = 0
    /\ "uploadFails" \in Faults => left.failed = 0
    /\ "saveTimesOut" \in Faults => left.timeouts = 0

One == Inv /\ Spent /\ OneSave(b, kit) /\ Ended(b)

(* The saves are counted in the natural numbers. *)
LEMMA SavesType ==
    ASSUME NEW d \in Broker, NEW x \in Kit
    PROVE  /\ Count(d.toKit, "save") \in Nat
           /\ Count(x.toBroker, "saved") \in Nat
           /\ SavesOf(d, x) \in Nat
<1>1. d.toKit \in Seq(KitCommand) BY DEF Broker
<1>2. x.toBroker \in Seq(KitMessage) BY DEF Kit
<1>3. Count(d.toKit, "save") \in Nat BY <1>1, CountType
<1>4. Count(x.toBroker, "saved") \in Nat BY <1>2, CountType
<1> QED BY <1>3, <1>4 DEF SavesOf

-----------------------------------------------------------------------------
(* Steps that have nothing to do with a save. *)

Apart(d, e) ==
    Plain(d) =>
        /\ Plain(e)
        /\ e.activity = d.activity /\ e.saving = d.saving
        /\ e.kitDisconnected = d.kitDisconnected
        /\ e.modifiedAfterSave = d.modifiedAfterSave
        /\ e.saveFailures = d.saveFailures
        /\ e.upload = d.upload /\ e.uploading = d.uploading
        /\ e.finished = d.finished
        /\ Count(e.toKit, "save") = Count(d.toKit, "save")
        /\ Count(e.toKit, "edit") = Count(d.toKit, "edit")
        /\ Sealed(d.toKit) => Sealed(e.toKit)

(* They add up, and doing nothing is one. *)
LEMMA ApartOnwards ==
    ASSUME NEW d, NEW e, Apart(d, e)
    PROVE  \A x : Apart(e, x) => Apart(d, x)
BY DEF Apart

LEMMA ApartSame == \A d : Apart(d, d)
BY DEF Apart

(* A step of a broker that goes on. *)
Onto(d, e, x) == OneSave(e, x) /\ e.finished = d.finished

LEMMA OntoSame == \A d, x : OneSave(d, x) => Onto(d, d, x)
BY DEF Onto

LEMMA OntoOnwards ==
    ASSUME NEW d, NEW e, NEW x, Onto(d, e, x)
    PROVE  OneSave(e, x) /\ \A f : Onto(e, f, x) => Onto(d, f, x)
BY DEF Onto

(* They keep the invariant. *)
LEMMA ApartOne ==
    ASSUME NEW d, NEW e, Apart(d, e), NEW x, OneSave(d, x)
    PROVE  Onto(d, e, x)
<1>1. Plain(d) BY DEF OneSave, OneAtMost
<1>2. OneAtMost(e, x) BY <1>1 DEF Apart, OneSave, OneAtMost, SavesOf
<1>3. Edits(e, x) = Edits(d, x) BY <1>1 DEF Apart, Edits
<1>4. Covered(e, x) BY <1>1, <1>3 DEF Apart, OneSave, Covered, Copied
<1> QED BY <1>1, <1>2, <1>4 DEF OneSave, Apart, Onto

(* Small steps. *)
LEMMA SmallApart ==
    ASSUME NEW d \in Broker
    PROVE  /\ \A h, a : Apart(d, Check(d, h, a))
           /\ Apart(d, Stop(d)) /\ Apart(d, MarkToDestroy(d))
           /\ Apart(d, CloseDocument(d)) /\ Apart(d, HandleDocumentConflict(d))
           /\ Apart(d, SetLoaded(d))
           /\ \A s : Apart(d, FinalRemoveSession(d, s))
           /\ Apart(d, FailLoadingSessions(d))
           /\ \A v : Apart(d, [d EXCEPT !.unloadRequested = v])
<1>1. \A h, a : Apart(d, Check(d, h, a)) BY DEF Broker, Apart, Plain, Check
<1>2. Apart(d, Stop(d)) BY DEF Broker, Apart, Plain, Stop
<1>3. Apart(d, MarkToDestroy(d)) BY DEF Broker, Apart, Plain, MarkToDestroy
<1>4. Apart(d, CloseDocument(d)) BY DEF Broker, Apart, Plain, CloseDocument
<1>5. Apart(d, HandleDocumentConflict(d)) BY DEF Broker, Apart, Plain, HandleDocumentConflict
<1>6. Apart(d, SetLoaded(d)) BY DEF Broker, Apart, Plain, SetLoaded
<1>7. \A s : Apart(d, FinalRemoveSession(d, s)) BY DEF Broker, Apart, Plain, FinalRemoveSession
<1>8. Apart(d, FailLoadingSessions(d))
  <2> DEFINE S == d.sessions \ (LoadingSessions(d) \ d.closeFrame)
  <2>1. FailLoadingSessions(d) = [d EXCEPT !.sessions = S] BY Zenon DEF FailLoadingSessions
  <2> HIDE DEF S
  <2> QED BY <2>1 DEF Broker, Apart, Plain
<1>9. \A v : Apart(d, [d EXCEPT !.unloadRequested = v]) BY DEF Broker, Apart, Plain
<1> QED BY <1>1, <1>2, <1>3, <1>4, <1>5, <1>6, <1>7, <1>8, <1>9

(* A command for the Kit that is neither a save nor an edit. *)
LEMMA ForwardApart ==
    ASSUME NEW d \in Broker, NEW m \in KitCommand, m.k \notin {"save", "edit"}
    PROVE  Apart(d, ForwardToChild(d, m))
<1> DEFINE q == Append(d.toKit, m)
           e == [d EXCEPT !.toKit = q]
<1>1. ForwardToChild(d, m) = IF m.s \in d.sessions THEN e ELSE d
  BY Zenon DEF ForwardToChild
<1>2. d.toKit \in Seq(KitCommand) /\ m.k # "save" /\ m.k # "edit" BY DEF Broker
<1>3. /\ Count(q, "save") = Count(d.toKit, "save")
      /\ Count(q, "edit") = Count(d.toKit, "edit")
      /\ Sealed(d.toKit) => Sealed(q)
  BY <1>2, CountAppend, SealedAppend
<1> HIDE DEF q
<1>4. Apart(d, e) BY <1>3 DEF Broker, Apart, Plain
<1> QED BY <1>1, <1>4, ApartSame

(* Sessions leaving. *)
LEMMA DisconnectApart ==
    ASSUME NEW d, Good(d), NEW D \in SUBSET Session
    PROVE  Apart(d, MarkIfUnloadRequested(d)) /\ Apart(d, DisconnectFromKit(d, D))
<1>0. d \in Broker BY DEF Good
<1> DEFINE e == Check(d, Cardinality(ActiveSessions(d)) <= 1, "UnloadNotShared")
           b1 == MarkIfUnloadRequested(d)
           st == [s \in Session |-> IF s \in D THEN "WAIT_DISCONNECT" ELSE b1.state[s]]
           g == Goodbyes(D \cap d.sessions)
           q == b1.toKit \o g
           b2 == [b1 EXCEPT !.state = st, !.toKit = q]
           settled == {s \in d.sessions \ D : IsLive(d, s) \/ InWaitDisconnected(d, s)}
           lastLoaded == Cardinality(settled) = IF D \subseteq d.sessions THEN 0 ELSE 1
           b3 == IF lastLoaded THEN FailLoadingSessions(b2) ELSE b2
<1>1. DisconnectFromKit(d, D)
        = IF ~b3.loaded /\ Cardinality(b3.sessions) <= 1 THEN Stop(b3) ELSE b3
  BY Zenon DEF DisconnectFromKit
<1>2. b1 = IF d.unloadRequested THEN MarkToDestroy(e) ELSE d
  BY Zenon DEF MarkIfUnloadRequested
<1>3. Good(e) /\ e \in Broker BY CheckGood DEF Assertion, Good
<1>4. Apart(d, e) BY <1>0, SmallApart
<1>5. Apart(e, MarkToDestroy(e)) BY <1>3, SmallApart
<1> HIDE DEF e
<1>6. Apart(d, b1) BY <1>2, <1>4, <1>5, ApartOnwards, ApartSame
<1>7. Good(b1) /\ b1 \in Broker BY MarkGood DEF Good
<1> HIDE DEF b1, settled, lastLoaded
<1>8. D \cap d.sessions \in SUBSET Session OBVIOUS
<1>9. g \in Seq(KitCommand) BY <1>8, GoodbyesType
<1>10. \A i \in DOMAIN g : g[i].k \notin {"save", "edit"} BY DEF Goodbyes, Command
<1> HIDE DEF g
<1>11. b1.toKit \in Seq(KitCommand) BY <1>7 DEF Broker
<1>12. /\ Count(q, "save") = Count(b1.toKit, "save")
       /\ Count(q, "edit") = Count(b1.toKit, "edit")
       /\ Sealed(b1.toKit) => Sealed(q)
  <2>1. \A i \in DOMAIN g : g[i].k # "save" /\ g[i].k # "edit" BY <1>10
  <2> QED BY <1>9, <1>10, <1>11, <2>1, CountOthers, SealedOthers
<1>13. st \in [Session -> SessionState] BY <1>7 DEF Broker, SessionState
<1>14. q \in Seq(KitCommand) BY <1>9, <1>11
<1> HIDE DEF st, q
<1>15. Apart(b1, b2) BY <1>7, <1>12 DEF Broker, Apart, Plain
<1>16. b2 \in Broker BY <1>7, <1>13, <1>14, ZenonT(60) DEF Broker
<1>17. b2.activity = b1.activity /\ b2.saving = b1.saving BY <1>7 DEF Broker
<1>18. Good(b2) BY <1>7, <1>16, <1>17, OtherFields
<1> HIDE DEF b2
<1>19. Apart(b2, b3) BY <1>16, SmallApart, ApartSame
<1>20. Good(b3) BY <1>18, RemoveGood
<1> HIDE DEF b3
<1>21. Apart(b3, Stop(b3)) BY <1>20, SmallApart DEF Good
<1>22. Apart(d, b3) /\ Apart(d, Stop(b3)) BY <1>6, <1>15, <1>19, <1>21, ApartOnwards
<1> QED BY <1>1, <1>6, <1>22 DEF b1

(* One session, and all sessions whose client has gone. *)
LEMMA LeaveApart ==
    ASSUME NEW d, Good(d)
    PROVE  /\ \A s \in Session : Apart(d, DisconnectSessionInternal(d, s))
           /\ Apart(d, DisconnectClosedSessions(d))
<1>1. ASSUME NEW s \in Session PROVE Apart(d, DisconnectSessionInternal(d, s))
  <2> DEFINE e == MarkIfUnloadRequested(d)
  <2>1. Apart(d, DisconnectFromKit(d, {s})) /\ Apart(d, e) BY DisconnectApart
  <2>2. e \in Broker BY MarkGood DEF Good
  <2> HIDE DEF e
  <2>3. Apart(d, FinalRemoveSession(e, s)) BY <2>1, <2>2, SmallApart, ApartOnwards
  <2> QED BY <2>1, <2>3, Zenon DEF DisconnectSessionInternal, e
<1>2. Apart(d, DisconnectClosedSessions(d))
  <2> DEFINE D == {x \in d.sessions : x \in d.closeFrame /\ ~InWaitDisconnected(d, x)}
  <2>1. D \in SUBSET Session BY DEF Good, Broker
  <2>2. DisconnectClosedSessions(d) = IF D = {} THEN d ELSE DisconnectFromKit(d, D)
    BY Zenon DEF DisconnectClosedSessions
  <2> HIDE DEF D
  <2>3. Apart(d, DisconnectFromKit(d, D)) BY <2>1, DisconnectApart
  <2> QED BY <2>2, <2>3, ApartSame
<1> QED BY <1>1, <1>2

-----------------------------------------------------------------------------
(* Uploads. *)

(* An upload that fails at once. *)
LEMMA UploadErrorApart ==
    ASSUME NEW d \in Broker, d.uploadRequest \in UploadRequest
    PROVE  /\ Apart(d, UploadError(d))
           /\ \A x : Apart(d, SetLastUploadResult([d EXCEPT !.uploadRequest.complete = TRUE], x))
<1> DEFINE r == [d.uploadRequest EXCEPT !.complete = TRUE]
           c == [d EXCEPT !.uploadRequest = r]
<1>1. r \in UploadRequest /\ (r.rename <=> d.uploadRequest.rename) BY DEF UploadRequest
<1>2. [d EXCEPT !.uploadRequest.complete = TRUE] = c OBVIOUS
<1>3. d.uploadRequest # Null BY NullAssumption
<1> HIDE DEF r
<1>4. c \in Broker BY <1>1, ZenonT(60) DEF Broker
<1>5. Apart(d, c) BY <1>1, <1>3 DEF Broker, Apart, Plain
<1>6. c.activity = d.activity BY DEF Broker
<1> HIDE DEF c
<1>7. ASSUME NEW x PROVE Apart(c, SetLastUploadResult(c, x))
  BY <1>4 DEF Broker, Apart, Plain, SetLastUploadResult
<1>8. \A x : Apart(d, SetLastUploadResult(c, x)) BY <1>5, <1>7, ApartOnwards
<1>9. CASE d.activity = "Rename" BY <1>2, <1>8, <1>9 DEF Apart, Plain
<1>10. CASE d.activity # "Rename"
  <2>1. UploadError(d) = SetLastUploadResult(c, FALSE)
    BY <1>2, <1>10, Zenon DEF UploadError
  <2> QED BY <1>2, <1>8, <2>1
<1> QED BY <1>9, <1>10

(* Starting one, or refusing to. *)
LEMMA UploadInternalApart ==
    ASSUME NEW d, Good(d), NEW s, NEW force \in BOOLEAN
    PROVE  Apart(d, UploadToStorageInternal(d, s, FALSE, force))
<1> DEFINE r == [t |-> d.uploading.t, rename |-> FALSE, s |-> s, complete |-> FALSE]
           lf == d.forced \/ force
           b1 == [d EXCEPT !.uploadRequest = r, !.lastForced = lf,
                           !.forced = FALSE, !.uploadActive = TRUE]
           h == [file |-> d.uploading, rename |-> FALSE, s |-> s,
                 ts |-> IF b1.lastForced THEN UnSafe ELSE d.storageTime,
                 res |-> "queued", t |-> NoTime]
           refused == [UploadError(b1) EXCEPT !.sizeAsUploaded = NoSize]
           sent == [b1 EXCEPT !.http = h, !.sizeAsUploaded = d.uploading.c]
<1>1. d \in Broker BY DEF Good
<1>2. UploadToStorageInternal(d, s, FALSE, force)
        = IF s \notin d.editable THEN d
          ELSE IF IsAsyncUploading(d) \/ d.uploading = NoFile THEN refused ELSE sent
  BY Zenon DEF UploadToStorageInternal
<1>3. ASSUME s \in d.editable PROVE Apart(d, refused) /\ Apart(d, sent)
  <2>1. s \in Session BY <1>1, <1>3 DEF Broker
  <2>2. d.uploading.t \in Int BY <1>1 DEF Broker, File
  <2>3. r \in UploadRequest /\ ~r.rename BY <2>1, <2>2 DEF UploadRequest
  <2>4. h.res # "FAILED" OBVIOUS
  <2>5. lf \in BOOLEAN OBVIOUS
  <2> HIDE DEF r, lf
  <2>6. b1 \in Broker BY <1>1, <2>3, <2>5, ZenonT(60) DEF Broker
  <2>7. b1.uploadRequest = r BY <1>1 DEF Broker
  <2>8. Apart(d, b1) BY <1>1, <2>3 DEF Broker, Apart, Plain
  <2>9. Good(b1)
    <3>1. b1.activity = d.activity /\ b1.saving = d.saving BY <1>1 DEF Broker
    <3> QED BY <2>6, <3>1, OtherFields
  <2> HIDE DEF b1, h
  <2>10. Apart(b1, UploadError(b1)) BY <2>3, <2>6, <2>7, UploadErrorApart
  <2>11. UploadError(b1) \in Broker BY <2>3, <2>7, <2>9, UploadErrorGood DEF Good
  <2>12. Apart(UploadError(b1), refused) BY <2>11 DEF Broker, Apart, Plain
  <2>13. Apart(b1, sent) BY <2>4, <2>6 DEF Broker, Apart, Plain
  <2> QED BY <2>8, <2>10, <2>12, <2>13, ApartOnwards
<1> HIDE DEF refused, sent
<1> QED BY <1>2, <1>3, ApartSame

(* The same for an upload that may have to wait. *)
LEMMA UploadApart ==
    ASSUME NEW d, Good(d), NEW s, NEW force \in BOOLEAN, NEW elapsed
    PROVE  Apart(d, UploadToStorage(d, s, force, elapsed))
<1>1. Apart(d, UploadToStorageInternal(d, s, FALSE, force)) BY UploadInternalApart
<1> QED BY <1>1, ApartSame DEF UploadToStorage

(* After a save nothing is left of it. *)
LEMMA CheckAndUploadApart ==
    ASSUME NEW d \in Broker, Plain(d), NEW s, NEW justSaved, NEW elapsed
    PROVE  Apart(EndSave(d), CheckAndUploadToStorage(d, s, justSaved, elapsed))
<1> DEFINE b1 == EndSave(d)
           modified == IF justSaved THEN d.modifiedAfterSave ELSE NeedToSaveToDisk(d)
<1>1. d.activity # "Rename" BY DEF Plain
<1>2. CheckAndUploadToStorage(d, s, justSaved, elapsed)
        = IF modified /\ IsUnloading(d)
          THEN Check(b1, CanSaveToDisk(d), "CanSaveAgain")
          ELSE IF NeedToUploadToStorage(d) THEN UploadToStorage(b1, s, FALSE, elapsed)
          ELSE IF IsAsyncUploading(d) THEN b1
          ELSE DisconnectClosedSessions(b1)
  BY <1>1, Zenon DEF CheckAndUploadToStorage
<1>3. Good(b1) BY EndGood
<1> HIDE DEF b1, modified
<1>4. Apart(b1, Check(b1, CanSaveToDisk(d), "CanSaveAgain")) BY <1>3, SmallApart DEF Good
<1>5. Apart(b1, UploadToStorage(b1, s, FALSE, elapsed)) BY <1>3, UploadApart
<1>6. Apart(b1, DisconnectClosedSessions(b1)) BY <1>3, LeaveApart
<1> QED BY <1>2, <1>4, <1>5, <1>6, ApartSame DEF b1

(* An upload that was stored. *)
LEMMA UploadSuccessfulApart ==
    ASSUME NEW d, Good(d), d.uploadRequest \in UploadRequest, NEW t \in Int
    PROVE  Apart(d, HandleUploadSuccessful(d, t))
<1> DEFINE rt == d.uploadRequest.t
           b1 == [d EXCEPT !.lastUploadedTime = rt, !.serverTime = t,
                           !.changedInStorage = FALSE, !.lastForced = FALSE]
           b3 == IF b1.unloadRequested THEN MarkToDestroy(b1) ELSE b1
           b4 == IF /\ b3.status = "Destroying" \/ b3.sessions = {}
                    /\ ~IsPossiblyModified(b3)
                 THEN Stop(b3) ELSE b3
<1> SUFFICES ASSUME Plain(d) PROVE Apart(d, HandleUploadSuccessful(d, t)) BY DEF Apart
<1>1. d.activity # "Rename" /\ ~d.uploadRequest.rename
  BY NullAssumption DEF Plain
<1>2. HandleUploadSuccessful(d, t) = DisconnectClosedSessions(b4)
  BY <1>1, Zenon DEF HandleUploadSuccessful
<1>3. d \in Broker /\ rt \in Int BY DEF Good, UploadRequest
<1> HIDE DEF rt
<1>4. b1 \in Broker BY <1>3, ZenonT(60) DEF Broker
<1>5. b1.activity = d.activity /\ b1.saving = d.saving BY <1>3 DEF Broker
<1>6. Good(b1) BY <1>4, <1>5, OtherFields
<1>7. Apart(d, b1) BY <1>3 DEF Broker, Apart, Plain
<1> HIDE DEF b1
<1>8. Good(b3) /\ Apart(b1, b3) BY <1>4, <1>6, StopGood, SmallApart, ApartSame
<1> HIDE DEF b3
<1>9. Good(b4) /\ Apart(b3, b4)
  <2>1. b3 \in Broker BY <1>8 DEF Good
  <2> QED BY <1>8, <2>1, StopGood, SmallApart, ApartSame
<1> HIDE DEF b4
<1>10. Apart(b4, DisconnectClosedSessions(b4)) BY <1>9, LeaveApart
<1> QED BY <1>2, <1>7, <1>8, <1>9, <1>10, ApartOnwards

(* An upload that the storage refused. *)
LEMMA UploadFailedApart ==
    ASSUME NEW d \in Broker, NEW result \in {"TOO_LARGE", "UNAUTHORIZED", "CONFLICT"}
    PROVE  Apart(d, HandleUploadFailed(d, result))
<1> SUFFICES ASSUME Plain(d) PROVE Apart(d, HandleUploadFailed(d, result)) BY DEF Apart
<1> DEFINE E == d.editable \ d.sessions
           A == d.authorized \ ({d.uploadRequest.s} \cap d.sessions)
           ro == [d EXCEPT !.editable = E]
           un == [d EXCEPT !.authorized = A]
           b2 == CASE result = "TOO_LARGE" -> ro
                   [] result = "UNAUTHORIZED" -> un
                   [] result = "FAILED" -> [d EXCEPT !.activity = "SyncFileTimestamp"]
                   [] result = "CONFLICT" -> HandleDocumentConflict(d)
           v == b2.forced \/ b2.lastForced
           e == [b2 EXCEPT !.forced = v, !.lastForced = FALSE]
<1>1. d.activity # "Rename" BY DEF Plain
<1>2. HandleUploadFailed(d, result) = e BY <1>1, Zenon DEF HandleUploadFailed
<1>3. E \in SUBSET Session /\ A \in SUBSET Session BY DEF Broker
<1> HIDE DEF E, A
<1>4. ro \in Broker /\ un \in Broker BY <1>3, ZenonT(60) DEF Broker
<1>5. Apart(d, ro) /\ Apart(d, un) BY DEF Broker, Apart, Plain
<1>6. HandleDocumentConflict(d) \in Broker
  <2> DEFINE stop == d.stop \/ d.sessions \subseteq d.closeFrame
  <2>1. HandleDocumentConflict(d) = [d EXCEPT !.changedInStorage = TRUE, !.stop = stop]
    BY Zenon DEF HandleDocumentConflict
  <2>2. stop \in BOOLEAN OBVIOUS
  <2> HIDE DEF stop
  <2>3. [d EXCEPT !.changedInStorage = TRUE, !.stop = stop] \in Broker
    BY <2>2, ZenonT(60) DEF Broker
  <2> QED BY <2>1, <2>3
<1>7. Apart(d, HandleDocumentConflict(d)) BY SmallApart
<1> HIDE DEF ro, un
<1>8. b2 \in Broker /\ Apart(d, b2)
  <2>1. CASE result = "TOO_LARGE" BY <1>4, <1>5, <2>1
  <2>2. CASE result = "UNAUTHORIZED" BY <1>4, <1>5, <2>2
  <2>3. CASE result = "CONFLICT" BY <1>6, <1>7, <2>3
  <2> QED BY <2>1, <2>2, <2>3
<1> HIDE DEF b2, v
<1>9. Apart(b2, e) BY <1>8 DEF Broker, Apart, Plain
<1> QED BY <1>2, <1>8, <1>9, ApartOnwards

(* The end of an upload that was answered. *)
LEMMA UploadFinishedApart ==
    ASSUME NEW d, Good(d), d.http # Null, d.http.res \notin {"queued", "pending"}
    PROVE  Apart(d, UploadFinished(d))
<1> SUFFICES ASSUME Plain(d) PROVE Apart(d, UploadFinished(d)) BY DEF Apart
<1> DEFINE res == d.http.res
           st == StorageTimeAfter(d)
           b1 == [d EXCEPT !.http = Null, !.storageTime = st]
           c == [b1 EXCEPT !.uploadRequest.complete = TRUE]
           ok == res = "OK"
           b2 == SetLastUploadResult(c, ok)
<1>1. UploadFinished(d)
        = IF d.uploadRequest = Null THEN b1
          ELSE IF res = "Error" THEN UploadError(b1)
          ELSE IF res = "OK" THEN HandleUploadSuccessful(b2, b1.storageTime)
          ELSE HandleUploadFailed(b2, res)
  BY Zenon DEF UploadFinished
<1>2. d \in Broker BY DEF Good
<1>3. d.http \in HttpUpload BY <1>2 DEF Broker
<1>4. res \in HttpResult \ {"FAILED"} /\ d.http.t \in Int BY <1>3 DEF HttpUpload, Plain
<1>5. st \in Int BY <1>2, <1>4 DEF StorageTimeAfter, UnSafe, Broker
<1>6. ok \in BOOLEAN OBVIOUS
<1> HIDE DEF st, ok
<1>7. b1 \in Broker BY <1>2, <1>5, ZenonT(60) DEF Broker
<1>8. /\ b1.activity = d.activity /\ b1.saving = d.saving
      /\ b1.uploadRequest = d.uploadRequest /\ b1.storageTime = st
  BY <1>2 DEF Broker
<1>9. Good(b1) BY <1>7, <1>8, OtherFields
<1>10. Apart(d, b1) BY <1>2 DEF Broker, Apart, Plain
<1> HIDE DEF b1
<1>11. ASSUME d.uploadRequest # Null
       PROVE  /\ Apart(b1, UploadError(b1))
              /\ Apart(b1, HandleUploadSuccessful(b2, b1.storageTime))
              /\ res \notin {"OK", "Error"} => Apart(b1, HandleUploadFailed(b2, res))
  <2>1. b1.uploadRequest \in UploadRequest BY <1>2, <1>8, <1>11 DEF Broker
  <2>2. Apart(b1, UploadError(b1)) /\ Apart(b1, b2) BY <1>7, <2>1, UploadErrorApart
  <2>3. Good(c) /\ c.uploadRequest \in UploadRequest BY <1>9, <2>1, CompleteGood
  <2> HIDE DEF c
  <2>4. Good(b2) BY <1>6, <2>3, UploadResultGood
  <2>5. b2.uploadRequest = c.uploadRequest
    BY <2>3 DEF SetLastUploadResult, Good, Broker
  <2> HIDE DEF b2
  <2>6. Apart(b2, HandleUploadSuccessful(b2, b1.storageTime))
    BY <1>5, <1>8, <2>3, <2>4, <2>5, UploadSuccessfulApart
  <2>7. ASSUME res \notin {"OK", "Error"} PROVE Apart(b2, HandleUploadFailed(b2, res))
    <3>1. res \in {"TOO_LARGE", "UNAUTHORIZED", "CONFLICT"}
      BY <1>4, <2>7 DEF HttpResult
    <3> QED BY <2>4, <3>1, UploadFailedApart DEF Good
  <2> QED BY <2>2, <2>6, <2>7, ApartOnwards
<1> HIDE DEF b2, res
<1>12. Apart(d, UploadFinished(d))
  <2>1. CASE d.uploadRequest = Null BY <1>1, <1>10, <2>1
  <2>2. CASE d.uploadRequest # Null
    <3>1. Apart(b1, UploadFinished(d)) BY <1>1, <1>11, <2>2
    <3> QED BY <1>10, <3>1, ApartOnwards
  <2> QED BY <2>1, <2>2
<1> QED BY <1>12

-----------------------------------------------------------------------------
(* Saving. x is the Kit. *)

(* With no save of its own to wait for the broker may ask for one. *)
LEMMA SendOne ==
    ASSUME NEW d \in Broker, NEW x \in Kit, OneSave(d, x), d.activity # "Save",
           NEW s, NEW dsiu \in BOOLEAN
    PROVE  Onto(d, SendUnoSave(d, s, dsiu), x)
<1>1. CASE s \notin d.sessions BY <1>1, OntoSame DEF SendUnoSave
<1>2. CASE s \in d.sessions
  <2> DEFINE m == Command("save", s, dsiu)
             q == Append(d.toKit, m)
             e == [d EXCEPT !.toKit = q, !.saving = TRUE, !.modifiedAfterSave = FALSE,
                            !.activity = "Save"]
  <2>1. d.activity = "None" /\ ~d.saving BY DEF OneSave, OneAtMost, Plain
  <2>2. SendUnoSave(d, s, dsiu) = e
    <3>1. m.s = s BY DEF Command
    <3>2. ForwardToChild(d, m) = [d EXCEPT !.toKit = q]
      BY <1>2, <3>1, Zenon DEF ForwardToChild
    <3> DEFINE f == [d EXCEPT !.toKit = q]
               a == IF f.activity = "None" THEN "Save" ELSE f.activity
    <3>3. SendUnoSave(d, s, dsiu)
            = [f EXCEPT !.saving = TRUE, !.modifiedAfterSave = FALSE, !.activity = a]
      BY <1>2, <3>2, Zenon DEF SendUnoSave
    <3> HIDE DEF q
    <3>4. a = "Save" BY <2>1 DEF Broker
    <3> HIDE DEF a
    <3> QED BY <3>3, <3>4
  <2>3. s \in Session BY <1>2 DEF Broker
  <2>4. m \in KitCommand /\ m.k = "save" BY <2>3, CommandType DEF Command
  <2>5. d.toKit \in Seq(KitCommand) /\ x.toBroker \in Seq(KitMessage) BY DEF Broker, Kit
  <2> HIDE DEF m
  <2>6. /\ Count(q, "save") = Count(d.toKit, "save") + 1
        /\ Count(q, "edit") = Count(d.toKit, "edit")
    <3>1. m.k # "edit" BY <2>4
    <3> QED BY <2>4, <2>5, <3>1, CountAppend
  <2>7. /\ d.kitDisconnected = "No" => SavesOf(d, x) <= 0
        /\ x.alive => d.kitDisconnected = "No"
        /\ x.save = Null /\ NoneSucceeded(x.toBroker)
    <3>1. CASE d.kitDisconnected = "No"
      <4>1. SavesOf(d, x) <= 0 BY <2>1, <3>1 DEF OneSave, OneAtMost
      <4>2. Count(d.toKit, "save") \in Nat /\ Count(x.toBroker, "saved") \in Nat
        BY SavesType
      <4>3. x.save = Null /\ Count(x.toBroker, "saved") <= 0 BY <4>1, <4>2 DEF SavesOf
      <4> QED BY <2>5, <3>1, <4>1, <4>3, SucceededNone
    <3>2. CASE d.kitDisconnected # "No"
      <4>1. ~x.alive /\ x.toBroker = <<>> /\ x.save = Null
        BY <3>2 DEF OneSave, OneAtMost, Unmodified
      <4> QED BY <3>2, <4>1 DEF NoneSucceeded
    <3> QED BY <3>1, <3>2
  <2>8. x.alive => Sealed(q)
    <3> SUFFICES ASSUME x.alive PROVE Sealed(q) OBVIOUS
    <3>1. Count(d.toKit, "save") <= 0
      <4>1. Count(d.toKit, "save") \in Nat /\ Count(x.toBroker, "saved") \in Nat
        BY SavesType
      <4> QED BY <2>7, <4>1 DEF SavesOf
    <3>2. Of(d.toKit, "save") = {} BY <2>5, <3>1, CountNone
    <3>3. m.k # "edit" BY <2>4
    <3> QED BY <2>4, <2>5, <3>2, <3>3, SealedAppend
  <2> HIDE DEF q
  <2>9. /\ e.toKit = q /\ e.saving = TRUE /\ e.activity = "Save"
        /\ e.kitDisconnected = d.kitDisconnected
        /\ e.renameSession = d.renameSession /\ e.checkFileInfo = d.checkFileInfo
        /\ e.uploadRequest = d.uploadRequest /\ e.http = d.http
        /\ e.upload = d.upload /\ e.finished = d.finished
    BY DEF Broker
  <2> HIDE DEF e
  <2>10. OneAtMost(e, x)
    <3>1. Plain(e) BY <2>9 DEF OneSave, OneAtMost, Plain
    <3>2. ASSUME d.kitDisconnected = "No" PROVE SavesOf(e, x) <= 1
      <4>1. Count(d.toKit, "save") \in Nat /\ Count(x.toBroker, "saved") \in Nat
        BY SavesType
      <4> QED BY <2>6, <2>7, <2>9, <3>2, <4>1 DEF SavesOf
    <3> QED BY <2>9, <3>1, <3>2 DEF OneSave, OneAtMost
  <2>11. Covered(e, x) BY <2>7, <2>8, <2>9 DEF Covered
  <2> QED BY <2>2, <2>9, <2>10, <2>11 DEF OneSave, Onto
<1> QED BY <1>1, <1>2

(* The automatic save looks at the activity itself. *)
LEMMA AutoSaveOne ==
    ASSUME NEW d \in Broker, NEW x \in Kit, OneSave(d, x), NEW w, NEW force, NEW timed
    PROVE  Onto(d, AutoSave(d, w, force, timed), x)
<1>1. CASE AutoSaveSends(d, force, timed)
  <2>1. d.activity # "Save" BY <1>1 DEF AutoSaveSends
  <2>2. Onto(d, SendUnoSave(d, AutoSaveSession(d, w), TRUE), x) BY <2>1, SendOne
  <2> QED BY <1>1, <2>2 DEF AutoSave
<1>2. CASE ~AutoSaveSends(d, force, timed) BY <1>2, OntoSame DEF AutoSave
<1> QED BY <1>1, <1>2

(* Removing a session. *)
LEMMA RemoveSessionOne ==
    ASSUME NEW d, Good(d), NEW x \in Kit, OneSave(d, x), NEW s \in Session, NEW w
    PROVE  Onto(d, RemoveSession(d, s, w), x)
<1> DEFINE active == Cardinality(ActiveSessions(d))
           lastEditable == s \in d.editable /\ ~HaveAnotherEditableSession(d, s)
           force == AlwaysSaveOnExit \/ IsPossiblyModified(d)
           b1 == IF lastEditable /\ d.saving THEN d
                 ELSE IF lastEditable /\ AutoSaveResult(d, force, FALSE)
                 THEN AutoSave(d, w, force, FALSE)
                 ELSE DisconnectSessionInternal(d, s)
<1>0. d \in Broker BY DEF Good
<1>1. Good(AutoSave(d, w, force, FALSE)) /\ Onto(d, AutoSave(d, w, force, FALSE), x)
  BY <1>0, AutoSaveGood, AutoSaveOne
<1>2. /\ Good(DisconnectSessionInternal(d, s))
      /\ Onto(d, DisconnectSessionInternal(d, s), x)
  <2>1. Apart(d, DisconnectSessionInternal(d, s)) BY LeaveApart
  <2> QED BY <2>1, DisconnectSessionGood, ApartOne
<1>3. RemoveSession(d, s, w)
        = IF active > 1 THEN b1
          ELSE IF b1.saving \/ IsAsyncUploading(b1)
          THEN [b1 EXCEPT !.unloadRequested = TRUE]
          ELSE IF b1.sessions = {} THEN MarkToDestroy(b1) ELSE b1
  BY Zenon DEF RemoveSession
<1> HIDE DEF active, lastEditable, force
<1>4. Good(b1) /\ Onto(d, b1, x) BY <1>1, <1>2, OntoSame
<1> HIDE DEF b1
<1>5. Apart(b1, [b1 EXCEPT !.unloadRequested = TRUE]) /\ Apart(b1, MarkToDestroy(b1))
  BY <1>4, SmallApart DEF Good
<1>6. OneSave(b1, x) BY <1>4, OntoOnwards
<1>7. /\ Onto(d, [b1 EXCEPT !.unloadRequested = TRUE], x)
      /\ Onto(d, MarkToDestroy(b1), x)
  BY <1>4, <1>5, <1>6, ApartOne, OntoOnwards
<1> QED BY <1>3, <1>4, <1>7

(* The end of a save that is not active any more. *)
LEMMA EndSaveOne ==
    ASSUME NEW d \in Broker, NEW x, OneSave(d, x), ~d.saving
    PROVE  Onto(d, EndSave(d), x) /\ Onto(d, EndActivity(d), x)
<1> DEFINE e == EndActivity(d)
<1>1. /\ e.toKit = d.toKit /\ e.saving = d.saving /\ e.activity = "None"
      /\ e.modifiedAfterSave = d.modifiedAfterSave
      /\ e.saveFailures = d.saveFailures
      /\ e.upload = d.upload /\ e.uploading = d.uploading
      /\ e.finished = d.finished
      /\ e.kitDisconnected = d.kitDisconnected
      /\ e.renameSession = d.renameSession /\ e.checkFileInfo = d.checkFileInfo
      /\ e.uploadRequest = d.uploadRequest /\ e.http = d.http
  BY DEF Broker, EndActivity
<1>2. EndSave(d) = IF d.activity = "Save" THEN e ELSE d BY Zenon DEF EndSave
<1> HIDE DEF e
<1>3. OneAtMost(e, x) BY <1>1 DEF OneSave, OneAtMost, Plain, SavesOf
<1>4. Covered(e, x) BY <1>1 DEF OneSave, Covered, Copied, Edits
<1>5. Onto(d, e, x) BY <1>1, <1>3, <1>4 DEF OneSave, Onto
<1> QED BY <1>2, <1>5, OntoSame DEF e

(* With no save active the upload is all that is left to do. *)
LEMMA CheckAndUploadOne ==
    ASSUME NEW d \in Broker, NEW x, OneSave(d, x), ~d.saving,
           NEW s, NEW justSaved, NEW elapsed
    PROVE  Onto(d, CheckAndUploadToStorage(d, s, justSaved, elapsed), x)
<1>1. Onto(d, EndSave(d), x) /\ OneSave(EndSave(d), x) BY EndSaveOne, OntoOnwards
<1>2. Apart(EndSave(d), CheckAndUploadToStorage(d, s, justSaved, elapsed))
  BY CheckAndUploadApart DEF OneSave, OneAtMost
<1> QED BY <1>1, <1>2, ApartOne, OntoOnwards

(* Saving, uploading or stopping on the way out. *)
LEMMA AutoSaveAndStopOne ==
    ASSUME NEW d \in Broker, NEW x \in Kit, OneSave(d, x),
           NEW w, NEW saveNow, NEW waited, NEW elapsed
    PROVE  Onto(d, AutoSaveAndStop(d, w, saveNow, waited, elapsed), x)
<1> DEFINE force == IsPossiblyModified(d) \/ d.saveFailures > 0
           u == CheckAndUploadToStorage(d, w, FALSE, elapsed)
<1>1. Apart(d, Stop(d)) BY SmallApart
<1>2. Onto(d, d, x) /\ Onto(d, Stop(d), x) BY <1>1, ApartOne, OntoSame
<1>3. Onto(d, AutoSave(d, w, force, FALSE), x) BY AutoSaveOne
<1>4. ~d.saving => Onto(d, u, x) BY CheckAndUploadOne
<1>5. AutoSaveAndStop(d, w, saveNow, waited, elapsed)
        = IF d.saving \/ IsAsyncUploading(d) THEN d
          ELSE IF CanStop(d) THEN Stop(d)
          ELSE IF OnlyModifiedFlagLeft(d) THEN IF waited THEN Stop(d) ELSE d
          ELSE IF ~saveNow THEN d
          ELSE IF AutoSaveResult(d, force, FALSE) THEN AutoSave(d, w, force, FALSE)
          ELSE IF w \in d.authorized THEN u ELSE Stop(d)
  BY Zenon DEF AutoSaveAndStop
<1> HIDE DEF force, u
<1> QED BY <1>2, <1>3, <1>4, <1>5

-----------------------------------------------------------------------------
(* The clients. *)

(* What is excluded stays excluded. *)
LEMMA SpentStays ==
    ASSUME Inv, Spent
    PROVE  /\ \A e \in {[left EXCEPT !.edits = @ - 1], [left EXCEPT !.commands = @ - 1],
                        [left EXCEPT !.forces = @ - 1], [left EXCEPT !.changes = @ - 1]} :
                 left' = e => Spent'
           /\ UNCHANGED left => Spent'
BY DEF Inv, Budget, Spent

(* What a step must keep, next to Inv. *)
Held == OneSave(b', kit') /\ Ended(b') /\ Spent'

(* A step of the broker, which goes on. *)
LEMMA OntoHeld ==
    ASSUME Serving, Onto(b, b', kit'), Spent'
    PROVE  Held
<1>1. OneSave(b', kit') /\ ~b'.finished BY DEF Onto, Serving
<1> QED BY <1>1 DEF Held, Ended

LEMMA BrokerOne ==
    ASSUME One, Serving, UNCHANGED kit, Apart(b, b'), Spent'
    PROVE  Held
<1>1. Onto(b, b', kit) BY ApartOne DEF One
<1> QED BY <1>1, OntoHeld

(* A session is added. *)
LEMMA AddSessionOne ==
    ASSUME One, NEW s \in Session, AddSession(s)
    PROVE  Apart(b, b')
<1> DEFINE b1 == [b EXCEPT !.unloadRequested = FALSE]
           f == [b1 EXCEPT !.status = "Loading", !.serverTime = srv.t,
                           !.storageTime = srv.t]
           b2 == IF b.status = "None" THEN f
                 ELSE IF srv.t # b.serverTime /\ b.uploadRequest = Null
                 THEN HandleDocumentConflict(b1) ELSE b1
           S == b2.sessions \cup {s}
           T == [b2.state EXCEPT ![s] = "LOADING"]
           C == b2.connected \cup {s}
           A == b2.authorized \cup {s}
           E == b2.editable \cup ({s} \ ReadOnly)
           b3 == [b2 EXCEPT !.sessions = S, !.state = T, !.connected = C,
                            !.authorized = A, !.editable = E]
           m == Command("load", s, FALSE)
<1>1. b' = ForwardToChild(b3, m) BY Zenon DEF AddSession
<1>2. Good(b) /\ b \in Broker /\ srv.t \in Int BY DEF One, Inv, Good, Storage
<1>3. Good(b1) BY <1>2, UnloadGood
<1>4. b1 \in Broker BY <1>3 DEF Good
<1>5. Apart(b, b1) BY <1>2, SmallApart
<1> HIDE DEF b1
<1>6. f \in Broker BY <1>2, <1>4, ZenonT(60) DEF Broker, Status
<1>7. f.activity = b1.activity /\ f.saving = b1.saving BY <1>4 DEF Broker
<1>8. Good(f) BY <1>3, <1>6, <1>7, OtherFields
<1>9. Apart(b1, f) BY <1>4 DEF Broker, Apart, Plain
<1> HIDE DEF f
<1>10. Apart(b1, b2) BY <1>4, <1>9, SmallApart, ApartSame
<1>11. Good(b2) BY <1>3, <1>8, DocumentGood
<1>12. b2 \in Broker BY <1>11 DEF Good
<1> HIDE DEF b2
<1>13. /\ S \in SUBSET Session /\ C \in SUBSET Session
       /\ A \in SUBSET Session /\ E \in SUBSET Session
  BY <1>12 DEF Broker
<1>14. T \in [Session -> SessionState] BY <1>12 DEF Broker, SessionState
<1> HIDE DEF S, T, C, A, E
<1>15. b3 \in Broker BY <1>12, <1>13, <1>14, ZenonT(60) DEF Broker
<1>16. Apart(b2, b3) BY <1>12 DEF Broker, Apart, Plain
<1> HIDE DEF b3
<1>17. m \in KitCommand /\ m.k \notin {"save", "edit"} BY CommandType DEF Command
<1> HIDE DEF m
<1>18. Apart(b3, b') BY <1>1, <1>15, <1>17, ForwardApart
<1> QED BY <1>5, <1>10, <1>16, <1>18, ApartOnwards

(* An edit is activity, and is sent after the saves that it does not belong *)
(* to.                                                                      *)
LEMMA EditOne ==
    ASSUME One, NEW s \in Session, NEW flag \in BOOLEAN, Edit(s, flag)
    PROVE  Onto(b, b', kit)
<1> DEFINE b1 == [b EXCEPT !.modifiedAfterSave = TRUE, !.lastEditing = s]
           m == Command("edit", s, FALSE)
           q == Append(b1.toKit, m)
           e == [b1 EXCEPT !.toKit = q]
<1>1. b' = b1 \/ b' = e
  <2>1. b' = IF flag /\ IsUnloading(b) THEN b1 ELSE ForwardToChild(b1, m)
    BY Zenon DEF Edit
  <2>2. ForwardToChild(b1, m) = IF m.s \in b1.sessions THEN e ELSE b1
    BY Zenon DEF ForwardToChild
  <2> QED BY <2>1, <2>2, Zenon
<1>2. b \in Broker /\ kit \in Kit /\ OneSave(b, kit) BY DEF One, Inv, Good
<1>3. /\ b1.toKit = b.toKit /\ b1.saving = b.saving /\ b1.activity = b.activity
      /\ b1.kitDisconnected = b.kitDisconnected /\ b1.modifiedAfterSave
      /\ b1.renameSession = b.renameSession /\ b1.checkFileInfo = b.checkFileInfo
      /\ b1.uploadRequest = b.uploadRequest /\ b1.http = b.http
      /\ b1.finished = b.finished
      /\ b1.toKit \in Seq(KitCommand) /\ b1 \in Broker
  <2>1. b1 \in Broker BY <1>2, ZenonT(60) DEF Broker
  <2> QED BY <1>2, <2>1 DEF Broker
<1>4. m \in KitCommand /\ m.k # "save" BY CommandType DEF Command
<1> HIDE DEF b1, m
<1>5. Count(q, "save") = Count(b1.toKit, "save") BY <1>3, <1>4, CountAppend
<1> HIDE DEF q
<1>6. /\ e.toKit = q /\ e.saving = b1.saving /\ e.activity = b1.activity
      /\ e.kitDisconnected = b1.kitDisconnected /\ e.modifiedAfterSave
      /\ e.renameSession = b1.renameSession /\ e.checkFileInfo = b1.checkFileInfo
      /\ e.uploadRequest = b1.uploadRequest /\ e.http = b1.http
      /\ e.finished = b1.finished
  BY <1>3 DEF Broker
<1> HIDE DEF e
<1>7. OneAtMost(b1, kit) BY <1>2, <1>3 DEF OneSave, OneAtMost, Plain, SavesOf
<1>8. OneAtMost(e, kit) BY <1>5, <1>6, <1>7 DEF OneAtMost, Plain, SavesOf
<1>9. Covered(b1, kit) /\ Covered(e, kit) BY <1>3, <1>6 DEF Covered
<1> QED BY <1>1, <1>2, <1>3, <1>6, <1>7, <1>8, <1>9 DEF OneSave, Onto

(* All that a client does but saving, and what others do in its name. *)
LEMMA ClientApart ==
    ASSUME One,
           \/ \E s \in Session :
                 \/ AddSession(s) \/ AddSessionFails(s)
                 \/ \E flag \in BOOLEAN : Edit(s, flag)
                 \/ SaveToStorage(s) \/ DiscardChanges(s) \/ TokenExpires(s)
           \/ RequestClose
    PROVE  Held
<1>1. Good(b) /\ b \in Broker /\ Inv /\ Spent BY DEF One, Inv, Good
<1>2. UNCHANGED kit /\ Serving
  BY DEF AddSession, AddSessionFails, Edit, SaveToStorage, DiscardChanges, TokenExpires,
         RequestClose, Admitted, CanSend
<1>3. Spent'
  <2>1. \/ UNCHANGED left \/ left' = [left EXCEPT !.edits = @ - 1]
        \/ left' = [left EXCEPT !.forces = @ - 1]
    BY DEF AddSession, AddSessionFails, Edit, SaveToStorage, DiscardChanges, TokenExpires,
           RequestClose
  <2> QED BY <1>1, <2>1, SpentStays
<1>4. ASSUME NEW s \in Session, AddSession(s) PROVE Apart(b, b') BY <1>4, AddSessionOne
<1>5. ASSUME NEW s \in Session, AddSessionFails(s) PROVE Apart(b, b')
  <2> DEFINE b1 == [b EXCEPT !.unloadRequested = FALSE]
  <2>1. b' = IF b.sessions = {} THEN MarkToDestroy(b1) ELSE b1
    BY <1>5, Zenon DEF AddSessionFails
  <2>2. Good(b1) BY <1>1, UnloadGood
  <2>3. Apart(b, b1) BY <1>1, SmallApart
  <2> HIDE DEF b1
  <2>4. Apart(b1, MarkToDestroy(b1)) BY <2>2, SmallApart DEF Good
  <2>5. Apart(b, MarkToDestroy(b1)) BY <2>3, <2>4, ApartOnwards
  <2> QED BY <2>1, <2>3, <2>5
<1>6. ASSUME NEW s \in Session, NEW flag \in BOOLEAN, Edit(s, flag) PROVE Held
  BY <1>2, <1>3, <1>6, EditOne, OntoHeld
<1>7. ASSUME NEW s \in Session, SaveToStorage(s) PROVE Apart(b, b')
  BY <1>1, <1>7, UploadApart DEF SaveToStorage
<1>8. ASSUME NEW s \in Session, DiscardChanges(s) PROVE Apart(b, b')
  BY <1>1, <1>8, SmallApart DEF DiscardChanges
<1>9. ASSUME NEW s \in Session, TokenExpires(s) PROVE Apart(b, b')
  BY <1>1, <1>9 DEF TokenExpires, Broker, Apart, Plain
<1>10. ASSUME RequestClose PROVE Apart(b, b')
  BY <1>1, <1>10, SmallApart DEF RequestClose
<1>11. Apart(b, b') => Held BY <1>2, <1>3, BrokerOne
<1> QED BY <1>4, <1>5, <1>6, <1>7, <1>8, <1>9, <1>10, <1>11

(* What may save. *)
LEMMA ClientSaves ==
    ASSUME One,
           \/ \E s \in Session :
                 \/ \E flag \in BOOLEAN : ManualSave(s, flag)
                 \/ ClientDisconnects(s) \/ ClientRemovesSession(s)
           \/ AdminSave
    PROVE  Held
<1>1. /\ Good(b) /\ b \in Broker /\ Inv /\ Spent
      /\ kit \in Kit /\ OneSave(b, kit) /\ Onto(b, b, kit)
  BY OntoSame DEF One, Inv, Good
<1>2. UNCHANGED kit /\ Serving
  BY DEF ManualSave, AdminSave, ClientDisconnects, ClientRemovesSession, CanSend
<1>3. Spent'
  <2>1. UNCHANGED left \/ left' = [left EXCEPT !.commands = @ - 1]
    BY DEF ManualSave, AdminSave, ClientDisconnects, ClientRemovesSession
  <2> QED BY <1>1, <2>1, SpentStays
<1>4. Onto(b, b', kit)
  <2>1. ASSUME NEW s \in Session, NEW flag \in BOOLEAN, ManualSave(s, flag)
        PROVE  Onto(b, b', kit)
    <3>1. b.activity # "Save" => Onto(b, SendUnoSave(b, s, flag), kit) BY <1>1, SendOne
    <3> QED BY <1>1, <2>1, <3>1 DEF ManualSave
  <2>2. CASE AdminSave BY <1>1, <2>2, AutoSaveOne DEF AdminSave
  <2>3. ASSUME NEW s \in Session, ClientDisconnects(s) PROVE Onto(b, b', kit)
    <3>1. PICK w \in WriteableSession(b) :
            b' = [RemoveSession(b, s, w) EXCEPT !.connected = @ \ {s},
                                                !.closeFrame = @ \cup {s}]
      BY <2>3 DEF ClientDisconnects
    <3> DEFINE d == RemoveSession(b, s, w)
               C == d.connected \ {s}
               F == d.closeFrame \cup {s}
               e == [d EXCEPT !.connected = C, !.closeFrame = F]
    <3>2. b' = e BY <3>1, Zenon
    <3>3. Good(d) /\ Onto(b, d, kit) BY <1>1, RemoveSessionGood, RemoveSessionOne
    <3> HIDE DEF d, C, F
    <3>4. Apart(d, e) BY <3>3 DEF Good, Broker, Apart, Plain
    <3>5. Onto(d, e, kit) BY <3>3, <3>4, ApartOne, OntoOnwards
    <3> QED BY <3>2, <3>3, <3>5, OntoOnwards
  <2>4. ASSUME NEW s \in Session, ClientRemovesSession(s) PROVE Onto(b, b', kit)
    BY <1>1, <2>4, RemoveSessionOne DEF ClientRemovesSession
  <2> QED BY <2>1, <2>2, <2>3, <2>4
<1> QED BY <1>2, <1>3, <1>4, OntoHeld

(* All of them. *)
LEMMA ClientOne == One /\ ClientStep => Held
<1> SUFFICES ASSUME One, ClientStep PROVE Held OBVIOUS
<1>1. ASSUME NEW s \in Session, RenameFile(s) PROVE FALSE
  BY <1>1 DEF RenameFile, One, Spent
<1> QED BY <1>1, ClientApart, ClientSaves DEF ClientStep

-----------------------------------------------------------------------------
(* The Kit. *)

(* Taking a command from the queue. *)
LEMMA RestCount ==
    ASSUME Inv, b.toKit # <<>>, NEW d, d.toKit = Tail(b.toKit)
    PROVE  /\ Count(b.toKit, "save")
                = IF Cmd.k = "save" THEN Count(d.toKit, "save") + 1 ELSE Count(d.toKit, "save")
           /\ Count(b.toKit, "edit")
                = IF Cmd.k = "edit" THEN Count(d.toKit, "edit") + 1 ELSE Count(d.toKit, "edit")
           /\ Count(d.toKit, "edit") \in Nat
           /\ Sealed(b.toKit) => /\ Sealed(d.toKit)
                                 /\ Cmd.k = "save" => Count(d.toKit, "edit") = 0
<1>1. b.toKit \in Seq(KitCommand) /\ Tail(b.toKit) \in Seq(KitCommand)
  BY DEF Inv, Good, Broker
<1> QED BY <1>1, CountTail, CountType, SealedTail DEF Cmd

(* A message is appended to the queue of the broker. *)
LEMMA TellCount ==
    ASSUME Inv, Inv', NEW m, kit'.toBroker = Append(kit.toBroker, m), m \in KitMessage
    PROVE  /\ Count(kit'.toBroker, "saved")
                = IF m.k = "saved" THEN Count(kit.toBroker, "saved") + 1
                  ELSE Count(kit.toBroker, "saved")
           /\ (m.k = "saved" => m.v = "false") /\ NoneSucceeded(kit.toBroker)
                => NoneSucceeded(kit'.toBroker)
<1>1. kit.toBroker \in Seq(KitMessage) BY DEF Inv, Kit
<1> QED BY <1>1, CountAppend, SucceededAppend

(* A message that the document is not modified goes before or after it. *)
LEMMA SavedPair ==
    ASSUME NEW q \in Seq(KitMessage), NEW m \in KitMessage, NEW n \in KitMessage,
           m.k = "saved", n.k # "saved"
    PROVE  /\ Count(q \o <<m>>, "saved") = Count(q, "saved") + 1
           /\ Count(q \o (<<m>> \o <<n>>), "saved") = Count(q, "saved") + 1
           /\ Count(q \o (<<n>> \o <<m>>), "saved") = Count(q, "saved") + 1
<1>1. Append(q, m) \in Seq(KitMessage) /\ Append(q, n) \in Seq(KitMessage) BY AppendProperties
<1>2. <<m>> \in Seq(KitMessage) /\ <<n>> \in Seq(KitMessage) OBVIOUS
<1>3. /\ Count(Append(q, m), "saved") = Count(q, "saved") + 1
      /\ Count(Append(q, n), "saved") = Count(q, "saved")
  BY CountAppend
<1>4. /\ Count(Append(Append(q, m), n), "saved") = Count(Append(q, m), "saved")
      /\ Count(Append(Append(q, n), m), "saved") = Count(Append(q, n), "saved") + 1
  BY <1>1, CountAppend
<1>5. q \o <<m>> = Append(q, m) /\ q \o <<n>> = Append(q, n) BY AppendIsConcat
<1>6. q \o (<<m>> \o <<n>>) = Append(Append(q, m), n)
  <2>1. Append(Append(q, m), n) = (q \o <<m>>) \o <<n>> BY <1>1, <1>5, AppendIsConcat
  <2> QED BY <1>2, <2>1, ConcatAssociative
<1>7. q \o (<<n>> \o <<m>>) = Append(Append(q, n), m)
  <2>1. Append(Append(q, n), m) = (q \o <<n>>) \o <<m>> BY <1>1, <1>5, AppendIsConcat
  <2> QED BY <1>2, <2>1, ConcatAssociative
<1> QED BY <1>3, <1>4, <1>5, <1>6, <1>7

(* All but the queue of the broker and its copy of the document. *)
Alike(d, e) ==
    /\ e.activity = d.activity /\ e.saving = d.saving
    /\ e.kitDisconnected = d.kitDisconnected
    /\ e.renameSession = d.renameSession /\ e.checkFileInfo = d.checkFileInfo
    /\ e.uploadRequest = d.uploadRequest /\ e.http = d.http
    /\ e.modifiedAfterSave = d.modifiedAfterSave /\ e.saveFailures = d.saveFailures
    /\ e.uploading = d.uploading
    /\ e.finished = d.finished /\ e.dataLoss = d.dataLoss
    /\ DetectDataLoss(e) = DetectDataLoss(d)

(* The Kit moves saves on, and makes none. *)
LEMMA MovedOn ==
    ASSUME One, Inv', Alike(b, b'), UNCHANGED left, kit.alive,
           SavesOf(b', kit') <= SavesOf(b, kit), Covered(b', kit'), Unmodified(kit')
    PROVE  Held
<1>1. Spent' BY DEF One, Spent
<1>2. Plain(b') BY DEF One, OneSave, OneAtMost, Plain, Alike
<1>3. /\ b \in Broker /\ kit \in Kit /\ OneSave(b, kit)
      /\ b' \in Broker /\ kit' \in Kit
  BY DEF One, Inv, Good
<1>4. SavesOf(b, kit) \in Nat /\ SavesOf(b', kit') \in Nat BY <1>3, SavesType
<1>5. b.kitDisconnected = "No" /\ SavesOf(b, kit) <= IF b.saving THEN 1 ELSE 0
  BY <1>3 DEF OneSave, OneAtMost
<1>6. OneAtMost(b', kit') BY <1>2, <1>3, <1>4, <1>5 DEF OneSave, OneAtMost, Alike
<1>7. Ended(b') BY DEF One, Ended, Alike
<1> QED BY <1>1, <1>6, <1>7 DEF Held, OneSave

(* The broker after the Kit has taken a command. *)
LEMMA TakenAlike ==
    ASSUME Inv, NEW f
    PROVE  /\ Alike(b, Rest) /\ Rest.toKit = Tail(b.toKit) /\ Rest.upload = b.upload
           /\ Alike(b, [Rest EXCEPT !.upload = f])
           /\ [Rest EXCEPT !.upload = f].toKit = Tail(b.toKit)
           /\ [Rest EXCEPT !.upload = f].upload = f
           /\ Alike(b, [b EXCEPT !.upload = f])
           /\ [b EXCEPT !.upload = f].toKit = b.toKit
           /\ [b EXCEPT !.upload = f].upload = f
BY DEF Inv, Good, Broker, Alike, Rest, DetectDataLoss, IsStorageOutdated

(* Its saves and edits are in the queue or in the Kit. *)
LEMMA Numbers ==
    ASSUME Inv
    PROVE  /\ b \in Broker /\ kit \in Kit /\ kit.edits \in Nat
           /\ kit.doc \in File /\ b.upload \in File
           /\ kit.toBroker \in Seq(KitMessage)
           /\ Count(b.toKit, "save") \in Nat /\ Count(b.toKit, "edit") \in Nat
           /\ Count(kit.toBroker, "saved") \in Nat
<1>1. b \in Broker /\ kit \in Kit BY DEF Inv, Good
<1>2. b.toKit \in Seq(KitCommand) BY <1>1 DEF Broker
<1>3. Count(b.toKit, "edit") \in Nat BY <1>2, CountType
<1> QED BY <1>1, <1>3, SavesType DEF Kit, Broker

(* While the Kit has a save, or a command to save, nothing else is on its   *)
(* way.                                                                     *)
LEMMA OnlyOne ==
    ASSUME One, kit.alive
    PROVE  /\ Count(b.toKit, "save") >= 1 => kit.save = Null
           /\ Count(b.toKit, "save") >= 1 \/ kit.save # Null
                => b.saving /\ NoneSucceeded(kit.toBroker)
<1>1. Inv /\ OneSave(b, kit) BY DEF One
<1>2. b.kitDisconnected = "No" /\ SavesOf(b, kit) <= IF b.saving THEN 1 ELSE 0
  BY <1>1 DEF OneSave, OneAtMost
<1>3. /\ Count(b.toKit, "save") >= 1 => kit.save = Null
      /\ Count(b.toKit, "save") >= 1 \/ kit.save # Null
           => b.saving /\ Count(kit.toBroker, "saved") <= 0
  BY <1>1, <1>2, Numbers DEF SavesOf
<1> QED BY <1>1, <1>3, Numbers, SucceededNone

(* A command that is not a save leaves the edits where they are covered. *)
LEMMA StillCovered ==
    ASSUME One, Inv', b.toKit # <<>>, kit.alive, Alike(b, b'),
           b'.toKit = Tail(b.toKit), b'.upload = b.upload, Cmd.k # "save",
           kit'.save = kit.save \/ kit'.save = Null,
           kit'.edits = IF Cmd.k = "edit" THEN kit.edits + 1 ELSE kit.edits,
           NoneSucceeded(kit.toBroker) => NoneSucceeded(kit'.toBroker)
    PROVE  Covered(b', kit')
<1>1. Inv /\ Covered(b, kit) BY DEF One, OneSave
<1>2. /\ Count(b.toKit, "edit")
           = IF Cmd.k = "edit" THEN Count(b'.toKit, "edit") + 1 ELSE Count(b'.toKit, "edit")
      /\ Count(b'.toKit, "edit") \in Nat
      /\ Sealed(b.toKit) => Sealed(b'.toKit)
  BY <1>1, RestCount
<1>3. kit.edits \in Nat BY <1>1, Numbers
<1>4. Edits(b', kit') = Edits(b, kit) BY <1>2, <1>3 DEF Edits
<1>5. Copied(b, kit) => Copied(b', kit') BY <1>4 DEF Copied
<1>6. ASSUME b.saving, ~b.modifiedAfterSave, kit'.save # Null
      PROVE  kit'.save.c = kit'.edits /\ Count(b'.toKit, "edit") = 0
  <2>1. kit.save # Null /\ kit'.save = kit.save BY <1>6
  <2>2. kit.save.c = kit.edits /\ Count(b.toKit, "edit") = 0
    BY <1>1, <1>6, <2>1 DEF Covered
  <2>3. Cmd.k # "edit" BY <1>2, <2>2
  <2> QED BY <1>2, <2>1, <2>2, <2>3
<1> QED BY <1>1, <1>2, <1>4, <1>5, <1>6 DEF Covered, Alike

(* The commands of the broker but saving. *)
LEMMA KitCommandOne ==
    ASSUME One, Inv', KitLoad \/ KitEdit \/ KitDisconnect
    PROVE  Held
<1>1. Inv /\ b.toKit # <<>> /\ kit.alive /\ b' = Rest /\ UNCHANGED left
  BY DEF One, KitLoad, KitEdit, KitDisconnect, Heard
<1>2. /\ kit \in Kit /\ Cmd.s \in Session /\ Unmodified(kit)
      /\ kit.edits \in Nat /\ kit.doc.t \in Int
  BY <1>1, CmdType, Numbers DEF One, OneSave, File
<1>3. Alike(b, b') /\ b'.toKit = Tail(b.toKit) /\ b'.upload = b.upload
  BY <1>1, TakenAlike, Zenon
<1>4. Cmd.k # "save" BY DEF KitLoad, KitEdit, KitDisconnect, Heard, Cmd
<1>5. /\ kit'.save = kit.save \/ kit'.save = Null
      /\ kit'.edits = IF Cmd.k = "edit" THEN kit.edits + 1 ELSE kit.edits
      /\ Unmodified(kit')
      /\ Count(kit'.toBroker, "saved") = Count(kit.toBroker, "saved")
      /\ NoneSucceeded(kit.toBroker) => NoneSucceeded(kit'.toBroker)
  <2>1. CASE KitLoad
    <3> DEFINE v == IF kit.views = {} THEN "true" ELSE "false"
               m == Tell("status", Cmd.s, v)
    <3>1. Cmd.k # "edit" BY <2>1 DEF KitLoad, Heard, Cmd
    <3>2. m \in KitMessage /\ m.k # "saved" BY <1>2, TellType DEF Tell
    <3>3. /\ kit'.toBroker = Append(kit.toBroker, m) /\ kit'.save = kit.save
          /\ kit'.edits = kit.edits /\ kit'.alive = kit.alive /\ kit'.doc = kit.doc
          /\ kit'.modified = kit.modified
      BY <1>2, <2>1 DEF KitLoad, Kit
    <3> HIDE DEF m
    <3>4. Unmodified(kit') BY <1>2, <3>3 DEF Unmodified
    <3> QED BY <1>1, <3>1, <3>2, <3>3, <3>4, TellCount
  <2>2. CASE KitEdit
    <3> DEFINE m == Tell("modified", Null, "true")
    <3>1. Cmd.k = "edit" BY <2>2 DEF KitEdit, Heard, Cmd
    <3>2. m \in KitMessage /\ m.k # "saved" BY TellType DEF Tell
    <3>3. /\ kit'.toBroker = kit.toBroker \/ kit'.toBroker = Append(kit.toBroker, m)
          /\ kit'.save = kit.save
          /\ kit'.edits = kit.edits + 1 /\ kit'.alive = kit.alive /\ kit'.doc = kit.doc
          /\ kit'.modified = TRUE
      BY <1>2, <2>2 DEF KitEdit, Kit
    <3> HIDE DEF m
    <3>4. Unmodified(kit') BY <1>1, <1>2, <3>3 DEF Unmodified
    <3> QED BY <1>1, <3>1, <3>2, <3>3, <3>4, TellCount
  <2>3. CASE KitDisconnect
    <3> DEFINE m == Tell("disconnected", Cmd.s, "true")
    <3>1. Cmd.k # "edit" BY <2>3 DEF KitDisconnect, Heard, Cmd
    <3>2. m \in KitMessage /\ m.k # "saved" BY <1>2, TellType DEF Tell
    <3>3. /\ kit'.toBroker = Append(kit.toBroker, m)
          /\ kit'.edits = kit.edits /\ kit'.doc = kit.doc
          /\ kit'.modified = kit.modified
          /\ kit'.save = IF kit'.alive THEN kit.save ELSE Null
      BY <1>2, <2>3 DEF KitDisconnect, Kit
    <3> HIDE DEF m
    <3>4. Unmodified(kit') BY <1>1, <1>2, <3>3 DEF Unmodified
    <3> QED BY <1>1, <3>1, <3>2, <3>3, <3>4, TellCount
  <2> QED BY <2>1, <2>2, <2>3
<1>6. Covered(b', kit') BY <1>1, <1>3, <1>4, <1>5, StillCovered
<1>7. SavesOf(b', kit') <= SavesOf(b, kit)
  <2>1. Count(b'.toKit, "save") = Count(b.toKit, "save") BY <1>1, <1>3, <1>4, RestCount
  <2> QED BY <1>1, <1>5, <2>1, Numbers DEF SavesOf
<1> QED BY <1>1, <1>3, <1>5, <1>6, <1>7, MovedOn

(* The commands to save. *)
LEMMA KitTakesSave ==
    ASSUME One, Inv', KitSaveUnmodified \/ KitSaveStarts
    PROVE  Held
<1>1. Inv /\ b.toKit # <<>> /\ kit.alive /\ UNCHANGED left /\ Cmd.k = "save"
  BY DEF One, KitSaveUnmodified, KitSaveStarts, Heard, Cmd
<1>2. /\ kit \in Kit /\ Cmd.s \in Session /\ Unmodified(kit) /\ Covered(b, kit)
      /\ kit.edits \in Nat /\ kit.doc.t \in Int /\ kit.doc.c \in Int
  BY <1>1, CmdType, Numbers DEF One, OneSave, File
<1>3. b' = Rest \/ b' = [Rest EXCEPT !.upload = kit.doc]
  BY DEF KitSaveUnmodified, KitSaveStarts
<1>4. Alike(b, b') /\ b'.toKit = Tail(b.toKit)
  <2>1. CASE b' = Rest BY <1>1, <2>1, TakenAlike, Zenon
  <2>2. CASE b' = [Rest EXCEPT !.upload = kit.doc] BY <1>1, <2>2, TakenAlike, Zenon
  <2> QED BY <1>3, <2>1, <2>2
<1>5. /\ Count(b.toKit, "save") = Count(b'.toKit, "save") + 1
      /\ Count(b'.toKit, "save") \in Nat
      /\ Count(b.toKit, "edit") = Count(b'.toKit, "edit")
      /\ Sealed(b.toKit) => Sealed(b'.toKit) /\ Count(b'.toKit, "edit") = 0
  <2>1. b'.toKit \in Seq(KitCommand) BY DEF Inv, Good, Broker
  <2> QED BY <1>1, <1>4, <2>1, RestCount, CountType
<1>6. b.saving /\ kit.save = Null /\ NoneSucceeded(kit.toBroker)
  <2>1. Count(b.toKit, "save") >= 1 BY <1>5
  <2> QED BY <1>1, <2>1, OnlyOne
<1>7. ASSUME kit'.edits = kit.edits,
             ~b.modifiedAfterSave /\ Count(b'.toKit, "edit") = 0
               => /\ kit'.save # Null => kit'.save.c = kit.edits
                  /\ NoneSucceeded(kit'.toBroker) \/ Copied(b', kit')
      PROVE  Covered(b', kit')
  <2>1. ~b.modifiedAfterSave => Sealed(b.toKit) BY <1>1, <1>2, <1>6 DEF Covered
  <2> QED BY <1>4, <1>5, <1>6, <1>7, <2>1 DEF Covered, Alike
<1>8. CASE KitSaveUnmodified
  <2> DEFINE m == Tell("saved", Cmd.s, "unmodified")
  <2>1. m \in KitMessage /\ m.k = "saved" BY <1>2, TellType DEF Tell
  <2>2. /\ kit'.toBroker = Append(kit.toBroker, m) /\ kit'.save = kit.save
        /\ kit'.edits = kit.edits /\ kit'.alive = kit.alive /\ kit'.doc = kit.doc
        /\ kit'.modified = kit.modified /\ ~kit.modified
    BY <1>2, <1>8 DEF KitSaveUnmodified, Kit
  <2> HIDE DEF m
  <2>3. Count(kit'.toBroker, "saved") = Count(kit.toBroker, "saved") + 1
    BY <1>1, <2>1, <2>2, TellCount
  <2>4. SavesOf(b', kit') <= SavesOf(b, kit)
    BY <1>1, <1>5, <2>2, <2>3, Numbers DEF SavesOf
  <2>5. Unmodified(kit') BY <1>2, <2>2 DEF Unmodified
  <2>6. b'.upload = kit.doc BY <1>1, <1>8, TakenAlike, Zenon DEF KitSaveUnmodified
  <2>7. kit.doc # NoFile /\ kit.doc.c = kit.edits
    BY <1>1, <1>2, <1>6, <2>2 DEF Unmodified, NoFile, NoTime
  <2>8. Count(b'.toKit, "edit") = 0 => Copied(b', kit')
    BY <1>2, <2>2, <2>6, <2>7 DEF Copied, Edits
  <2>9. Covered(b', kit') BY <1>6, <1>7, <2>2, <2>8
  <2> QED BY <1>1, <1>4, <2>4, <2>5, <2>9, MovedOn
<1>9. CASE KitSaveStarts
  <2> DEFINE save == [s |-> Cmd.s, c |-> kit.edits, modified |-> kit.modified]
  <2>1. /\ kit'.toBroker = kit.toBroker /\ kit'.save = save
        /\ kit'.edits = kit.edits /\ kit'.alive = kit.alive /\ kit'.doc = kit.doc
        /\ kit'.modified = FALSE
    BY <1>2, <1>9 DEF KitSaveStarts, Kit
  <2>2. save.c = kit.edits /\ (save.modified <=> kit.modified) OBVIOUS
  <2>3. save # Null
    <3>1. save \in KitSave BY <1>2 DEF KitSave, Kit
    <3> QED BY <3>1, NoSaveAssumption
  <2> HIDE DEF save
  <2>4. SavesOf(b', kit') <= SavesOf(b, kit)
    BY <1>1, <1>5, <1>6, <2>1, Numbers DEF SavesOf
  <2>5. ~save.modified => kit.doc.c = kit.edits
    BY <1>1, <1>2, <1>6, <2>2 DEF Unmodified
  <2>6. 0 <= kit'.doc.t /\ kit'.alive BY <1>1, <1>2, <2>1 DEF Unmodified
  <2>7. Unmodified(kit') BY <2>1, <2>2, <2>3, <2>5, <2>6, Zenon DEF Unmodified
  <2>8. Covered(b', kit') BY <1>6, <1>7, <2>1, <2>2
  <2> QED BY <1>1, <1>4, <2>4, <2>7, <2>8, MovedOn
<1> QED BY <1>8, <1>9

(* The end of a save. *)
LEMMA KitSavedOne ==
    ASSUME One, Inv', KitSaved
    PROVE  Held
<1>1. Inv /\ kit.alive /\ kit.save # Null /\ UNCHANGED left BY DEF One, KitSaved
<1>2. /\ b \in Broker /\ kit \in Kit /\ Unmodified(kit) /\ Covered(b, kit)
      /\ kit.edits \in Nat /\ kit.doc.t \in Int
  BY <1>1, Numbers DEF One, OneSave, File
<1> DEFINE file == [t |-> kit.doc.t + 1, c |-> kit.save.c]
           m == Tell("saved", kit.save.s, "true")
           n == Tell("modified", Null, "false")
           q == kit.toBroker
<1>3. b' = [b EXCEPT !.upload = file] BY Zenon DEF KitSaved
<1>4. Alike(b, b') /\ b'.toKit = b.toKit /\ b'.upload = file
  BY <1>1, <1>3, TakenAlike, Zenon
<1>5. /\ kit'.save = Null /\ kit'.doc = file /\ kit'.alive = kit.alive
      /\ kit'.modified = kit.modified /\ kit'.edits = kit.edits
      /\ kit'.toBroker \in {q \o <<m>>, q \o (<<m>> \o <<n>>), q \o (<<n>> \o <<m>>)}
  <2> DEFINE f == file
  <2>1. \E x \in {<<m>>, <<m>> \o <<n>>, <<n>> \o <<m>>} :
           kit' = [kit EXCEPT !.doc = f, !.save = Null, !.toBroker = @ \o x]
    BY DEF KitSaved
  <2> HIDE DEF m, n, f
  <2>2. PICK x \in {<<m>>, <<m>> \o <<n>>, <<n>> \o <<m>>} :
           kit' = [kit EXCEPT !.doc = f, !.save = Null, !.toBroker = @ \o x]
    BY <2>1
  <2>3. /\ kit'.save = Null /\ kit'.doc = f /\ kit'.alive = kit.alive
        /\ kit'.modified = kit.modified /\ kit'.edits = kit.edits
        /\ kit'.toBroker = q \o x
    BY <1>2, <2>2 DEF Kit
  <2>4. f = file BY DEF f
  <2> QED BY <2>2, <2>3, <2>4
<1>6. file.t = kit.doc.t + 1 /\ file.c = kit.save.c OBVIOUS
<1>7. m \in KitMessage /\ n \in KitMessage /\ m.k = "saved" /\ n.k = "modified"
  <2>1. kit.save.s \in Session BY <1>1, <1>2 DEF Kit, KitSave
  <2> QED BY <2>1, TellType DEF Tell
<1>8. q \in Seq(KitMessage) BY <1>2 DEF Kit
<1> HIDE DEF file, m, n, q
<1>9. n.k # "saved" BY <1>7
<1>10. /\ Count(q \o <<m>>, "saved") = Count(q, "saved") + 1
       /\ Count(q \o (<<m>> \o <<n>>), "saved") = Count(q, "saved") + 1
       /\ Count(q \o (<<n>> \o <<m>>), "saved") = Count(q, "saved") + 1
  BY <1>7, <1>8, <1>9, SavedPair
<1>11. Count(kit'.toBroker, "saved") = Count(kit.toBroker, "saved") + 1
  <2>1. Count(kit'.toBroker, "saved") = Count(q, "saved") + 1 BY <1>5, <1>10, Zenon
  <2> QED BY <2>1 DEF q
<1>12. SavesOf(b', kit') <= SavesOf(b, kit)
  BY <1>1, <1>4, <1>5, <1>11, Numbers DEF SavesOf
<1>13. Unmodified(kit') BY <1>1, <1>2, <1>5, <1>6 DEF Unmodified
<1>14. file # NoFile BY <1>2, <1>6 DEF Unmodified, NoFile, NoTime
<1>15. b.saving BY <1>1, OnlyOne
<1>16. Edits(b', kit') = Edits(b, kit) BY <1>4, <1>5 DEF Edits
<1>17. ~b.modifiedAfterSave => Copied(b', kit')
  BY <1>1, <1>2, <1>4, <1>5, <1>6, <1>14, <1>15 DEF Covered, Copied, Edits
<1>18. Covered(b', kit')
  BY <1>1, <1>2, <1>4, <1>5, <1>15, <1>17 DEF Covered, Alike
<1> QED BY <1>1, <1>4, <1>12, <1>13, <1>18, MovedOn

(* A save that fails, or that dies with the Kit. *)
LEMMA KitFailsOne ==
    ASSUME One, Inv', (\E copied \in BOOLEAN : KitSaveFails(copied)) \/ KitCrash
    PROVE  Held
<1>1. Inv /\ kit.alive /\ UNCHANGED left BY DEF One, KitSaveFails, KitCrash
<1>2. /\ b \in Broker /\ kit \in Kit /\ Unmodified(kit) /\ Covered(b, kit)
  BY <1>1, Numbers DEF One, OneSave
<1>3. ASSUME NEW copied \in BOOLEAN, KitSaveFails(copied) PROVE Held
  <2> DEFINE m == Tell("saved", kit.save.s, "false")
             f == [b EXCEPT !.upload = kit.doc]
  <2>1. kit.save # Null /\ b' \in {b, f} BY <1>3, Zenon DEF KitSaveFails
  <2>2. Alike(b, b') /\ b'.toKit = b.toKit
    <3>1. CASE b' = b BY <3>1 DEF Alike
    <3>2. CASE b' = f BY <1>1, <3>2, TakenAlike, Zenon
    <3> QED BY <2>1, <3>1, <3>2
  <2>3. /\ kit'.save = Null /\ kit'.toBroker = Append(kit.toBroker, m)
        /\ kit'.alive = kit.alive /\ kit'.edits = kit.edits /\ kit'.doc = kit.doc
        /\ kit'.modified = (kit.modified \/ kit.save.modified)
    BY <1>2, <1>3 DEF KitSaveFails, Kit
  <2>4. m \in KitMessage /\ m.k = "saved" /\ m.v = "false"
    <3>1. kit.save.s \in Session BY <1>2, <2>1 DEF Kit, KitSave
    <3> QED BY <3>1, TellType DEF Tell
  <2> HIDE DEF m
  <2>5. /\ Count(kit'.toBroker, "saved") = Count(kit.toBroker, "saved") + 1
        /\ NoneSucceeded(kit.toBroker) => NoneSucceeded(kit'.toBroker)
    BY <1>1, <2>3, <2>4, TellCount
  <2>6. SavesOf(b', kit') <= SavesOf(b, kit)
    BY <1>1, <2>1, <2>2, <2>3, <2>5, Numbers DEF SavesOf
  <2>7. b.saving /\ NoneSucceeded(kit'.toBroker) BY <1>1, <2>1, <2>5, OnlyOne
  <2>8. Unmodified(kit') BY <1>1, <1>2, <2>1, <2>3 DEF Unmodified
  <2>9. Covered(b', kit') BY <1>2, <1>1, <2>2, <2>3, <2>7 DEF Covered, Alike
  <2> QED BY <1>1, <2>2, <2>6, <2>8, <2>9, MovedOn
<1>4. CASE KitCrash
  <2>1. /\ b' = b /\ ~kit'.alive /\ kit'.save = Null /\ kit'.edits = kit.edits
        /\ kit'.toBroker = kit.toBroker /\ kit'.doc = kit.doc
    BY <1>2, <1>4 DEF KitCrash, Kit
  <2>2. Alike(b, b') BY <2>1 DEF Alike
  <2>3. SavesOf(b', kit') <= SavesOf(b, kit) BY <1>1, <2>1, Numbers DEF SavesOf
  <2>4. Unmodified(kit') BY <1>2, <2>1 DEF Unmodified
  <2>5. Covered(b', kit') BY <1>2, <2>1 DEF Covered, Copied, Edits
  <2> QED BY <1>1, <2>2, <2>3, <2>4, <2>5, MovedOn
<1> QED BY <1>3, <1>4

(* All of it. *)
LEMMA KitOne == One /\ Inv' /\ KitStep => Held
BY KitCommandOne, KitTakesSave, KitSavedOne, KitFailsOne DEF KitStep

-----------------------------------------------------------------------------
(* The storage. *)

(* An answer that is not lost. *)
LEMMA AnswerApart ==
    ASSUME Inv, Pending, NEW res \in HttpResult, res # "FAILED", NEW t \in Int
    PROVE  /\ Apart(b, Answer(res, t))
           /\ Ended(b) => Ended(Answer(res, t))
<1> DEFINE h == [b.http EXCEPT !.res = res, !.t = t]
           e == [b EXCEPT !.http = h]
<1>1. b \in Broker BY DEF Inv, Good
<1>2. b.http \in HttpUpload BY <1>1 DEF Broker, Pending
<1>3. h.res = res BY <1>2 DEF HttpUpload
<1>4. Answer(res, t) = e BY <1>1 DEF Answer, Broker
<1> HIDE DEF h
<1>5. Apart(b, e) BY <1>1, <1>3 DEF Broker, Apart, Plain
<1>6. Ended(b) => Ended(e)
  BY <1>1 DEF Broker, Ended, DetectDataLoss, IsStorageOutdated
<1> QED BY <1>4, <1>5, <1>6

(* All that the storage does: an answer cannot be lost. *)
LEMMA ServerOne == One /\ ServerStep => Held
<1> SUFFICES ASSUME One, ServerStep PROVE Held OBVIOUS
<1>1. Inv /\ Spent /\ Ended(b) /\ OneSave(b, kit) BY DEF One
<1>2. ASSUME NEW stored \in BOOLEAN, ServerFails(stored) PROVE FALSE
  BY <1>1, <1>2 DEF ServerFails, Spent
<1>3. \/ ServerStores \/ ServerRenames \/ ServerRefuses
      \/ \E res \in HttpResult : ServerRejects(res)
      \/ ExternalChange
  BY <1>2 DEF ServerStep
<1>4. UNCHANGED kit
  BY <1>3 DEF ServerStores, ServerRenames, ServerRefuses, ServerRejects, ExternalChange
<1>5. Spent'
  <2>1. UNCHANGED left \/ left' = [left EXCEPT !.changes = @ - 1]
    BY <1>3 DEF ServerStores, ServerRenames, ServerRefuses, ServerRejects, ExternalChange
  <2> QED BY <1>1, <2>1, SpentStays
<1>6. Apart(b, b') /\ Ended(b')
  <2>1. {"OK", "CONFLICT"} \subseteq HttpResult /\ NoTime \in Int
    BY DEF HttpResult, NoTime
  <2>2. CASE ServerStores
    <3>1. srv.t + 1 \in Int BY <1>1, <2>2, StoredType DEF ServerStores
    <3> QED BY <1>1, <2>1, <2>2, <3>1, AnswerApart DEF ServerStores
  <2>3. CASE ServerRenames BY <1>1, <2>1, <2>3, AnswerApart DEF ServerRenames
  <2>4. CASE ServerRefuses BY <1>1, <2>1, <2>4, AnswerApart DEF ServerRefuses
  <2>5. ASSUME NEW res \in HttpResult, ServerRejects(res) PROVE Apart(b, b') /\ Ended(b')
    BY <1>1, <2>1, <2>5, AnswerApart DEF ServerRejects
  <2>6. CASE ExternalChange BY <1>1, <2>6, ApartSame DEF ExternalChange
  <2> QED BY <1>3, <2>2, <2>3, <2>4, <2>5, <2>6
<1>7. OneSave(b', kit) BY <1>1, <1>6, ApartOne DEF Onto
<1> QED BY <1>4, <1>5, <1>6, <1>7 DEF Held

-----------------------------------------------------------------------------
(* The callbacks. *)

(* A message is taken from the queue. *)
LEMMA DeliversCount ==
    ASSUME Inv, NEW k, Delivers(k)
    PROVE  /\ kit'.alive = kit.alive /\ kit'.save = kit.save /\ UNCHANGED left
           /\ kit'.edits = kit.edits /\ kit'.doc = kit.doc
           /\ kit'.modified = kit.modified
           /\ Serving /\ kit.toBroker # <<>>
           /\ Count(kit.toBroker, "saved")
                = IF k = "saved" THEN Count(kit'.toBroker, "saved") + 1
                  ELSE Count(kit'.toBroker, "saved")
           /\ NoneSucceeded(kit.toBroker)
                => /\ NoneSucceeded(kit'.toBroker)
                   /\ k = "saved" => Msg.v = "false"
<1>1. kit \in Kit /\ kit.toBroker # <<>> /\ Head(kit.toBroker).k = k
  BY DEF Inv, Delivers
<1>2. kit.toBroker \in Seq(KitMessage) BY <1>1 DEF Kit
<1>3. kit' = [kit EXCEPT !.toBroker = Tail(kit.toBroker)] BY Zenon DEF Delivers
<1>4. /\ kit'.alive = kit.alive /\ kit'.save = kit.save
      /\ kit'.edits = kit.edits /\ kit'.doc = kit.doc
      /\ kit'.modified = kit.modified
      /\ kit'.toBroker = Tail(kit.toBroker)
  BY <1>1, <1>3 DEF Kit
<1>5. UNCHANGED left /\ Serving BY DEF Delivers
<1>6. Count(kit.toBroker, "saved")
        = IF k = "saved" THEN Count(Tail(kit.toBroker), "saved") + 1
          ELSE Count(Tail(kit.toBroker), "saved")
  BY <1>1, <1>2, CountTail
<1>7. NoneSucceeded(kit.toBroker)
        => /\ NoneSucceeded(Tail(kit.toBroker))
           /\ k = "saved" => Head(kit.toBroker).v = "false"
  BY <1>1, <1>2, SucceededTail
<1> QED BY <1>1, <1>4, <1>5, <1>6, <1>7 DEF Msg

(* What is covered, or unmodified, does not depend on the messages. *)
LEMMA DeliversCovered ==
    ASSUME Inv, NEW k, Delivers(k), NEW d
    PROVE  /\ Covered(d, kit) => Covered(d, kit')
           /\ Unmodified(kit) => Unmodified(kit')
           /\ Copied(d, kit) => Copied(d, kit')
<1>1. /\ kit'.alive = kit.alive /\ kit'.save = kit.save
      /\ kit'.edits = kit.edits /\ kit'.doc = kit.doc
      /\ kit'.modified = kit.modified
      /\ NoneSucceeded(kit.toBroker) => NoneSucceeded(kit'.toBroker)
  BY DeliversCount
<1>2. Copied(d, kit) => Copied(d, kit') BY <1>1 DEF Copied, Edits
<1>3. Covered(d, kit) => Covered(d, kit') BY <1>1, <1>2 DEF Covered, Edits
<1>4. Unmodified(kit) => Unmodified(kit') BY <1>1 DEF Unmodified
<1> QED BY <1>2, <1>3, <1>4

(* A message that does not answer a save. *)
LEMMA DeliveredOne ==
    ASSUME One, NEW k, Delivers(k), k # "saved", Apart(b, b')
    PROVE  Held
<1>1. Inv /\ Spent /\ OneSave(b, kit) BY DEF One
<1>2. /\ kit'.alive = kit.alive /\ kit'.save = kit.save /\ UNCHANGED left
      /\ Count(kit.toBroker, "saved") = Count(kit'.toBroker, "saved")
      /\ Serving /\ kit.toBroker # <<>>
  BY <1>1, DeliversCount
<1>3. OneSave(b', kit) /\ b'.finished = b.finished BY <1>1, ApartOne DEF Onto
<1>4. SavesOf(b', kit') = SavesOf(b', kit) BY <1>2 DEF SavesOf
<1>5. b'.kitDisconnected = "No" BY <1>2, <1>3 DEF OneSave, OneAtMost
<1>6. OneAtMost(b', kit') BY <1>3, <1>4, <1>5 DEF OneSave, OneAtMost
<1>7. OneSave(b', kit') BY <1>1, <1>3, <1>6, DeliversCovered DEF OneSave
<1>8. Spent' BY <1>1, <1>2 DEF Spent
<1> QED BY <1>2, <1>3, <1>7, <1>8, OntoHeld DEF Onto

(* A save that has failed is counted. *)
LEMMA ResultIs ==
    ASSUME NEW d \in Broker, NEW ok \in BOOLEAN, NEW new \in BOOLEAN,
           NEW e, e = SetLastSaveResult(d, ok, new)
    PROVE  /\ e \in Broker /\ e.toKit = d.toKit /\ ~e.saving
           /\ e.activity = d.activity /\ e.kitDisconnected = d.kitDisconnected
           /\ e.renameSession = d.renameSession
           /\ e.checkFileInfo = d.checkFileInfo
           /\ e.uploadRequest = d.uploadRequest /\ e.http = d.http
           /\ e.modifiedAfterSave = d.modifiedAfterSave
           /\ e.upload = d.upload /\ e.uploading = d.uploading
           /\ e.finished = d.finished
           /\ ~ok => e.saveFailures # 0
<1> DEFINE v == d.versioned \/ new
           f == IF ok THEN 0 ELSE OneMore(d.saveFailures)
           r == [d EXCEPT !.saving = FALSE, !.versioned = v, !.saveFailures = f]
<1>1. e = r BY Zenon DEF SetLastSaveResult
<1>2. e \in Broker BY SaveResultType
<1>3. ~ok => f # 0
  <2>1. FailureCap \in Nat /\ FailureCap >= 1 BY ConfigAssumption DEF FailureCap
  <2>2. d.saveFailures \in Nat BY DEF Broker
  <2>3. OneMore(d.saveFailures) # 0 BY <2>1, <2>2 DEF OneMore
  <2> QED BY <2>3
<1> HIDE DEF v, f
<1>4. /\ r.toKit = d.toKit /\ ~r.saving
      /\ r.activity = d.activity /\ r.kitDisconnected = d.kitDisconnected
      /\ r.renameSession = d.renameSession
      /\ r.checkFileInfo = d.checkFileInfo
      /\ r.uploadRequest = d.uploadRequest /\ r.http = d.http
      /\ r.modifiedAfterSave = d.modifiedAfterSave
      /\ r.upload = d.upload /\ r.uploading = d.uploading
      /\ r.finished = d.finished
      /\ r.saveFailures = f
  BY DEF Broker
<1> HIDE DEF r
<1> QED BY <1>1, <1>2, <1>3, <1>4

(* The answer to a save, when no other is on its way. *)
LEMMA SaveResponseOne ==
    ASSUME NEW d \in Broker, NEW x, Plain(d), d.kitDisconnected = "No",
           SavesOf(d, x) <= 0, Unmodified(x),
           NEW s, NEW result, NEW elapsed,
           result # "false" /\ ~d.modifiedAfterSave => Copied(d, x)
    PROVE  Onto(d, HandleSaveResponse(d, s, result, elapsed), x)
<1> DEFINE saved == result \in {"true", "unmodified"}
           new == result = "true"
           b1 == SetLastSaveResult(d, saved, new)
           e == [b1 EXCEPT !.uploading = b1.upload, !.upload = NoFile]
           b2 == IF b1.upload = NoFile THEN b1 ELSE e
<1>1. HandleSaveResponse(d, s, result, elapsed)
        = CheckAndUploadToStorage(b2, s, saved, elapsed)
  BY Zenon DEF HandleSaveResponse
<1>2. saved \in BOOLEAN /\ new \in BOOLEAN /\ (saved => result # "false") OBVIOUS
<1> HIDE DEF saved, new
<1>3. /\ b1 \in Broker /\ b1.toKit = d.toKit /\ ~b1.saving
      /\ b1.activity = d.activity /\ b1.kitDisconnected = d.kitDisconnected
      /\ b1.renameSession = d.renameSession
      /\ b1.checkFileInfo = d.checkFileInfo
      /\ b1.uploadRequest = d.uploadRequest /\ b1.http = d.http
      /\ b1.modifiedAfterSave = d.modifiedAfterSave
      /\ b1.upload = d.upload /\ b1.finished = d.finished
      /\ ~saved => b1.saveFailures # 0
  BY <1>2, ResultIs
<1> HIDE DEF b1
<1>4. NoFile \in File BY DEF NoFile, File, NoTime
<1>5. e \in Broker
  <2> DEFINE u == b1.upload
  <2>1. u \in File BY <1>3 DEF Broker
  <2> HIDE DEF u
  <2>2. [b1 EXCEPT !.uploading = u, !.upload = NoFile] \in Broker
    BY <1>3, <1>4, <2>1, ZenonT(60) DEF Broker
  <2> QED BY <2>2 DEF u
<1>6. /\ e.toKit = b1.toKit /\ e.saving = b1.saving
      /\ e.activity = b1.activity /\ e.kitDisconnected = b1.kitDisconnected
      /\ e.renameSession = b1.renameSession
      /\ e.checkFileInfo = b1.checkFileInfo
      /\ e.uploadRequest = b1.uploadRequest /\ e.http = b1.http
      /\ e.modifiedAfterSave = b1.modifiedAfterSave
      /\ e.uploading = b1.upload /\ e.finished = b1.finished
      /\ e.saveFailures = b1.saveFailures
  BY <1>3 DEF Broker
<1> HIDE DEF e
<1>7. OneAtMost(b2, x) /\ ~b2.saving /\ b2.finished = d.finished /\ b2 \in Broker
  BY <1>3, <1>5, <1>6 DEF OneAtMost, Plain, SavesOf
<1>8. Covered(b2, x)
  <2>1. SUFFICES ASSUME ~b2.modifiedAfterSave, b2.saveFailures = 0
                 PROVE  b2.uploading.c = Edits(b2, x)
    BY <1>7 DEF Covered
  <2>2. ~d.modifiedAfterSave /\ saved BY <1>3, <1>6, <2>1
  <2>3. b1.upload # NoFile /\ b1.upload.c = Edits(d, x)
    BY <1>2, <1>3, <2>2 DEF Copied
  <2> QED BY <1>3, <1>6, <2>3 DEF Edits
<1> HIDE DEF b2
<1>9. OneSave(b2, x) BY <1>7, <1>8 DEF OneSave
<1>10. Onto(b2, CheckAndUploadToStorage(b2, s, saved, elapsed), x)
  BY <1>7, <1>9, CheckAndUploadOne
<1> QED BY <1>1, <1>7, <1>10 DEF Onto

(* All callbacks. *)
LEMMA CallbackOne == One /\ Inv' /\ Callback => Held
<1> SUFFICES ASSUME One, Inv', Callback PROVE Held OBVIOUS
<1>0. /\ Good(b) /\ b \in Broker /\ Inv /\ Spent /\ OneSave(b, kit)
      /\ kit \in Kit /\ kit' \in Kit
  BY DEF One, Inv, Good
<1>1. CASE ViewLoaded
  <2> DEFINE T == [b.state EXCEPT ![Msg.s] = "LIVE"]
             b1 == [b EXCEPT !.state = T]
  <2>1. b' = IF Msg.s \in b.sessions /\ b.state[Msg.s] = "LOADING"
             THEN IF Msg.v = "true" THEN SetLoaded(b1) ELSE b1
             ELSE b
    BY <1>1, Zenon DEF ViewLoaded
  <2>2. T \in [Session -> SessionState] BY <1>0 DEF Broker, SessionState
  <2> HIDE DEF T
  <2>3. b1 \in Broker BY <1>0, <2>2, ZenonT(60) DEF Broker
  <2>4. Apart(b, b1) BY <1>0 DEF Broker, Apart, Plain
  <2> HIDE DEF b1
  <2>5. Apart(b1, SetLoaded(b1)) BY <2>3, SmallApart
  <2>6. Apart(b, SetLoaded(b1)) BY <2>4, <2>5, ApartOnwards
  <2>7. Apart(b, b') BY <2>1, <2>4, <2>6, ApartSame
  <2> QED BY <1>1, <2>7, DeliveredOne DEF ViewLoaded
<1>2. CASE SetModified
  <2> DEFINE v == Msg.v = "true"
             e == [b EXCEPT !.modified = v]
  <2>1. b' = IF b.sessions = {} THEN b ELSE e BY <1>2, Zenon DEF SetModified
  <2> HIDE DEF v
  <2>2. Apart(b, e) BY <1>0 DEF Broker, Apart, Plain
  <2> HIDE DEF e
  <2>3. Apart(b, b') BY <2>1, <2>2, ApartSame
  <2> QED BY <1>2, <2>3, DeliveredOne DEF SetModified
<1>3. CASE SessionDisconnected
  <2>1. Apart(b, b') BY <1>0, <1>3, SmallApart DEF SessionDisconnected
  <2> QED BY <1>3, <2>1, DeliveredOne DEF SessionDisconnected
<1>4. CASE DisconnectedFromKit
  <2> DEFINE k == IF IsUnloading(b) THEN "Normal" ELSE "Unexpected"
             b1 == [b EXCEPT !.kitDisconnected = k]
  <2>1. b' = IF b.closeRequested \/ b.stop THEN b1 ELSE CloseDocument(b1)
    BY <1>4, Zenon DEF DisconnectedFromKit
  <2>2. k \in KitDisconnected BY DEF KitDisconnected
  <2> HIDE DEF k
  <2>3. b1 \in Broker BY <1>0, <2>2, ZenonT(60) DEF Broker
  <2>4. /\ ~kit.alive /\ kit.toBroker = <<>> /\ Serving
        /\ UNCHANGED <<kit, left>>
    BY <1>4 DEF DisconnectedFromKit
  <2>5. /\ b1.saving = b.saving /\ b1.activity = b.activity /\ b1.toKit = b.toKit
        /\ b1.renameSession = b.renameSession /\ b1.checkFileInfo = b.checkFileInfo
        /\ b1.uploadRequest = b.uploadRequest /\ b1.http = b.http
        /\ b1.modifiedAfterSave = b.modifiedAfterSave
        /\ b1.saveFailures = b.saveFailures /\ b1.upload = b.upload
        /\ b1.uploading = b.uploading /\ b1.finished = b.finished
        /\ b1.kitDisconnected # "No"
    <3>1. k # "No" BY DEF k
    <3> QED BY <1>0, <3>1 DEF Broker
  <2> HIDE DEF b1
  <2>6. OneAtMost(b1, kit) BY <1>0, <2>4, <2>5 DEF OneSave, OneAtMost, Plain
  <2>7. Covered(b1, kit) BY <1>0, <2>5 DEF OneSave, Covered, Copied, Edits
  <2>8. Onto(b, b1, kit) BY <1>0, <2>5, <2>6, <2>7 DEF OneSave, Onto
  <2>9. Onto(b1, CloseDocument(b1), kit)
    <3>1. Apart(b1, CloseDocument(b1)) BY <2>3, SmallApart
    <3> QED BY <2>8, <3>1, ApartOne, OntoOnwards
  <2>10. Onto(b, b', kit) BY <2>1, <2>8, <2>9, OntoOnwards
  <2>11. Spent' BY <1>0, <2>4 DEF Spent
  <2> QED BY <2>4, <2>10, <2>11, OntoHeld
<1>5. ASSUME NEW elapsed \in BOOLEAN, SaveResponse(elapsed)
      PROVE  Held
  <2>1. Delivers("saved") BY <1>5 DEF SaveResponse
  <2>2. /\ kit'.alive = kit.alive /\ kit'.save = kit.save /\ UNCHANGED left
        /\ Count(kit.toBroker, "saved") = Count(kit'.toBroker, "saved") + 1
        /\ Serving /\ kit.toBroker # <<>>
        /\ NoneSucceeded(kit.toBroker) => Msg.v = "false"
    BY <1>0, <2>1, DeliversCount
  <2>3. SavesOf(b, kit') + 1 = SavesOf(b, kit)
    <3>1. /\ Count(b.toKit, "save") \in Nat
          /\ Count(kit'.toBroker, "saved") \in Nat
      BY <1>0, SavesType
    <3> QED BY <2>2, <3>1 DEF SavesOf
  <2>4. SavesOf(b, kit') \in Nat BY <1>0, SavesType
  <2>5. Plain(b) /\ b.kitDisconnected = "No" BY <1>0, <2>2 DEF OneSave, OneAtMost
  <2>6. SavesOf(b, kit') <= 0 /\ b.saving
    BY <1>0, <2>3, <2>4, <2>5 DEF OneSave, OneAtMost
  <2>7. Covered(b, kit') /\ Unmodified(kit')
    BY <1>0, <2>1, DeliversCovered DEF OneSave
  <2>8. OneAtMost(b, kit') BY <1>0, <2>4, <2>5, <2>6 DEF OneSave, OneAtMost
  <2>9. Onto(b, b, kit') BY <2>7, <2>8 DEF OneSave, Onto
  <2>10. Msg.v # "false" /\ ~b.modifiedAfterSave => Copied(b, kit')
    <3>1. Msg.v # "false" /\ ~b.modifiedAfterSave => Copied(b, kit)
      BY <1>0, <2>2, <2>6 DEF OneSave, Covered
    <3> QED BY <1>0, <2>1, <3>1, DeliversCovered
  <2>11. Onto(b, HandleSaveResponse(b, Msg.s, Msg.v, elapsed), kit')
    BY <1>0, <2>5, <2>6, <2>7, <2>10, SaveResponseOne
  <2>12. Onto(b, b', kit') BY <1>5, <2>9, <2>11 DEF SaveResponse
  <2>13. Spent' BY <1>0, <2>2 DEF Spent
  <2> QED BY <2>2, <2>12, <2>13, OntoHeld
<1>6. CASE UploadDone
  <2>1. UNCHANGED <<kit, left>> /\ Serving BY <1>6 DEF UploadDone
  <2>2. Apart(b, b') BY <1>0, <1>6, UploadFinishedApart DEF UploadDone
  <2>3. Spent' BY <1>0, <2>1 DEF Spent
  <2> QED BY <2>1, <2>2, <2>3, BrokerOne
<1>7. ASSUME NEW answer, CheckFileInfoDone(answer) PROVE FALSE
  BY <1>0, <1>7 DEF CheckFileInfoDone, OneSave, OneAtMost, Plain
<1> QED BY <1>1, <1>2, <1>3, <1>4, <1>5, <1>6, <1>7 DEF Callback

-----------------------------------------------------------------------------
(* The poll loop. *)

(* What it does on the way. *)
LEMMA SentApart ==
    ASSUME Inv
    PROVE  Apart(b, Sent) /\ Apart(b, Settled)
<1> DEFINE h == [b.http EXCEPT !.res = "pending"]
           e == [b EXCEPT !.http = h]
           r == IF Sent.uploadRequest # Null /\ b.uploadRequest.complete
                THEN Null ELSE Sent.uploadRequest
           f == [Sent EXCEPT !.checkFileInfo = Null, !.uploadRequest = r]
<1>1. b \in Broker /\ Sent \in Broker BY SentGood DEF Inv, Good
<1>2. Apart(b, Sent)
  <2>1. CASE b.http # Null /\ b.http.res = "queued"
    <3>1. b.http \in HttpUpload BY <1>1, <2>1 DEF Broker
    <3>2. h.res = "pending" BY <3>1 DEF HttpUpload
    <3>3. Sent = e BY <1>1, <2>1 DEF Sent, Broker
    <3> HIDE DEF h
    <3>4. Apart(b, e) BY <1>1, <3>2 DEF Broker, Apart, Plain
    <3> QED BY <3>3, <3>4
  <2>2. CASE ~(b.http # Null /\ b.http.res = "queued") BY <2>2, ApartSame DEF Sent
  <2> QED BY <2>1, <2>2
<1>3. Settled = f BY Zenon DEF Settled
<1>4. r = Null \/ r = Sent.uploadRequest OBVIOUS
<1> HIDE DEF r
<1>5. Apart(Sent, f) BY <1>1, <1>4 DEF Broker, Apart, Plain
<1> QED BY <1>2, <1>3, <1>5, ApartOnwards

(* Leaving the loop. *)
LEMMA LeaveLoopOne ==
    ASSUME NEW d \in Broker, NEW x, OneSave(d, x), ~d.finished
    PROVE  OneSave(LeaveLoop(d), x) /\ Ended(LeaveLoop(d))
<1> DEFINE v == DetectDataLoss(d)
           e == [d EXCEPT !.finished = TRUE, !.dataLoss = v]
<1>1. LeaveLoop(d) = IF d.stop THEN e ELSE d BY Zenon DEF LeaveLoop
<1>2. e.dataLoss = DetectDataLoss(e)
  <2> HIDE DEF v
  <2>1. /\ e.dataLoss = v /\ e.modifiedAfterSave = d.modifiedAfterSave
        /\ e.saveFailures = d.saveFailures /\ e.uploadFailures = d.uploadFailures
        /\ e.uploading = d.uploading /\ e.lastUploadedTime = d.lastUploadedTime
        /\ e.closeRequested = d.closeRequested
        /\ e.changedInStorage = d.changedInStorage
    BY DEF Broker
  <2> HIDE DEF e
  <2>2. DetectDataLoss(e) = DetectDataLoss(d)
    BY <2>1, Zenon DEF DetectDataLoss, IsStorageOutdated
  <2> QED BY <2>1, <2>2 DEF v
<1> HIDE DEF v
<1>3. /\ e.toKit = d.toKit /\ e.saving = d.saving /\ e.activity = d.activity
      /\ e.kitDisconnected = d.kitDisconnected
      /\ e.renameSession = d.renameSession /\ e.checkFileInfo = d.checkFileInfo
      /\ e.uploadRequest = d.uploadRequest /\ e.http = d.http
      /\ e.modifiedAfterSave = d.modifiedAfterSave
      /\ e.saveFailures = d.saveFailures /\ e.upload = d.upload
      /\ e.uploading = d.uploading
  BY DEF Broker
<1> HIDE DEF e
<1>4. OneAtMost(e, x) BY <1>3 DEF OneSave, OneAtMost, Plain, SavesOf
<1>5. Covered(e, x) BY <1>3 DEF OneSave, Covered, Copied, Edits
<1> QED BY <1>1, <1>2, <1>4, <1>5 DEF OneSave, Ended

(* A save is given up. *)
LEMMA GivenUpOne ==
    ASSUME NEW d \in Broker, NEW x, OneSave(d, x),
           d.kitDisconnected = "No" => SavesOf(d, x) <= 0
    PROVE  Onto(d, EndActivity(SetLastSaveResult(d, FALSE, FALSE)), x)
<1> DEFINE e == SetLastSaveResult(d, FALSE, FALSE)
<1>1. /\ e \in Broker /\ e.toKit = d.toKit /\ ~e.saving
      /\ e.activity = d.activity /\ e.kitDisconnected = d.kitDisconnected
      /\ e.renameSession = d.renameSession /\ e.checkFileInfo = d.checkFileInfo
      /\ e.uploadRequest = d.uploadRequest /\ e.http = d.http
      /\ e.finished = d.finished /\ e.saveFailures # 0
  BY ResultIs
<1> HIDE DEF e
<1>2. OneAtMost(e, x) BY <1>1 DEF OneSave, OneAtMost, Plain, SavesOf
<1>3. Covered(e, x) BY <1>1 DEF Covered
<1>4. Onto(d, e, x) BY <1>1, <1>2, <1>3 DEF OneSave, Onto
<1>5. Onto(e, EndActivity(e), x) BY <1>1, <1>4, EndSaveOne DEF Onto
<1> QED BY <1>4, <1>5, OntoOnwards DEF e

(* All branches of the body of the loop. *)
LEMMA PollOne == One /\ Poll => Held
<1> SUFFICES ASSUME One, Poll PROVE Held OBVIOUS
<1>0. /\ Good(b) /\ b \in Broker /\ Inv /\ Spent /\ OneSave(b, kit) /\ kit \in Kit
      /\ Plain(b)
  BY DEF One, Inv, Good, OneSave, OneAtMost
<1>1. /\ Sent \in Broker /\ Onto(b, Sent, kit)
      /\ Good(Settled) /\ Settled \in Broker /\ Onto(b, Settled, kit)
  BY <1>0, SentApart, SentGood, SettledGood, ApartOne DEF Good
<1>2. OneSave(Sent, kit) /\ OneSave(Settled, kit) BY <1>1 DEF Onto
<1>3. ASSUME UNCHANGED <<kit, left>>, ~b.finished, Onto(b, b', kit) PROVE Held
  BY <1>0, <1>3, OntoHeld DEF Spent, Serving
<1>4. ASSUME NEW d \in Broker, UNCHANGED <<kit, left>>, ~b.finished, Onto(b, d, kit),
             b' = LeaveLoop(d)
      PROVE  Held
  <2>1. OneSave(b', kit) /\ Ended(b') BY <1>4, LeaveLoopOne DEF Onto
  <2> QED BY <1>0, <1>4, <2>1 DEF Held, Spent
<1>5. CASE PollRename BY <1>0, <1>5 DEF PollRename, Queued, Plain
<1>6. ASSUME NEW saveNow \in BOOLEAN, NEW waited \in BOOLEAN, NEW elapsed \in BOOLEAN,
             \/ PollIdle(saveNow, waited, elapsed)
             \/ PollDead(saveNow, waited, elapsed)
             \/ PollUnload(saveNow, waited, elapsed)
      PROVE  Held
  <2> DEFINE S(d, w) == AutoSaveAndStop(d, w, saveNow, waited, elapsed)
  <2>1. \A w : S(Settled, w) \in Broker /\ Onto(b, S(Settled, w), kit)
    <3> TAKE w
    <3>1. S(Settled, w) \in Broker /\ Onto(Settled, S(Settled, w), kit)
      BY <1>0, <1>1, <1>2, AutoSaveAndStopGood, AutoSaveAndStopOne DEF Good
    <3> HIDE DEF S
    <3> QED BY <1>1, <3>1, OntoOnwards
  <2>2. /\ Good(Stop(Settled)) /\ Stop(Settled) \in Broker
        /\ Onto(b, Stop(Settled), kit) /\ OneSave(Stop(Settled), kit)
    <3>1. Good(Stop(Settled)) /\ Apart(Settled, Stop(Settled))
      BY <1>1, StopGood, SmallApart
    <3>2. Onto(Settled, Stop(Settled), kit) BY <1>2, <3>1, ApartOne
    <3> QED BY <1>1, <3>1, <3>2, OntoOnwards DEF Good
  <2>3. S(Stop(Settled), Null) \in Broker /\ Onto(b, S(Stop(Settled), Null), kit)
    <3>1. /\ S(Stop(Settled), Null) \in Broker
          /\ Onto(Stop(Settled), S(Stop(Settled), Null), kit)
      BY <1>0, <2>2, AutoSaveAndStopGood, AutoSaveAndStopOne DEF Good
    <3> HIDE DEF S
    <3> QED BY <2>2, <3>1, OntoOnwards
  <2>4. \E e : e \in Broker /\ Onto(b, e, kit) /\ b' = LeaveLoop(e)
    <3>1. CASE PollIdle(saveNow, waited, elapsed) BY <2>1, <3>1, Zenon DEF PollIdle
    <3>2. CASE PollDead(saveNow, waited, elapsed)
      BY <2>1, <2>3, <3>2, Zenon DEF PollDead
    <3>3. CASE PollUnload(saveNow, waited, elapsed)
      BY <2>1, <2>2, <3>3, Zenon DEF PollUnload
    <3> QED BY <1>6, <3>1, <3>2, <3>3
  <2>5. UNCHANGED <<kit, left>> /\ ~b.finished
    BY <1>6 DEF PollIdle, PollDead, PollUnload, PollsIdle, Polling
  <2> QED BY <1>4, <2>4, <2>5
<1>7. ASSUME NEW flag \in BOOLEAN, PollAutoSave(flag) PROVE Held
  <2>1. \A w : Onto(b, AutoSave(Settled, w, FALSE, flag), kit)
    <3> TAKE w
    <3>1. Onto(Settled, AutoSave(Settled, w, FALSE, flag), kit)
      BY <1>0, <1>1, <1>2, AutoSaveOne
    <3> QED BY <1>1, <3>1, OntoOnwards
  <2>2. Onto(b, b', kit) BY <1>7, <2>1, Zenon DEF PollAutoSave
  <2>3. UNCHANGED <<kit, left>> /\ ~b.finished
    BY <1>7 DEF PollAutoSave, PollsIdle, Polling
  <2> QED BY <1>3, <2>2, <2>3
<1>8. ASSUME NEW flag \in BOOLEAN, PollRetryUpload(flag) PROVE Held
  <2>1. ~Settled.saving
    <3>1. b.activity = "None" BY <1>8 DEF PollRetryUpload, PollsIdle
    <3>2. Settled.activity = b.activity BY <1>0, SentApart DEF Apart
    <3> QED BY <1>2, <3>1, <3>2 DEF OneSave, OneAtMost
  <2>2. \A w : Onto(b, CheckAndUploadToStorage(Settled, w, FALSE, flag), kit)
    <3> TAKE w
    <3>1. Onto(Settled, CheckAndUploadToStorage(Settled, w, FALSE, flag), kit)
      BY <1>1, <1>2, <2>1, CheckAndUploadOne
    <3> QED BY <1>1, <3>1, OntoOnwards
  <2>3. Onto(b, b', kit) BY <1>8, <2>2, Zenon DEF PollRetryUpload
  <2>4. UNCHANGED <<kit, left>> /\ ~b.finished
    BY <1>8 DEF PollRetryUpload, PollsIdle, Polling
  <2> QED BY <1>3, <2>3, <2>4
<1>9. Sent.kitDisconnected = b.kitDisconnected /\ SavesOf(Sent, kit) = SavesOf(b, kit)
  BY <1>0, SentApart DEF Apart, SavesOf
<1>10. ASSUME b.kitDisconnected = "No" => SavesOf(b, kit) <= 0
       PROVE  Onto(b, EndActivity(SetLastSaveResult(Sent, FALSE, FALSE)), kit)
  BY <1>1, <1>2, <1>9, <1>10, GivenUpOne, OntoOnwards
<1>11. CASE PollSaveLost
  <2>1. Onto(b, b', kit) BY <1>10, <1>11 DEF PollSaveLost
  <2> QED BY <1>3, <1>11, <2>1 DEF PollSaveLost, Polling
<1>12. ASSUME NEW slow \in BOOLEAN, PollSaveTimesOut(slow) PROVE Held
  <2>1. ~slow BY <1>0, <1>12 DEF PollSaveTimesOut, Spent
  <2>2. SavesInFlight = SavesOf(b, kit) BY DEF SavesInFlight, SavesOf, Count, Of
  <2>3. SavesOf(b, kit) <= 0
    <3>1. slow <=> SavesInFlight > 0 BY <1>12 DEF PollSaveTimesOut
    <3>2. SavesOf(b, kit) \in Nat BY <1>0, SavesType
    <3> QED BY <2>1, <2>2, <3>1, <3>2
  <2>4. Onto(b, b', kit) BY <1>10, <1>12, <2>3 DEF PollSaveTimesOut
  <2>5. UNCHANGED kit /\ ~b.finished BY <1>12 DEF PollSaveTimesOut, Polling
  <2>6. UNCHANGED left
    <3>1. left' = [left EXCEPT !.timeouts = left.timeouts]
      BY <1>12, <2>1 DEF PollSaveTimesOut
    <3> QED BY <1>0, <3>1 DEF Inv, Budget
  <2> QED BY <1>3, <2>4, <2>5, <2>6
<1>13. CASE PollSync BY <1>0, <1>13 DEF PollSync, Plain
<1>14. ASSUME NEW s \in Session, PollStaleDisconnect(s) PROVE Held
  <2>1. Onto(Sent, b', kit) BY <1>1, <1>2, <1>14, SmallApart, ApartOne DEF PollStaleDisconnect
  <2>2. UNCHANGED <<kit, left>> /\ ~b.finished BY <1>14 DEF PollStaleDisconnect, Polling
  <2> QED BY <1>1, <1>3, <2>1, <2>2, OntoOnwards
<1>15. CASE PollStopped
  <2>1. Onto(b, b, kit) BY <1>0, OntoSame
  <2> QED BY <1>0, <1>4, <1>15, <2>1 DEF PollStopped
<1>16. CASE PollWaits BY <1>1, <1>3, <1>16 DEF PollWaits, Polling
<1> QED BY <1>5, <1>6, <1>7, <1>8, <1>11, <1>12, <1>13, <1>14, <1>15, <1>16 DEF Poll

-----------------------------------------------------------------------------
(* The first states. *)
LEMMA InitOne == OneAtATime /\ Init => One
<1> SUFFICES ASSUME OneAtATime, Init PROVE One OBVIOUS
<1>1. Inv BY InitInv
<1>2. Spent BY DEF OneAtATime, Init, Spent
<1>3. Plain(b) /\ ~b.saving /\ b.kitDisconnected = "No" BY DEF Init, NewBroker, Plain
<1>4. b.toKit = <<>> /\ b.uploading.c = 0 /\ ~b.finished
  BY DEF Init, NewBroker, NoFile
<1>5. /\ kit.toBroker = <<>> /\ kit.save = Null /\ kit.edits = 0 /\ kit.alive
      /\ kit.doc.t = 0 /\ kit.doc.c = 0
  BY DEF Init
<1>6. /\ Count(<<>>, "save") = 0 /\ Count(<<>>, "saved") = 0
      /\ Count(<<>>, "edit") = 0
  <2>1. Of(<<>>, "save") = {} /\ Of(<<>>, "saved") = {} /\ Of(<<>>, "edit") = {}
    BY DEF Of
  <2> QED BY <2>1, FS_EmptySet DEF Count
<1>7. OneAtMost(b, kit) BY <1>3, <1>4, <1>5, <1>6 DEF OneAtMost, SavesOf
<1>8. Covered(b, kit) BY <1>3, <1>4, <1>5, <1>6 DEF Covered, Edits
<1>9. Unmodified(kit) BY <1>5 DEF Unmodified
<1> QED BY <1>1, <1>2, <1>4, <1>7, <1>8, <1>9 DEF One, OneSave, Ended

(* Every step keeps it. *)
LEMMA NextOne == One /\ [Next]_vars => One'
<1> SUFFICES ASSUME One, [Next]_vars PROVE One' OBVIOUS
<1>1. Inv BY DEF One
<1>2. CASE Next
  <2>1. Inv' BY <1>1, <1>2, ClientInv, KitInv, ServerInv, CallbackInv, PollInv DEF Next
  <2>2. Held
    BY <1>2, <2>1, ClientOne, KitOne, ServerOne, CallbackOne, PollOne DEF Next
  <2> QED BY <2>1, <2>2 DEF One, Held
<1>3. CASE UNCHANGED vars
  <2>1. b' = b /\ kit' = kit /\ srv' = srv /\ left' = left BY <1>3 DEF vars
  <2>2. Inv' BY <1>1, <2>1 DEF Inv, Good, SaveMarked
  <2>3. Spent' BY <2>1 DEF One, Spent
  <2> QED BY <2>1, <2>2, <2>3 DEF One
<1> QED BY <1>2, <1>3

(* The invariant is inductive. *)
THEOREM EditsAreFollowed == OneAtATime => (Spec => []One)
<1> SUFFICES ASSUME OneAtATime PROVE Spec => []One OBVIOUS
<1>1. Init => One BY InitOne
<1>2. One /\ [Next]_vars => One' BY NextOne
<1> QED BY <1>1, <1>2, PTL DEF Spec

(* No save is ever requested while another one is under way: neither by the *)
(* users, who may save and leave at any time, nor by the administrator, the *)
(* timers of the poll loop, or the broker when it unloads.                  *)
THEOREM SavesAreSingle == OneAtATime => (Spec => []OneSaveInFlight)
<1>1. One => OneSaveInFlight
  BY DEF One, OneSave, OneAtMost, OneSaveInFlight, SavesInFlight, SavesOf, Count, Of
<1> QED BY <1>1, EditsAreFollowed, PTL

(* When pollThread() ends without flagging data-loss, every edit that the   *)
(* broker sent to the Kit is in storage, whatever has failed and whoever    *)
(* has left, unless the users gave the changes up or the broker stopped in  *)
(* the middle of a save.                                                    *)
THEOREM NothingIsLost == OneAtATime /\ Unhurried => (Spec => []NoSilentLoss)
<1>1. One /\ Truthful => NoSilentLoss
  <2> SUFFICES ASSUME One, Truthful, b.finished, ~b.dataLoss, ~DiscardedConflict,
                      ~b.saving
               PROVE  srv.ours = Forwarded
    BY DEF NoSilentLoss
  <2>1. ~DetectDataLoss(b) BY DEF One, Ended
  <2>2. ~b.modifiedAfterSave /\ ~(b.saveFailures > 0) /\ ~IsStorageOutdated(b)
    BY <2>1 DEF DetectDataLoss, DiscardedConflict
  <2>3. b.saveFailures = 0
    <3>1. b.saveFailures \in Nat BY DEF One, Inv, Good, Broker
    <3> QED BY <2>2, <3>1
  <2>4. b.uploading.c = Edits(b, kit) BY <2>2, <2>3 DEF One, OneSave, Covered
  <2>5. Edits(b, kit) = Forwarded BY DEF Edits, Forwarded, Count, Of
  <2>6. srv.ours \in Int /\ b.uploading.c \in Int
    BY DEF Truthful, Inv, Good, Broker, File, Storage
  <2>7. CASE b.uploading = NoFile
    BY <2>7, <2>4, <2>5 DEF Truthful, True, Uploaded, NoFile
  <2>8. CASE b.uploading # NoFile
    <3>1. b.uploading.t = b.lastUploadedTime BY <2>2, <2>8 DEF IsStorageOutdated
    <3>2. b.uploading.c <= srv.ours /\ srv.ours <= b.uploading.c
      BY <2>8, <3>1 DEF Truthful, True, Uploaded, Given
    <3> QED BY <2>4, <2>5, <2>6, <3>2
  <2> QED BY <2>7, <2>8
<1> QED BY <1>1, EditsAreFollowed, Truth, PTL
================================================================================
