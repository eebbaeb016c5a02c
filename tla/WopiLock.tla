------------------------------- MODULE WopiLock --------------------------------
(* The lock of a document on its WOPI storage: LockContext (wsd/Storage.hpp), *)
(* the requests of WopiStorage, and when a DocumentBroker locks, refreshes    *)
(* and unlocks as sessions come and go.                                       *)
(*                                                                            *)
(* A view that loads locks, and one that leaves unlocks, synchronously: the   *)
(* broker waits for the answer. A refresh is asynchronous, and the storage    *)
(* may come to it late, also after the broker gave it up. The lock on the     *)
(* storage is a lease that ends unless it is refreshed.                       *)
EXTENDS Integers, FiniteSets, HttpSession

CONSTANTS
  Session,     \* the sessions, by their number: the order of _sessions
  Kind,        \* what each may do: "edit", "comment" or "view"
  Owner,       \* the sessions of the document's owner
  Faults       \* what may go wrong

LockAssumption ==
  /\ IsFiniteSet(Session) /\ Session \subseteq Nat \ {0}
  /\ Kind \in [Session -> {"edit", "comment", "view"}] /\ Owner \subseteq Session
  /\ Faults \subseteq {"noconnect", "notsent", "noanswer", "unauthorized", "expire", "other", "retry"}

VARIABLES
  view,        \* the sessions, and what each may do
  ctx,         \* LockContext: is it locked, and has the refresh period passed
  request,     \* _lockStateUpdateRequest: the session of the refresh, 0 if none
  http,        \* _lockHttpSession
  wire,        \* what the storage has of the refresh: nothing, or it is to handle it
  store,       \* the lock on the storage, and the periods since it was set
  alive,       \* the broker polls
  joined       \* the sessions that have come: none comes back

vars == <<view, ctx, request, http, wire, store, alive, joined>>

Absent == [loaded |-> FALSE, readOnly |-> TRUE, comments |-> FALSE,
           lockFailed |-> FALSE, expired |-> FALSE]

Init ==
  /\ view = [s \in Session |-> Absent]
  /\ ctx = [locked |-> FALSE, due |-> FALSE]
  /\ request = 0
  /\ http = NoSession
  /\ wire = "none"
  /\ store = [lock |-> "free", age |-> 0]
  /\ alive = TRUE
  /\ joined = {}

Loaded == {s \in Session : view[s].loaded}
Valid == {s \in Loaded : ~view[s].expired}
Editable(s) == ~view[s].readOnly \/ view[s].comments
-----------------------------------------------------------------------------
(* The storage (a WOPI host).                                                 *)

StoreHandles(st, op) ==
  CASE op = "LOCK" /\ st.lock # "other" -> [ok |-> TRUE, store |-> [lock |-> "ours", age |-> 0]]
    [] op = "UNLOCK" /\ st.lock = "ours" -> [ok |-> TRUE, store |-> [lock |-> "free", age |-> 0]]
    [] OTHER -> [ok |-> FALSE, store |-> st]

(* A request whose answer is waited for: it may not be sent, or the answer    *)
(* may be lost.                                                               *)
SyncRequest(op) ==
  {StoreHandles(store, op)}
  \cup (IF "notsent" \in Faults THEN {[ok |-> FALSE, store |-> store]} ELSE {})
  \cup (IF "noanswer" \in Faults
        THEN {[ok |-> FALSE, store |-> StoreHandles(store, op).store]} ELSE {})

OtherLocks ==
  /\ "other" \in Faults /\ store.lock = "free"
  /\ store' = [lock |-> "other", age |-> 0]
  /\ UNCHANGED <<view, ctx, request, http, wire, alive, joined>>

OtherUnlocks ==
  /\ store.lock = "other"
  /\ store' = [lock |-> "free", age |-> 0]
  /\ UNCHANGED <<view, ctx, request, http, wire, alive, joined>>

LeaseEnds ==
  /\ store.lock = "ours" /\ store.age = 2
  /\ store' = [lock |-> "free", age |-> 0]
  /\ UNCHANGED <<view, ctx, request, http, wire, alive, joined>>
-----------------------------------------------------------------------------
(* What the broker makes of an answer.                                        *)

SetLockFailed(v) == [v EXCEPT !.lockFailed = TRUE, !.readOnly = TRUE]

HandleLockResult(s, op, status) ==
  [ctx |-> IF status = "OK" THEN [locked |-> op = "LOCK", due |-> FALSE] ELSE ctx,
   view |-> [view EXCEPT ![s] =
      LET v == IF status = "UNAUTHORIZED" THEN [@ EXCEPT !.expired = TRUE] ELSE @
      IN  IF status # "OK" /\ op = "LOCK" THEN SetLockFailed(v) ELSE v]]

(* Without asking the storage.                                                *)
CannotUpdate(s, op) == view[s].expired \/ (op = "LOCK" /\ view[s].readOnly)

(* The outcomes of updateStorageLockState(): the synchronous request does not *)
(* tell an invalid token from another failure.                                *)
UpdateStorageLockState(s, op) ==
  IF CannotUpdate(s, op)
  THEN {[ok |-> FALSE, ctx |-> ctx, view |-> view, store |-> store]}
  ELSE {LET r == HandleLockResult(s, op, IF a.ok THEN "OK" ELSE "FAILED")
        IN  [ok |-> a.ok, ctx |-> r.ctx, view |-> r.view, store |-> a.store]
        : a \in SyncRequest(op)}

(* Mutant: the first session is good enough. *)
FirstSession ==
  IF Loaded = {} THEN 0 ELSE CHOOSE s \in Loaded : \A t \in Loaded : s <= t

(* The first owner, or else the last session that can edit with a valid       *)
(* token, or else the first.                                                  *)
GetWriteableSession ==
  LET owners == Loaded \cap Owner
      fit == {s \in Valid : Editable(s)}
      First(S) == CHOOSE s \in S : \A t \in S : s <= t
      Last(S) == CHOOSE s \in S : \A t \in S : t <= s
  IN  IF Loaded = {} THEN 0
      ELSE IF owners # {} THEN First(owners)
      ELSE IF fit # {} THEN Last(fit)
      ELSE First(Loaded)
-----------------------------------------------------------------------------
(* Sessions.                                                                  *)

NewView(s) ==
  [loaded |-> TRUE, readOnly |-> Kind[s] # "edit", comments |-> Kind[s] # "view",
   lockFailed |-> FALSE, expired |-> FALSE]

SetWritableFalse(v) == [v EXCEPT !.readOnly = TRUE, !.comments = FALSE]

(* The first view that can edit locks the document.                           *)
LockIfEditing(s) ==
  LET new == NewView(s)
  IN  IF ctx.locked \/ new.readOnly
      THEN {[ctx |-> ctx, store |-> store, view |-> [view EXCEPT ![s] = new]]}
      ELSE {[ctx |-> IF a.ok THEN [locked |-> TRUE, due |-> FALSE] ELSE ctx,
             store |-> a.store,
             view |-> [view EXCEPT ![s] =
                         IF a.ok THEN new ELSE SetWritableFalse(SetLockFailed(new))]]
            : a \in SyncRequest("LOCK")}

OnViewLoaded(s) ==
  /\ alive /\ s \notin joined
  /\ joined' = joined \cup {s}
  /\ \E r \in LockIfEditing(s) : view' = r.view /\ ctx' = r.ctx /\ store' = r.store
  /\ UNCHANGED <<request, http, wire, alive>>

TokenExpires(s) ==
  /\ "expire" \in Faults /\ view[s].loaded /\ ~view[s].expired
  /\ view' = [view EXCEPT ![s].expired = TRUE]
  /\ UNCHANGED <<ctx, request, http, wire, store, alive, joined>>

(* The user asks for the lock that could not be had.                          *)
AttemptLock(s) ==
  /\ "retry" \in Faults /\ alive /\ view[s].loaded /\ view[s].readOnly /\ view[s].lockFailed
  /\ \E r \in UpdateStorageLockState(s, "LOCK") :
       /\ view' = IF r.ok THEN [r.view EXCEPT ![s].readOnly = FALSE] ELSE r.view
       /\ ctx' = r.ctx /\ store' = r.store
  /\ UNCHANGED <<request, http, wire, alive, joined>>

LastEditable(s) ==
  Editable(s) /\ \A t \in Loaded \ {s} : ~Editable(t)

UnlockIfLast(s) ==
  IF LastEditable(s) /\ ctx.locked THEN UpdateStorageLockState(s, "UNLOCK")
  ELSE {[ok |-> TRUE, ctx |-> ctx, view |-> view, store |-> store]}

DisconnectSession(s) ==
  /\ alive /\ view[s].loaded
  /\ \E r \in UnlockIfLast(s) :
       /\ view' = [r.view EXCEPT ![s] = Absent]
       /\ ctx' = r.ctx /\ store' = r.store
  /\ UNCHANGED <<request, http, wire, alive, joined>>

(* The loop of the broker ends: it unlocks, with a session that is left.      *)
EndPolling ==
  LET s == GetWriteableSession
  IN  /\ alive /\ joined # {}
      /\ alive' = FALSE
      /\ IF ctx.locked /\ s \in Valid
         THEN \E r \in UpdateStorageLockState(s, "UNLOCK") :
                view' = r.view /\ ctx' = r.ctx /\ store' = r.store
         ELSE UNCHANGED <<view, ctx, store>>
      /\ UNCHANGED <<request, http, wire, joined>>
-----------------------------------------------------------------------------
(* The refresh.                                                               *)

NeedsRefresh == alive /\ request = 0 /\ ctx.locked /\ ctx.due

(* Mutant: the period starts again although the refresh was not made. *)
RefreshWithoutRequest ==
  /\ NeedsRefresh
  /\ ctx' = [ctx EXCEPT !.due = FALSE]
  /\ UNCHANGED <<view, request, http, wire, store, alive, joined>>

RefreshLock ==
  LET s == GetWriteableSession
  IN  /\ NeedsRefresh
      /\ \/ /\ s \notin Valid     \* bumpTimer
            /\ ctx' = [ctx EXCEPT !.due = FALSE]
            /\ UNCHANGED <<request, http, wire>>
         \/ /\ s \in Valid /\ ~CannotUpdate(s, "LOCK")
            /\ request' = s
            /\ http' = AsyncRequest
            /\ wire' = "none"
            /\ UNCHANGED ctx
      /\ UNCHANGED <<view, store, alive, joined>>

ConnectFails ==
  /\ "noconnect" \in Faults /\ alive /\ http.phase = "connecting"
  /\ http' = AsyncConnectFailed(http)
  /\ UNCHANGED <<view, ctx, request, wire, store, alive, joined>>

Connects ==
  /\ alive /\ http.phase = "connecting"
  /\ http' = AsyncConnectSuccess(http)
  /\ UNCHANGED <<view, ctx, request, wire, store, alive, joined>>

SendRequest ==
  /\ alive /\ http.phase = "connected" /\ ~http.sent
  /\ http' = PerformWrites(http)
  /\ wire' = "sent"
  /\ UNCHANGED <<view, ctx, request, store, alive, joined>>

(* The storage comes to the refresh, at any time.                             *)
StorageHandles ==
  /\ wire = "sent"
  /\ LET r == StoreHandles(store, "LOCK")
     IN  \/ store' = r.store /\ wire' = IF r.ok THEN "OK" ELSE "FAILED"
         \/ "unauthorized" \in Faults /\ UNCHANGED store /\ wire' = "UNAUTHORIZED"
  /\ UNCHANGED <<view, ctx, request, http, alive, joined>>

(* The result is handled unless the session that asked is gone.               *)
AsyncLockCallback(status) ==
  LET r == HandleLockResult(request, "LOCK", status)
  IN  /\ request' = 0
      /\ IF request \in Loaded THEN ctx' = r.ctx /\ view' = r.view ELSE UNCHANGED <<ctx, view>>

(* The finished callback: the session is retired.                             *)
Finished(h, status) ==
  \/ Done(h) /\ http' = NoSession /\ AsyncLockCallback(status)
  \/ ~Done(h) /\ http' = h /\ UNCHANGED <<request, ctx, view>>

Answered(part) ==
  /\ alive /\ http.phase = "connected" /\ wire \in {"OK", "FAILED", "UNAUTHORIZED"}
  /\ part = "malformed" => "noanswer" \in Faults
  /\ part = "some" => http.state = "New"
  /\ Finished(ReadData(http, part), IF part = "last" THEN wire ELSE "FAILED")
  /\ UNCHANGED <<wire, store, alive, joined>>

TimesOut ==
  /\ "noanswer" \in Faults /\ alive /\ http.phase = "connected"
  /\ Finished(CheckTimeout(http), "FAILED")
  /\ UNCHANGED <<wire, store, alive, joined>>

Disconnected ==
  /\ "notsent" \in Faults /\ alive /\ http.phase = "connected" /\ ~http.sent
  /\ Finished(OnDisconnect(http), "FAILED")
  /\ UNCHANGED <<wire, store, alive, joined>>
-----------------------------------------------------------------------------
(* A refresh period passes. The broker polls far more often, and a request    *)
(* times out far earlier, than that: what can go on has gone on.              *)
Underway ==
  alive /\ \/ ENABLED RefreshLock
           \/ http.phase \in {"connecting", "connected"}

PeriodPasses ==
  /\ ~Underway
  /\ store.age < 2 \/ (alive /\ ctx.locked /\ ~ctx.due)
  /\ store' = [store EXCEPT !.age = IF @ < 2 THEN @ + 1 ELSE @]
  /\ ctx' = [ctx EXCEPT !.due = ctx.locked]
  /\ UNCHANGED <<view, request, http, wire, alive, joined>>

Next ==
  \/ \E s \in Session :
       OnViewLoaded(s) \/ TokenExpires(s) \/ AttemptLock(s) \/ DisconnectSession(s)
  \/ EndPolling
  \/ RefreshLock
  \/ ConnectFails \/ Connects \/ SendRequest \/ TimesOut \/ Disconnected
  \/ \E part \in {"some", "last", "malformed"} : Answered(part)
  \/ StorageHandles \/ LeaseEnds \/ OtherLocks \/ OtherUnlocks
  \/ PeriodPasses

Spec == Init /\ [][Next]_vars

(* The broker polls and its requests time out, the storage answers in the     *)
(* end, and a user who cannot edit keeps asking.                              *)
FairSpec ==
  /\ Spec
  /\ WF_vars(RefreshLock)
  /\ WF_vars(ConnectFails \/ Connects) /\ WF_vars(SendRequest)
  /\ WF_vars(TimesOut \/ \E part \in {"last", "malformed"} : Answered(part))
  /\ WF_vars(StorageHandles)
  /\ WF_vars(PeriodPasses)
  /\ \A s \in Session : WF_vars(AttemptLock(s))
-----------------------------------------------------------------------------
TypeOK ==
  /\ view \in [Session -> [loaded : BOOLEAN, readOnly : BOOLEAN, comments : BOOLEAN,
                           lockFailed : BOOLEAN, expired : BOOLEAN]]
  /\ ctx \in [locked : BOOLEAN, due : BOOLEAN]
  /\ request \in Session \cup {0}
  /\ http \in Sessions
  /\ wire \in {"none", "sent", "OK", "FAILED", "UNAUTHORIZED"}
  /\ store \in [lock : {"free", "ours", "other"}, age : 0..2]
  /\ alive \in BOOLEAN /\ joined \subseteq Session
  /\ (request = 0) = (http.phase = "none")

Fit(s) == s \in Valid /\ ~view[s].readOnly

(* A session that is chosen before the ones that can refresh the lock, and    *)
(* cannot do so itself (getWriteableSession).                                 *)
Masked == \E s \in Loaded : (Editable(s) \/ s \in Owner) /\ ~Fit(s)

(* A session can edit and is the one to refresh the lock with, and no refresh *)
(* is stuck in a connection that failed.                                      *)
Editing == alive /\ (\E s \in Session : Fit(s)) /\ ~Masked /\ http.phase # "failed"

(* A session that can edit with a valid token comes to hold the lock on the   *)
(* storage, also when an earlier one could not unlock it, or only seemed to   *)
(* fail to (lockIfEditing, refreshLock, disconnectSessionInternal).           *)
EditorGetsLock == Editing ~> (store.lock = "ours" \/ ~Editing)

(* When nothing fails it always holds it.                                     *)
EditorHoldsLock == Editing => store.lock = "ours"

(* Nobody edits while another application has the lock: _lockState says "Do   *)
(* we own the (leased) lock currently" (LockContext).                         *)
EditorsExcludeOther == alive /\ (\E s \in Session : Fit(s)) => store.lock # "other"

(* Each refresh that got connected comes to an end, and the next can be made  *)
(* (the finished callback of updateLockStateAsync; checkTimeout).             *)
RefreshEnds == (request # 0) ~> (request = 0 \/ ~alive \/ http.phase = "failed")

(* Each refresh is answered ("Always invoke the callback with the result of   *)
(* the async locking", updateLockStateAsync).                                 *)
RefreshIsAnswered == (request # 0) ~> (request = 0 \/ ~alive)

(* As long as the lock is held and some session can refresh it, the refresh   *)
(* that is due is made (the check in the poll loop, refreshLock).             *)
RefreshGoesOn ==
  (Editing /\ ctx.locked /\ ctx.due) ~> ~(Editing /\ ctx.locked /\ ctx.due)

(* The same, whoever else is there.                                           *)
AnyEditorRefreshes ==
  (alive /\ ctx.locked /\ ctx.due /\ (\E s \in Session : Fit(s)))
    ~> ~(alive /\ ctx.locked /\ ctx.due /\ (\E s \in Session : Fit(s)))

(* When the broker has ended and unlocked, the document is not locked.        *)
NoLockIsLeft == ~alive /\ ~ctx.locked => store.lock # "ours"

(* A user whose session is read-only because of a failed lock, and who asks,  *)
(* gets to edit once nobody else has the lock ("We are only allowed to change *)
(* into edit mode if the read-only mode is because of failed lock",           *)
(* ClientSession::attemptLock).                                               *)
AttemptSucceeds ==
  \A s \in Session :
    (view[s].loaded /\ view[s].lockFailed)
      ~> (~alive \/ ~view[s].loaded \/ view[s].expired \/ ~view[s].readOnly \/ store.lock = "other")
=============================================================================
