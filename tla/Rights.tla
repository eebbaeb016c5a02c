-------------------------------- MODULE Rights --------------------------------
(* What a session may do, from what the storage says of its user to the view  *)
(* in the Kit: the flags of the session (common/Session.hpp), the line that   *)
(* loads the view, and the commands that wsd/ClientSession.cpp handles,       *)
(* forwards or refuses. The flags of a view are those of the load; the        *)
(* session's may change later. The storage, the browser and Core are          *)
(* external: the browser sends what its user does, and Core keeps to the      *)
(* flags of the view.                                                         *)
EXTENDS Integers, Sequences, FiniteSets

CONSTANTS
  Session,    \* the sessions
  Info,       \* what the storage may say of a user
  MaxQueue    \* messages under way to the Kit

Access == {"all", "comment", "redlines", "view"}
RightsAssumption ==
  /\ IsFiniteSet(Session) /\ MaxQueue \in Nat \ {0}
  /\ Info \subseteq [access : Access, readOnlyUrl : BOOLEAN, lockedUser : BOOLEAN,
                     owner : BOOLEAN, disabled : SUBSET {"copy", "print", "export"}]

VARIABLES
  info,      \* WOPIFileInfo of each session
  viewFile,  \* _isViewFileExtension: a file that can only be viewed
  flags,     \* the flags of each session
  stage,     \* how far it is
  queue,     \* what is under way to its ChildSession
  view,      \* the flags of its view in Core
  editing,   \* _lastEditingSessionId of the broker
  saves,     \* the sessions that have had it saved
  changes,   \* what has been changed, and by whom
  exported   \* what has left the document, and to whom

rightsVars == <<info, viewFile, flags, stage, queue, view, editing, saves, changes, exported>>

Change == {"text", "comment", "redline"}
Export == {"copy", "print", "export"}

NewFlags(i) ==
  [permission |-> ~i.readOnlyUrl, writable |-> ~i.readOnlyUrl, readOnly |-> i.readOnlyUrl,
   comments |-> FALSE, redlines |-> FALSE, lockFailed |-> FALSE]
NoView == [readOnly |-> TRUE, comments |-> FALSE, redlines |-> FALSE]

Init ==
  /\ info \in [Session -> Info] /\ viewFile \in BOOLEAN
  /\ flags = [s \in Session |-> NewFlags(info[s])]
  /\ stage = [s \in Session |-> "new"] /\ queue = [s \in Session |-> <<>>]
  /\ view = [s \in Session |-> NoView]
  /\ editing = {} /\ saves = {} /\ changes = {} /\ exported = {}
-----------------------------------------------------------------------------
(* The flags.                                                                 *)

SetReadOnly(f, b) == [f EXCEPT !.readOnly = b]
SetWritable(f, b) ==
  IF b THEN [f EXCEPT !.writable = TRUE]
       ELSE [f EXCEPT !.writable = FALSE, !.readOnly = TRUE, !.comments = FALSE, !.redlines = FALSE]
SetWritePermission(f, b) ==
  IF b THEN [f EXCEPT !.permission = TRUE] ELSE SetWritable([f EXCEPT !.permission = FALSE], FALSE)
IsEditable(f) == ~f.readOnly \/ f.comments \/ f.redlines

OnlyComments(f) == [SetReadOnly(SetWritable(f, TRUE), TRUE) EXCEPT !.comments = TRUE]
OnlyRedlines(f) == [SetReadOnly(SetWritable(f, TRUE), TRUE) EXCEPT !.redlines = TRUE]
FullyWritable(f) == [SetReadOnly(SetWritable(f, TRUE), FALSE) EXCEPT !.comments = TRUE]

(* updateSessionWithWopiInfo() *)
WithWopiInfo(f, i) ==
  CASE i.access = "comment" -> OnlyComments(SetWritePermission(f, TRUE))
    [] i.access = "redlines" -> OnlyRedlines(SetWritePermission(f, TRUE))
    [] i.access = "view" -> SetWritePermission(f, FALSE)
    [] i.access = "all" ->
         LET g == SetWritePermission(f, TRUE)
         IN IF g.readOnly \/ i.lockedUser THEN SetWritable(g, FALSE)
            ELSE IF viewFile THEN OnlyComments(g) ELSE FullyWritable(g)

(* setLockFailed() *)
LockFailed(f) == SetReadOnly([f EXCEPT !.lockFailed = TRUE], TRUE)
-----------------------------------------------------------------------------
(* A session comes in.                                                        *)

(* lockIfEditing(): one that cannot lock may not write.                       *)
LockIfEditing(f, locks) ==
  IF f.readOnly \/ locks THEN f ELSE SetWritable(LockFailed(f), FALSE)

AddSession(s, locks) ==
  /\ stage[s] = "new"
  /\ flags' = [flags EXCEPT ![s] = LockIfEditing(WithWopiInfo(@, info[s]), locks)]
  /\ stage' = [stage EXCEPT ![s] = "added"]
  /\ UNCHANGED <<info, viewFile, queue, view, editing, saves, changes, exported>>

(* MUTANT: the line does not say that the view is read-only.                  *)
LoadLineOpen(f) == [cmd |-> "load", what |-> [NoView EXCEPT !.readOnly = f.readOnly /\ ~f.comments]]

LoadLine(f) ==
  [cmd |-> "load", what |-> [readOnly |-> f.readOnly, comments |-> f.comments, redlines |-> f.redlines]]

Forward(s, m) == Len(queue[s]) < MaxQueue /\ queue' = [queue EXCEPT ![s] = Append(@, m)]

Load(s) ==
  /\ stage[s] = "added"
  /\ Forward(s, LoadLine(flags[s]))
  /\ stage' = [stage EXCEPT ![s] = "loading"]
  /\ UNCHANGED <<info, viewFile, flags, view, editing, saves, changes, exported>>

Here(s) == stage[s] \in {"loading", "loaded"}

(* nodocloaded: all but load is for a session that has asked for a document.  *)
MayCommand(s) == Here(s)
-----------------------------------------------------------------------------
(* Commands.                                                                  *)

(* A command of the user: the session becomes the one that edits.             *)
UserInteraction(s) ==
  editing' = IF IsEditable(flags[s]) /\ stage[s] = "loaded" THEN {s} ELSE editing

(* key, textinput, uno, paste ... are forwarded, whatever the flags.          *)
ForwardChange(s, what) ==
  /\ MayCommand(s) /\ UserInteraction(s)
  /\ Forward(s, [cmd |-> "change", what |-> what])
  /\ UNCHANGED <<info, viewFile, flags, stage, view, saves, changes, exported>>

(* filterMessage() for downloadas and gettextselection; slides are exports.   *)
FilterMessage(s, what) == what \notin info[s].disabled
ForwardExport(s, what) ==
  /\ MayCommand(s) /\ UserInteraction(s)
  /\ Forward(s, IF FilterMessage(s, what) THEN [cmd |-> "export", what |-> what]
                                          ELSE [cmd |-> "dummy", what |-> what])
  /\ UNCHANGED <<info, viewFile, flags, stage, view, saves, changes, exported>>

(* clientvisiblearea, the part, the zoom ...                                  *)
ForwardView(s) ==
  /\ MayCommand(s) /\ Forward(s, [cmd |-> "view", what |-> "view"])
  /\ UNCHANGED <<info, viewFile, flags, stage, view, editing, saves, changes, exported>>

(* dialogevent: only an owner changes the password.                           *)
DialogEvent(s, password) ==
  /\ MayCommand(s) /\ UserInteraction(s) /\ (password => info[s].owner)
  /\ Forward(s, [cmd |-> "change", what |-> "text"])
  /\ UNCHANGED <<info, viewFile, flags, stage, view, saves, changes, exported>>

(* save: refused to those that may not write to the storage.                  *)
Save(s) ==
  /\ MayCommand(s) /\ UserInteraction(s)
  /\ saves' = IF flags[s].writable THEN saves \cup {s} ELSE saves
  /\ UNCHANGED <<info, viewFile, flags, stage, queue, view, changes, exported>>

(* removesession: an owner or one that is not read-only; both may leave.      *)
RemoveSession(s, other) ==
  /\ MayCommand(s) /\ (info[s].owner \/ ~flags[s].readOnly)
  /\ stage' = [t \in Session |-> IF t \in {s, other} /\ stage[t] # "new" THEN "gone" ELSE stage[t]]
  /\ queue' = [t \in Session |-> IF t \in {s, other} THEN <<>> ELSE queue[t]]
  /\ UNCHANGED <<info, viewFile, flags, view, editing, saves, changes, exported>>

(* attemptlock: back to editing, if only the lock kept it from that.          *)
AttemptLock(s, locks) ==
  /\ MayCommand(s) /\ flags[s].readOnly /\ flags[s].lockFailed /\ locks
  /\ flags' = [flags EXCEPT ![s] = SetReadOnly(@, FALSE)]
  /\ UNCHANGED <<info, viewFile, stage, queue, view, editing, saves, changes, exported>>

(* A refresh of the lock fails for the session that asked for it.             *)
LockIsLost(s) ==
  /\ Here(s) /\ IsEditable(flags[s]) /\ ~flags[s].lockFailed
  /\ flags' = [flags EXCEPT ![s] = LockFailed(@)]
  /\ UNCHANGED <<info, viewFile, stage, queue, view, editing, saves, changes, exported>>

(* The storage is full, or the document too large for it.                     *)
StorageIsFull ==
  /\ \E s \in Session : flags[s].writable /\ stage[s] = "loaded"
  /\ flags' = [s \in Session |-> IF stage[s] \in {"new", "gone"} THEN flags[s]
                                                                 ELSE SetWritable(flags[s], FALSE)]
  /\ UNCHANGED <<info, viewFile, stage, queue, view, editing, saves, changes, exported>>
-----------------------------------------------------------------------------
(* The Kit.                                                                   *)

(* Document::load(): what a view may do is set once.                          *)
KitLoad(s, what) ==
  /\ view' = [view EXCEPT ![s] = IF what.readOnly THEN what ELSE [NoView EXCEPT !.readOnly = FALSE]]
  /\ stage' = [stage EXCEPT ![s] = "loaded"]
  /\ UNCHANGED <<changes, exported>>

(* Core refuses what the flags of the view do not allow.                      *)
CoreAllows(v, what) ==
  \/ ~v.readOnly
  \/ what = "comment" /\ v.comments
  \/ what = "redline" /\ v.redlines
KitChange(s, what) ==
  /\ changes' = IF CoreAllows(view[s], what) THEN changes \cup {<<s, what>>} ELSE changes
  /\ UNCHANGED <<view, stage, exported>>

(* The file is made, and its answer filtered once more.                       *)
KitExport(s, what) ==
  /\ exported' = IF FilterMessage(s, what) THEN exported \cup {<<s, what>>} ELSE exported
  /\ UNCHANGED <<view, stage, changes>>

KitHandles(s) ==
  /\ queue[s] # <<>>
  /\ LET m == Head(queue[s])
     IN \/ m.cmd = "load" /\ KitLoad(s, m.what)
        \/ m.cmd = "change" /\ KitChange(s, m.what)
        \/ m.cmd = "export" /\ KitExport(s, m.what)
        \/ m.cmd \in {"dummy", "view"} /\ UNCHANGED <<view, stage, changes, exported>>
  /\ queue' = [queue EXCEPT ![s] = Tail(@)]
  /\ UNCHANGED <<info, viewFile, flags, editing, saves>>

Next ==
  \/ StorageIsFull
  \/ \E s \in Session :
       \/ \E locks \in BOOLEAN : AddSession(s, locks) \/ AttemptLock(s, locks)
       \/ Load(s) \/ LockIsLost(s) \/ KitHandles(s) \/ ForwardView(s) \/ Save(s)
       \/ \E password \in BOOLEAN : DialogEvent(s, password)
       \/ \E what \in Change : ForwardChange(s, what)
       \/ \E what \in Export : ForwardExport(s, what)
       \/ \E other \in Session : RemoveSession(s, other)

Spec == Init /\ [][Next]_rightsVars
-----------------------------------------------------------------------------
(* What is changed or taken out of a document, the storage has allowed: the   *)
(* text only to users that may write, with a link that says so and in a file  *)
(* that can be edited; comments and tracked changes to those it let do that   *)
(* (wsd/DocumentBroker.cpp, wsd/ClientSession.cpp, kit/Kit.cpp).              *)
Allowed(s, what) ==
  \/ info[s].access = "all" /\ ~info[s].readOnlyUrl /\ ~info[s].lockedUser /\ (~viewFile \/ what = "comment")
  \/ info[s].access = "comment" /\ what = "comment"
  \/ info[s].access = "redlines" /\ what = "redline"
RightsAreKept ==
  /\ \A c \in changes : Allowed(c[1], c[2])
  /\ \A s \in saves : info[s].access # "view"
  /\ \A e \in exported : e[2] \notin info[e[1]].disabled
=============================================================================
