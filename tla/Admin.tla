--------------------------------- MODULE Admin ---------------------------------
(* The admin console (wsd/Admin.cpp, wsd/AdminModel.cpp). The brokers tell     *)
(* the Admin thread about their documents with callbacks that it runs in order *)
(* (Admin::addCallback()); it keeps its own list of documents and views, sends *)
(* what changes to the consoles that subscribed, closes documents when memory  *)
(* is short and kills those that misbehave. The brokers are those of           *)
(* DocumentBroker, reduced to what they tell; the page in the browser keeps    *)
(* the list it is told (external).                                             *)
EXTENDS Integers, Sequences, FiniteSets

CONSTANTS
  Doc, Session, Console,
  MaxPid,        \* Kits that are started
  MaxCallbacks,  \* callbacks that wait
  MaxBytes,      \* bytes that a session receives
  MaxStats,      \* samples of the statistics that are kept
  LateDestroy    \* a broker may be destroyed after the next one of its document has started

AdminAssumption ==
  /\ IsFiniteSet(Doc) /\ IsFiniteSet(Session) /\ IsFiniteSet(Console)
  /\ MaxPid \in Nat /\ MaxCallbacks \in Nat /\ MaxBytes \in Nat /\ MaxStats \in Nat \ {0}
  /\ LateDestroy \in BOOLEAN

VARIABLES
  brokers,    \* of each document: its Kit (0: none), its sessions, whether it is modified, closing
  undead,     \* documents with an ended broker that is still referenced
  pids,       \* Kits started so far
  bytes,      \* received by each session; -1: it has not come yet
  callbacks,  \* SocketPoll::_newCallbacks of Admin
  documents,  \* AdminModel::_documents
  recvTotal,  \* _recvBytesTotal
  consoles,   \* the consoles, what they subscribed to and what they show
  migrating,  \* _currentMigDoc
  stats       \* number of samples in _memStats

adminVars ==
  <<brokers, undead, pids, bytes, callbacks, documents, recvTotal, consoles, migrating, stats>>
brokerVars == <<brokers, undead, pids, bytes>>
modelVars == <<documents, recvTotal, consoles, migrating, stats>>

NoBroker == [pid |-> 0, sessions |-> {}, modified |-> FALSE, closing |-> FALSE, recv |-> 0]
NoDocument ==
  [pid |-> 0, views |-> {}, expired |-> {}, modified |-> FALSE, idle |-> FALSE, bad |-> "no"]
NoDoc == "none"
NoConsole == [registered |-> FALSE, auth |-> FALSE, open |-> FALSE, follows |-> FALSE, seen |-> {}]

Init ==
  /\ brokers = [d \in Doc |-> NoBroker] /\ undead = {} /\ pids = 0
  /\ bytes = [s \in Session |-> -1] /\ callbacks = <<>>
  /\ documents = [d \in Doc |-> NoDocument] /\ recvTotal = 0
  /\ consoles = [c \in Console |-> NoConsole]
  /\ migrating = NoDoc /\ stats = 0
-----------------------------------------------------------------------------
(* What the brokers do, and tell.                                             *)

Room == Len(callbacks) < MaxCallbacks
Tell(call) == Room /\ callbacks' = Append(callbacks, call)
Attached == UNION {brokers[d].sessions : d \in Doc}

(* addSessionInternal(), of a new broker with a new Kit or of one that runs.  *)
AddSession(d, s) ==
  LET b == brokers[d]
      p == IF b.pid = 0 THEN pids + 1 ELSE b.pid
  IN /\ bytes[s] = -1 /\ bytes' = [bytes EXCEPT ![s] = 0] /\ ~b.closing /\ p <= MaxPid
     /\ b.pid = 0 => (LateDestroy \/ d \notin undead)
     /\ Tell([call |-> "addDoc", doc |-> d, pid |-> p, session |-> s])
     /\ brokers' = [brokers EXCEPT ![d].pid = p, ![d].sessions = @ \cup {s}]
     /\ pids' = IF b.pid = 0 THEN p ELSE pids
     /\ UNCHANGED <<undead, modelVars>>

(* disconnectSessionInternal() *)
DisconnectSession(d, s) ==
  /\ s \in brokers[d].sessions
  /\ Tell([call |-> "rmView", doc |-> d, session |-> s])
  /\ brokers' = [brokers EXCEPT ![d].sessions = @ \ {s}]
  /\ UNCHANGED <<undead, pids, bytes, modelVars>>

(* The loop of a broker without sessions ends; once nobody refers to it, the  *)
(* destructor removes the document, should it still be listed.                *)
BrokerEnds(d) ==
  /\ brokers[d].pid # 0 /\ brokers[d].sessions = {}
  /\ brokers' = [brokers EXCEPT ![d] = NoBroker] /\ undead' = undead \cup {d}
  /\ UNCHANGED <<pids, bytes, callbacks, modelVars>>
DestroyBroker(d) ==
  /\ d \in undead /\ undead' = undead \ {d}
  /\ Tell([call |-> "rmDoc", doc |-> d])
  /\ UNCHANGED <<brokers, pids, bytes, modelVars>>

(* setModified(); one that changes nothing is left out.                       *)
SetModified(d, value) ==
  /\ brokers[d].pid # 0 /\ value # brokers[d].modified
  /\ Tell([call |-> "modified", doc |-> d, pid |-> brokers[d].pid, value |-> value])
  /\ brokers' = [brokers EXCEPT ![d].modified = value]
  /\ UNCHANGED <<undead, pids, bytes, modelVars>>

(* processBatchUpdates(): the users have done something.                      *)
NotifyActivity(d) ==
  /\ brokers[d].sessions # {} /\ documents[d].idle
  /\ Tell([call |-> "activity", doc |-> d])
  /\ UNCHANGED <<brokerVars, modelVars>>

(* handleUploadToStorageResponse(): sendMigrateMsgAfterSave() is called by    *)
(* the broker's own thread.                                                   *)
SendMigrateMsgAfterSave(d, success) ==
  /\ brokers[d].pid # 0 /\ migrating = d
  /\ migrating' = IF success THEN migrating ELSE NoDoc
  /\ UNCHANGED <<brokerVars, callbacks, documents, recvTotal, consoles, stats>>

(* What a session receives, and how much of it the broker reports: the sum is *)
(* of the sessions that are there.                                            *)
Receive(s) ==
  /\ s \in Attached /\ bytes[s] < MaxBytes
  /\ bytes' = [bytes EXCEPT ![s] = @ + 1]
  /\ UNCHANGED <<brokers, undead, pids, callbacks, modelVars>>
GetIOStats(d) ==
  Cardinality({x \in brokers[d].sessions \X (1..MaxBytes) : x[2] <= bytes[x[1]]})
DeltaRecv(recv, last) == IF recv > 0 THEN recv - last ELSE 0
UpdateBandwidth(d) ==
  LET recv == GetIOStats(d)
      delta == DeltaRecv(recv, brokers[d].recv)
  IN /\ brokers[d].pid # 0 /\ delta # 0
     /\ Tell([call |-> "addBytes", doc |-> d, recv |-> delta])
     /\ brokers' = [brokers EXCEPT ![d].recv = IF recv > 0 THEN recv ELSE @]
     /\ UNCHANGED <<undead, pids, bytes, modelVars>>
-----------------------------------------------------------------------------
(* The model of the documents, in the Admin thread.                           *)

(* notify(): subscribers whose socket is gone are dropped.                    *)
Notify(added, removed) ==
  consoles' = [c \in Console |->
    LET k == consoles[c]
    IN IF ~k.registered THEN k
       ELSE IF ~k.open THEN [k EXCEPT !.registered = FALSE]
       ELSE IF k.follows THEN [k EXCEPT !.seen = (@ \cup added) \ removed] ELSE k]

(* Mutant: only a new document is announced, not another view of it. *)
AddDocumentOnce(call) ==
  LET old == documents[call.doc]
      entry == IF old = NoDocument THEN [NoDocument EXCEPT !.pid = call.pid] ELSE old
  IN /\ documents' = [documents EXCEPT ![call.doc] = [entry EXCEPT !.views = @ \cup {call.session}]]
     /\ Notify(IF old = NoDocument THEN {<<call.pid, call.session>>} ELSE {}, {})
     /\ UNCHANGED <<recvTotal, migrating, stats>>

AddDocument(call) ==
  LET old == documents[call.doc]
      entry == IF old = NoDocument THEN [NoDocument EXCEPT !.pid = call.pid] ELSE old
  IN /\ documents' = [documents EXCEPT ![call.doc] = [entry EXCEPT !.views = @ \cup {call.session}]]
     /\ Notify({<<call.pid, call.session>>}, {})
     /\ UNCHANGED <<recvTotal, migrating, stats>>

ExpireView(entry, s) ==
  [entry EXCEPT !.views = @ \ {s}, !.expired = @ \cup (entry.views \cap {s})]
DoRemove(d) ==
  /\ documents' = [documents EXCEPT ![d] = NoDocument]
  /\ migrating' = IF migrating = d THEN NoDoc ELSE migrating

(* removeDocument() of a view, the document with the last one.                *)
RemoveView(call) ==
  LET d == call.doc
      entry == documents[d]
      left == ExpireView(entry, call.session)
  IN /\ IF entry = NoDocument THEN UNCHANGED <<documents, consoles, migrating>>
        ELSE /\ Notify({}, {<<entry.pid, call.session>>})
             /\ IF left.views = {} THEN DoRemove(d)
                ELSE documents' = [documents EXCEPT ![d] = left] /\ UNCHANGED migrating
     /\ UNCHANGED <<recvTotal, stats>>

(* removeDocument() of a document with all its views.                         *)
RemoveDocument(call) ==
  LET entry == documents[call.doc]
  IN /\ IF entry = NoDocument THEN UNCHANGED <<documents, consoles, migrating>>
        ELSE /\ Notify({}, {entry.pid} \X (entry.views \cup entry.expired))
             /\ DoRemove(call.doc)
     /\ UNCHANGED <<recvTotal, stats>>

ModificationAlert(call) ==
  /\ documents' = IF documents[call.doc] = NoDocument THEN documents
                  ELSE [documents EXCEPT ![call.doc].modified = call.value]
  /\ Notify({}, {}) /\ UNCHANGED <<recvTotal, migrating, stats>>
UpdateLastActivityTime(call) ==
  /\ IF documents[call.doc].idle
     THEN documents' = [documents EXCEPT ![call.doc].idle = FALSE] /\ Notify({}, {})
     ELSE UNCHANGED <<documents, consoles>>
  /\ UNCHANGED <<recvTotal, migrating, stats>>
AddBytes(call) ==
  recvTotal' = recvTotal + call.recv /\ UNCHANGED <<documents, consoles, migrating, stats>>
SubscribeConsole(call) ==
  /\ consoles' = [consoles EXCEPT ![call.console].registered = TRUE]
  /\ UNCHANGED <<documents, recvTotal, migrating, stats>>

RunCallback ==
  /\ callbacks # <<>> /\ callbacks' = Tail(callbacks)
  /\ LET call == Head(callbacks)
     IN CASE call.call = "addDoc" -> AddDocument(call)
          [] call.call = "rmView" -> RemoveView(call)
          [] call.call = "rmDoc" -> RemoveDocument(call)
          [] call.call = "modified" -> ModificationAlert(call)
          [] call.call = "activity" -> UpdateLastActivityTime(call)
          [] call.call = "addBytes" -> AddBytes(call)
          [] call.call = "subscribe" -> SubscribeConsole(call)
  /\ UNCHANGED brokerVars
-----------------------------------------------------------------------------
(* What the Admin thread does by itself.                                      *)

(* addMemStats() and its like keep the newest samples.                        *)
AddStats ==
  /\ stats' = IF stats = MaxStats THEN stats ELSE stats + 1
  /\ Notify({}, {}) /\ UNCHANGED <<brokerVars, callbacks, documents, recvTotal, migrating>>

BecomesIdle(d) ==
  /\ documents[d].pid # 0 /\ ~documents[d].idle
  /\ documents' = [documents EXCEPT ![d].idle = TRUE]
  /\ UNCHANGED <<brokerVars, callbacks, recvTotal, consoles, migrating, stats>>

(* triggerMemoryCleanup(): in the order of the idle times, saved documents    *)
(* are closed until enough is free, the others are saved. COOLWSD posts it to *)
(* the broker, if there is one by then.                                       *)
Listed == {d \in Doc : documents[d].pid # 0}
SortedByIdle ==
  {order \in [1..Cardinality(Listed) -> Listed] :
     /\ \A i, j \in DOMAIN order : i # j => order[i] # order[j]
     /\ \A i, j \in DOMAIN order : i < j => (documents[order[j]].idle => documents[order[i]].idle)}
Closed(order, toFree) ==
  {order[i] : i \in {k \in DOMAIN order :
     ~documents[order[k]].modified
     /\ Cardinality({j \in 1..(k-1) : ~documents[order[j]].modified}) < toFree}}
CloseDocument(ds) == brokers' = [d \in Doc |->
  IF d \in ds /\ brokers[d].pid # 0 THEN [brokers[d] EXCEPT !.closing = TRUE] ELSE brokers[d]]
TriggerMemoryCleanup(toFree) ==
  /\ Listed # {}
  /\ \E order \in SortedByIdle : CloseDocument(Closed(order, toFree))
  /\ UNCHANGED <<undead, pids, bytes, callbacks, modelVars>>

(* cleanupResourceConsumingDocs(): noticed, aborted after a while, then       *)
(* killed; forgotten when it behaves again.                                   *)
Misbehaves(d) ==
  /\ documents[d].idle
  /\ documents' = [documents EXCEPT ![d].bad = IF @ = "no" THEN "noticed" ELSE "aborted"]
  /\ IF documents[d].bad = "no" THEN UNCHANGED brokers ELSE CloseDocument({d})
  /\ UNCHANGED <<undead, pids, bytes, callbacks, recvTotal, consoles, migrating, stats>>
BehavesAgain(d) ==
  /\ documents[d].bad # "no" /\ documents' = [documents EXCEPT ![d].bad = "no"]
  /\ UNCHANGED <<brokerVars, callbacks, recvTotal, consoles, migrating, stats>>
-----------------------------------------------------------------------------
(* The consoles.                                                              *)

OnlyConsoles == UNCHANGED <<brokerVars, documents, recvTotal, migrating, stats>>

(* handleInitialRequest() *)
Connect(c) ==
  /\ consoles[c] = NoConsole /\ Tell([call |-> "subscribe", console |-> c])
  /\ consoles' = [consoles EXCEPT ![c].open = TRUE] /\ OnlyConsoles
Gone(k) == [k EXCEPT !.open = FALSE, !.seen = {}, !.follows = FALSE]
Disconnect(c) ==
  /\ consoles[c].open /\ consoles' = [consoles EXCEPT ![c] = Gone(@)]
  /\ UNCHANGED callbacks /\ OnlyConsoles

(* "auth": anything else before it, or a bad token, closes the socket.        *)
Auth(c, valid) ==
  /\ consoles[c].open /\ consoles[c].registered
  /\ consoles' = [consoles EXCEPT ![c] = IF valid THEN [@ EXCEPT !.auth = TRUE] ELSE Gone(@)]
  /\ UNCHANGED callbacks /\ OnlyConsoles
NotAuthenticated(c) ==
  /\ consoles[c].open /\ consoles[c].registered /\ ~consoles[c].auth
  /\ consoles' = [consoles EXCEPT ![c] = Gone(@)]
  /\ UNCHANGED callbacks /\ OnlyConsoles
Ready(c) == consoles[c].open /\ consoles[c].registered /\ consoles[c].auth

(* "documents" and "subscribe", which the page sends together.                *)
GetDocuments == UNION {{documents[d].pid} \X documents[d].views : d \in Doc}
Overview(c) ==
  /\ Ready(c) /\ ~consoles[c].follows
  /\ consoles' = [consoles EXCEPT ![c].seen = GetDocuments, ![c].follows = TRUE]
  /\ UNCHANGED callbacks /\ OnlyConsoles
Unsubscribe(c) ==
  /\ Ready(c) /\ consoles[c].follows
  /\ consoles' = [consoles EXCEPT ![c].seen = {}, ![c].follows = FALSE]
  /\ UNCHANGED callbacks /\ OnlyConsoles

(* "kill": only the Kit of a listed document.                                 *)
Kill(c, p) ==
  /\ Ready(c) /\ p \in {documents[d].pid : d \in Listed}
  /\ CloseDocument({d \in Doc : brokers[d].pid = p})
  /\ UNCHANGED <<undead, pids, bytes, callbacks, modelVars>>

(* "migrate": the users are told where to go, at once when the document is    *)
(* saved or read-only, after a save otherwise.                                *)
Migrate(c, d) ==
  /\ Ready(c) /\ migrating' = d
  /\ UNCHANGED <<brokerVars, callbacks, documents, recvTotal, consoles, stats>>

(* "set mem_stats_size" and "mem_stats_interval": samples are dropped.        *)
SetStatsSize(c, n) ==
  /\ Ready(c) /\ stats' = IF stats > n THEN n ELSE stats
  /\ Notify({}, {}) /\ UNCHANGED <<brokerVars, callbacks, documents, recvTotal, migrating>>
-----------------------------------------------------------------------------
BrokerStep ==
  \/ \E d \in Doc, s \in Session : AddSession(d, s) \/ DisconnectSession(d, s)
  \/ \E d \in Doc : BrokerEnds(d) \/ DestroyBroker(d) \/ NotifyActivity(d) \/ UpdateBandwidth(d)
  \/ \E d \in Doc, b \in BOOLEAN : SetModified(d, b) \/ SendMigrateMsgAfterSave(d, b)
  \/ \E s \in Session : Receive(s)
AdminStep ==
  \/ RunCallback \/ AddStats
  \/ \E d \in Doc : BecomesIdle(d) \/ Misbehaves(d) \/ BehavesAgain(d)
  \/ \E toFree \in 1..Cardinality(Doc) : TriggerMemoryCleanup(toFree)
ConsoleStep ==
  \E c \in Console :
    \/ Connect(c) \/ Disconnect(c) \/ NotAuthenticated(c) \/ Overview(c) \/ Unsubscribe(c)
    \/ \E valid \in BOOLEAN : Auth(c, valid)
    \/ \E p \in 1..MaxPid : Kill(c, p)
    \/ \E d \in Doc : Migrate(c, d)
    \/ SetStatsSize(c, 0)

Next == BrokerStep \/ AdminStep \/ ConsoleStep
Spec == Init /\ [][Next]_adminVars
-----------------------------------------------------------------------------
(* Once the Admin thread has run what it was told, an overview shows every    *)
(* session of every document with the pid of its Kit, and nothing else: the   *)
(* pid is what "kill" is sent with (wsd/AdminModel.cpp).                      *)
OverviewIsRight ==
  callbacks = <<>> =>
    \A c \in Console : consoles[c].follows =>
      consoles[c].seen = UNION {{brokers[d].pid} \X brokers[d].sessions : d \in Doc}

(* What has been received is never less than before: "connection drop         *)
(* transiently reduces this" (wsd/DocumentBroker.cpp), and is left out.       *)
TotalsGrow == [][recvTotal' >= recvTotal]_adminVars
=============================================================================
