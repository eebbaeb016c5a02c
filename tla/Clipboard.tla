------------------------------ MODULE Clipboard -------------------------------
(* The clipboards that are fetched and set over HTTP (wsd/ClientSession.cpp,  *)
(* wsd/DocumentBroker.cpp, wsd/ClientRequestDispatcher.cpp,                   *)
(* common/Clipboard.hpp, kit/ChildSession.cpp): the keys of a session, the    *)
(* requests that wait for the Kit, and the saved clipboards of all documents, *)
(* which outlive the sessions.                                                *)
(*                                                                            *)
(* A clipboard is told apart by the session whose client filled it. The       *)
(* brokers share the cache and its counter of file names, which they do not   *)
(* lock: taking a name is two steps of a broker's thread.                     *)
EXTENDS Integers, Sequences, FiniteSets

CONSTANTS
  Broker, Session, Request,
  BrokerOf,     \* the document of a session
  MayCopy,      \* sessions without DisableCopy
  MaxKeys       \* clipboard keys that are made

ClipAssumption ==
  /\ BrokerOf \in [Session -> Broker] /\ MayCopy \subseteq Session /\ MaxKeys \in Nat
  /\ IsFiniteSet(Request) /\ IsFiniteSet(Broker)

NoKey == 0
Rescue == -1            \* the name "shutdown"
Nothing == "nothing"
MaxFiles == 2 * (Cardinality(Request) + Cardinality(Session))

VARIABLES
  views,      \* the sessions: their keys, their clipboard in Core, who waits for it
  ownerOf,    \* key -> the session that was given it
  toKit, fromKit,
  jail,       \* the files that the Kit leaves for WSD
  cache, files, nextId,       \* SavedClipboards
  task,       \* what a broker's thread does with a clipboardcontent:
  request     \* the HTTP requests

clipVars == <<views, ownerOf, toKit, fromKit, jail, cache, files, nextId, task, request>>

NoTask == [step |-> "none"]
Keys == NoKey..MaxKeys
NoFile == [id |-> -1, of |-> Nothing]

(* Its client has copied something. *)
NewView(s) == [state |-> "live", keys |-> <<NoKey, NoKey>>, clip |-> s, waiting |-> {}]
EmptyJail == [k \in Keys \cup {Rescue} |-> Nothing]

Init ==
  /\ views = [s \in Session |-> NewView(s)]
  /\ ownerOf = <<>>
  /\ toKit = [s \in Session |-> <<>>] /\ fromKit = [s \in Session |-> <<>>]
  /\ jail = [s \in Session |-> EmptyJail]
  /\ cache = [k \in Keys |-> NoFile] /\ files = [i \in 0..MaxFiles |-> Nothing] /\ nextId = 0
  /\ task = [b \in Broker |-> NoTask]
  /\ request = [r \in Request |-> [state |-> "idle", kind |-> "get", key |-> NoKey, got |-> Nothing]]

Here(s) == views[s].state # "gone"
Alive(b) == \E s \in Session : BrokerOf[s] = b /\ Here(s)
Idle(b) == task[b] = NoTask
Forward(s, m) == toKit' = [toKit EXCEPT ![s] = Append(@, m)]
Answer(R, content) ==
  request' = [r \in Request |->
    IF r \in R THEN [request[r] EXCEPT !.state = "answered", !.got = content] ELSE request[r]]
-----------------------------------------------------------------------------
(* The keys. A session keeps the last one, so that a link lives a rotation.   *)

Rotated(s) ==
  IF views[s].state \in {"live", "leaving"}
    THEN [views[s] EXCEPT !.keys = <<Len(ownerOf) + 1, @[1]>>] ELSE views[s]

(* coolclient, and every five minutes.                                        *)
RotateClipboardKey(s) ==
  /\ views[s].state \in {"live", "leaving"} /\ Idle(BrokerOf[s]) /\ Len(ownerOf) < MaxKeys
  /\ views' = [views EXCEPT ![s] = Rotated(s)]
  /\ ownerOf' = Append(ownerOf, s)
  /\ UNCHANGED <<toKit, fromKit, jail, cache, files, nextId, task, request>>

MatchesClipboardKeys(s, key) == key # NoKey /\ \E i \in 1..2 : views[s].keys[i] = key

(* Mutant: the session is found by its document alone. *)
SessionFromAnyTag(b, key) == {s \in Session : BrokerOf[s] = b /\ Here(s)}

GetSessionFromClipboardTag(b, key) ==
  {s \in Session : BrokerOf[s] = b /\ Here(s) /\ MatchesClipboardKeys(s, key)}
-----------------------------------------------------------------------------
(* A request comes: the web server moves it to the document, or looks into    *)
(* the cache.                                                                 *)

HandlePersistent(r, key) ==
  IF request[r].kind = "get" /\ cache[key] # NoFile
    THEN Answer({r}, files[cache[key].id]) ELSE Answer({r}, Nothing)

Dispatch(r, kind, key) ==
  /\ request[r].state = "idle"
  /\ LET b == BrokerOf[ownerOf[key]]
         asked == [request EXCEPT ![r] = [@ EXCEPT !.state = "moving", !.kind = kind, !.key = key]]
         dropped == [asked EXCEPT ![r].state = "answered"]
     IN request' =
          IF Alive(b)
            THEN IF kind = "set" /\ GetSessionFromClipboardTag(b, key) = {} THEN dropped ELSE asked
            ELSE IF kind = "get" /\ cache[key] # NoFile
                   THEN [dropped EXCEPT ![r].got = files[cache[key].id]] ELSE dropped
  /\ UNCHANGED <<views, ownerOf, toKit, fromKit, jail, cache, files, nextId, task>>

(* ClientSession::handleClipboardRequest(): of a session that disconnects,    *)
(* the cache may have it; else it waits for what comes before the end, and is *)
(* sent to the Kit all the same.                                              *)
GetFrom(s, r) ==
  IF views[s].state = "closing" /\ cache[request[r].key] # NoFile
    THEN Answer({r}, files[cache[request[r].key].id]) /\ UNCHANGED <<views, toKit>>
  ELSE IF s \notin MayCopy
    THEN Answer({r}, Nothing) /\ UNCHANGED <<views, toKit>>
    ELSE /\ Forward(s, [cmd |-> "getclipboard", name |-> request[r].key])
         /\ views' = [views EXCEPT ![s].waiting = @ \cup {r}]
         /\ request' = [request EXCEPT ![r].state = "waiting"]

SetIn(s, r) ==
  /\ Forward(s, [cmd |-> "setclipboard", of |-> ownerOf[request[r].key]])
  /\ Answer({r}, Nothing) /\ UNCHANGED views

(* In the thread of the document.                                             *)
HandleClipboardRequest(r) ==
  LET key == request[r].key b == BrokerOf[ownerOf[key]] IN
  /\ request[r].state = "moving" /\ Alive(b) /\ Idle(b)
  /\ LET found == GetSessionFromClipboardTag(b, key) IN
       IF found = {}
         THEN HandlePersistent(r, key) /\ UNCHANGED <<views, toKit>>
         ELSE \E s \in found : IF request[r].kind = "get" THEN GetFrom(s, r) ELSE SetIn(s, r)
  /\ UNCHANGED <<ownerOf, fromKit, jail, cache, files, nextId, task>>

(* The document has ended meanwhile: its poll closes the socket.              *)
SocketCloses(r) ==
  /\ request[r].state = "moving" /\ ~Alive(BrokerOf[ownerOf[request[r].key]])
  /\ Answer({r}, Nothing)
  /\ UNCHANGED <<views, ownerOf, toKit, fromKit, jail, cache, files, nextId, task>>
-----------------------------------------------------------------------------
(* The Kit.                                                                   *)

Reply(s, m) == fromKit' = [fromKit EXCEPT ![s] = Append(@, m)]

(* Core may have nothing, or not what is asked for.                           *)
GetClipboard(s, name) ==
  \/ /\ jail' = [jail EXCEPT ![s][name] = views[s].clip]
     /\ Reply(s, [cmd |-> "clipboardcontent", name |-> name]) /\ UNCHANGED views
  \/ Reply(s, [cmd |-> "error"]) /\ UNCHANGED <<views, jail>>

SetClipboard(s, of) ==
  views' = [views EXCEPT ![s].clip = of] /\ UNCHANGED <<jail, fromKit>>

KitTakes(s) ==
  /\ toKit[s] # <<>>
  /\ LET m == Head(toKit[s]) IN
       \/ m.cmd = "getclipboard" /\ GetClipboard(s, m.name)
            /\ toKit' = [toKit EXCEPT ![s] = Tail(@)]
       \/ m.cmd = "setclipboard" /\ SetClipboard(s, m.of)
            /\ toKit' = [toKit EXCEPT ![s] = Tail(@)]
       \/ m.cmd = "disconnect" /\ Reply(s, [cmd |-> "disconnected"])
            /\ toKit' = [toKit EXCEPT ![s] = <<>>] /\ UNCHANGED <<views, jail>>
  /\ UNCHANGED <<ownerOf, cache, files, nextId, task, request>>

-----------------------------------------------------------------------------
(* What the Kit answers, in the thread of the document.                       *)

Takes(s, cmd) ==
  /\ fromKit[s] # <<>> /\ Head(fromKit[s]).cmd = cmd /\ Idle(BrokerOf[s])
  /\ fromKit' = [fromKit EXCEPT ![s] = Tail(@)]

(* "clipboardcontent: error" is a syntax error: nobody is told.               *)
ContentError(s) ==
  /\ Takes(s, "error")
  /\ UNCHANGED <<views, ownerOf, toKit, jail, cache, files, nextId, task, request>>

(* The file may have been taken for an earlier answer.                        *)
ContentIsEmpty(s) ==
  /\ Takes(s, "clipboardcontent") /\ jail[s][Head(fromKit[s]).name] = Nothing
  /\ Answer(views[s].waiting, Nothing)
  /\ views' = [views EXCEPT ![s].waiting = {}]
  /\ UNCHANGED <<ownerOf, toKit, jail, cache, files, nextId, task>>

(* postProcessCopyPayload() writes another file unless it is plain text.      *)
ContentComes(s) ==
  LET name == Head(fromKit[s]).name IN
  /\ Takes(s, "clipboardcontent") /\ jail[s][name] # Nothing
  /\ \E step \in {"process", "insert"} :
       task' = [task EXCEPT ![BrokerOf[s]] =
         [step |-> IF step = "insert" /\ s \notin MayCopy THEN "answer" ELSE step, of |-> s,
          id |-> -1, content |-> jail[s][name], file |-> NoFile]]
  /\ jail' = [jail EXCEPT ![s][name] = Nothing]
  /\ UNCHANGED <<views, ownerOf, toKit, cache, files, nextId, request>>

(* nextClipFileName() is not atomic. There are MaxFiles names.               *)
ReadId(b, from, to) ==
  /\ task[b].step = from /\ nextId \in DOMAIN files
  /\ task' = [task EXCEPT ![b].id = nextId, ![b].step = to]
  /\ UNCHANGED <<views, ownerOf, toKit, fromKit, jail, cache, files, nextId, request>>

(* The file of the post-processing becomes the clipboard.                     *)
Process(b) ==
  /\ task[b].step = "processing" /\ nextId' = task[b].id + 1
  /\ files' = [files EXCEPT ![task[b].id] = task[b].content]
  /\ task' = [task EXCEPT ![b].step = IF task[b].of \in MayCopy THEN "insert" ELSE "answer",
                          ![b].file = [id |-> task[b].id, of |-> task[b].of]]
  /\ UNCHANGED <<views, ownerOf, toKit, fromKit, jail, cache, request>>

(* An entry that nobody has any more removes its file.                        *)
Unlinked(old, new, fs) ==
  [i \in DOMAIN fs |->
    IF \E k \in Keys : /\ old[k].id = i /\ old[k] # NoFile
                       /\ \A j \in Keys : new[j] # old[k]
      THEN Nothing ELSE fs[i]]

KeysToSave(s) == {views[s].keys[1], views[s].keys[2]}

(* The file is renamed to another name, and saved for both keys.              *)
InsertClipboard(b) ==
  LET s == task[b].of new == task[b].id
      content == IF task[b].file = NoFile THEN task[b].content ELSE files[task[b].file.id]
      renamed == IF task[b].file = NoFile THEN files ELSE [files EXCEPT ![task[b].file.id] = Nothing]
      saved == [k \in Keys |-> IF k \in KeysToSave(s) THEN [id |-> new, of |-> s] ELSE cache[k]]
  IN
  /\ task[b].step = "inserting" /\ nextId' = new + 1
  /\ cache' = saved
  /\ files' = Unlinked(cache, saved, [renamed EXCEPT ![new] = content])
  /\ task' = [task EXCEPT ![b].step = "answer", ![b].file = [id |-> new, of |-> s]]
  /\ UNCHANGED <<views, ownerOf, toKit, fromKit, jail, request>>

(* Everyone who waits is sent the file as it is now. One that is not saved is *)
(* removed afterwards.                                                        *)
AnswerClipboard(b) ==
  LET t == task[b] IN
  /\ t.step = "answer"
  /\ Answer(views[t.of].waiting, IF t.file = NoFile THEN t.content ELSE files[t.file.id])
  /\ views' = [views EXCEPT ![t.of].waiting = {}]
  /\ files' = IF t.file # NoFile /\ t.of \notin MayCopy
                THEN [files EXCEPT ![t.file.id] = Nothing] ELSE files
  /\ task' = [task EXCEPT ![b] = NoTask]
  /\ UNCHANGED <<ownerOf, toKit, fromKit, jail, cache, nextId>>

(* What the Kit still says of the session finds nobody.                       *)
FinalRemoveSession(s) ==
  /\ views' = [views EXCEPT ![s] = [NewView(s) EXCEPT !.state = "gone"]]
  /\ toKit' = [toKit EXCEPT ![s] = <<>>] /\ fromKit' = [fromKit EXCEPT ![s] = <<>>]
  /\ jail' = [jail EXCEPT ![s] = EmptyJail]
  /\ UNCHANGED <<ownerOf, cache, files, nextId, task, request>>

Disconnected(s) ==
  /\ fromKit[s] # <<>> /\ Head(fromKit[s]).cmd = "disconnected" /\ Idle(BrokerOf[s])
  /\ FinalRemoveSession(s)
-----------------------------------------------------------------------------
(* A session leaves; the clipboard of the last one is rescued.                *)
RemoveSession(s) ==
  /\ views[s].state = "live" /\ Idle(BrokerOf[s])
  /\ views' = [views EXCEPT ![s].state = "leaving"]
  /\ IF \A t \in Session \ {s} : BrokerOf[t] = BrokerOf[s] => views[t].state \in {"closing", "gone"}
       THEN Forward(s, [cmd |-> "getclipboard", name |-> Rescue]) ELSE UNCHANGED toKit
  /\ UNCHANGED <<ownerOf, fromKit, jail, cache, files, nextId, task, request>>

(* Once the document is saved, where that is needed.                          *)
DisconnectFromKit(s) ==
  /\ views[s].state = "leaving" /\ Idle(BrokerOf[s])
  /\ views' = [views EXCEPT ![s].state = "closing"]
  /\ Forward(s, [cmd |-> "disconnect"])
  /\ UNCHANGED <<ownerOf, fromKit, jail, cache, files, nextId, task, request>>

StaleWaitDisconnect(s) ==
  /\ views[s].state = "closing" /\ Idle(BrokerOf[s]) /\ FinalRemoveSession(s)

CheckExpiry ==
  \E k \in Keys :
    /\ cache[k] # NoFile
    /\ cache' = [j \in Keys |-> IF cache[j] = cache[k] THEN NoFile ELSE cache[j]]
    /\ files' = Unlinked(cache, cache', files)
    /\ UNCHANGED <<views, ownerOf, toKit, fromKit, jail, nextId, task, request>>
-----------------------------------------------------------------------------
Next ==
  \/ \E s \in Session :
       \/ RotateClipboardKey(s) \/ KitTakes(s) \/ ContentError(s)
       \/ ContentIsEmpty(s) \/ ContentComes(s) \/ Disconnected(s) \/ RemoveSession(s)
       \/ DisconnectFromKit(s) \/ StaleWaitDisconnect(s)
  \/ \E r \in Request :
       \/ \E k \in 1..Len(ownerOf) : \E kind \in {"get", "set"} : Dispatch(r, kind, k)
       \/ HandleClipboardRequest(r) \/ SocketCloses(r)
  \/ \E b \in Broker :
       \/ ReadId(b, "process", "processing") \/ Process(b)
       \/ ReadId(b, "insert", "inserting") \/ InsertClipboard(b) \/ AnswerClipboard(b)
  \/ CheckExpiry

Spec == Init /\ [][Next]_clipVars
-----------------------------------------------------------------------------
(* A link to a clipboard gives the clipboard of the session that was given    *)
(* the link, or nothing: while the session lives, after a rotation, while it  *)
(* leaves and from the cache; nothing at all of a session that may not copy.  *)
OwnClipboard ==
  \A r \in Request :
    request[r].got # Nothing =>
      request[r].got = ownerOf[request[r].key] /\ request[r].got \in MayCopy
=============================================================================
