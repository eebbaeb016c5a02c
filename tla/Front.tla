--------------------------------- MODULE Front --------------------------------
(* How a client gets from the page to a session (wsd/RequestVettingStation,   *)
(* wsd/ClientRequestDispatcher): the CheckFileInfo that is asked when the     *)
(* page is served, the WebSocket that comes later or never, the broker of the *)
(* document, and the presets that are shared by its documents.                *)
(*                                                                            *)
(* All but the broker's thread runs in the web server's poll, so each handler *)
(* is one action. The storage, DNS and Core are external.                     *)
EXTENDS Integers, FiniteSets

CONSTANTS
  Client,        \* clients, each with a page and a WebSocket
  Key, KeyOf,    \* the request key of a client: document and access token
  MaxStations,   \* RvsHighWatermark
  MaxRedirects,  \* HTTP_REDIRECTION_LIMIT
  Shared         \* the storage has shared settings

FrontAssumption ==
  KeyOf \in [Client -> Key] /\ {MaxStations, MaxRedirects} \subseteq Nat /\ Shared \in BOOLEAN

VARIABLES
  page,       \* the clients that were served the page
  ws,         \* their WebSockets
  waiting,    \* RequestVettingStations: those without a WebSocket, by key
  station,    \* those that have one, by client
  broker,     \* the broker of the document
  config,     \* the shared presets, and with them the ForKit that has them
  vetted,     \* the keys that the storage has let in
  shutdown    \* ShutdownRequestFlag

frontVars == <<page, ws, waiting, station, broker, config, vetted, shutdown>>

NoStation == [cfi |-> "none", redirects |-> 0, installs |-> FALSE]
Stations == {k \in Key : waiting[k] # NoStation}

Init ==
  /\ page = {} /\ ws = [c \in Client |-> "none"]
  /\ waiting = [k \in Key |-> NoStation] /\ station = [c \in Client |-> NoStation]
  /\ broker = "none" /\ config = "none" /\ vetted = {} /\ shutdown = FALSE

(* sendErrorAndShutdown(): what is left without a WebSocket hears nothing.    *)
Refuse(c) == ws' = [ws EXCEPT ![c] = "refused"]
-----------------------------------------------------------------------------
(* The broker for a request that was let in.                                  *)

Unloading == broker = "unloading"

(* findOrCreateDocBroker() *)
CanHaveBroker == ~shutdown /\ ~Unloading
Created == IF broker = "none" THEN "created" ELSE broker

(* launchInstallPresets(), for each station that finds the storage has some.  *)
LaunchInstallPresets ==
  config' = IF Shared /\ config = "none" THEN "installing" ELSE config
Installs == Shared /\ config # "installed"

(* createClientSession(): the socket is on its way to the broker's thread,    *)
(* which the first one starts.                                                *)
CreateClientSession(c) ==
  /\ ws' = [ws EXCEPT ![c] = "moving"]
  /\ broker' = IF Created = "created" THEN "starting" ELSE broker

TransferWithWs(c, s) ==
  IF CanHaveBroker
    THEN /\ CreateClientSession(c) /\ LaunchInstallPresets
         /\ station' = [station EXCEPT ![c] = [s EXCEPT !.installs = Installs]]
    ELSE /\ Refuse(c) /\ station' = [station EXCEPT ![c] = s] /\ UNCHANGED <<broker, config>>

(* There is no WebSocket yet: the broker is created and left alone.           *)
TransferWithoutWs(k, s) ==
  IF CanHaveBroker
    THEN /\ broker' = Created /\ LaunchInstallPresets
         /\ waiting' = [waiting EXCEPT ![k] = [s EXCEPT !.installs = Installs]]
    ELSE waiting' = [waiting EXCEPT ![k] = s] /\ UNCHANGED <<broker, config>>
-----------------------------------------------------------------------------
(* CheckFileInfo.                                                             *)

CheckFileInfo(s) == [s EXCEPT !.cfi = "active", !.redirects = MaxRedirects]

(* The storage lets the user in, does not, answers nonsense or nothing, or    *)
(* sends us elsewhere.                                                        *)
Answer == {"pass", "unauthorized", "fail", "redirect"}

Finished(s, answer) ==
  IF answer = "redirect"
    THEN IF s.redirects > 0 THEN [s EXCEPT !.redirects = @ - 1] ELSE [s EXCEPT !.cfi = "fail"]
    ELSE [s EXCEPT !.cfi = answer]

(* cfiContinuation(), without a WebSocket and with one. Once the server shuts *)
(* down, answers are dropped.                                                 *)
CfiWithoutWs(k, answer) ==
  /\ waiting[k].cfi = "active"
  /\ LET s == Finished(waiting[k], answer) IN
       IF ~shutdown /\ s.cfi = "pass"
         THEN TransferWithoutWs(k, s)
         ELSE /\ waiting' = [waiting EXCEPT ![k] = IF shutdown THEN @ ELSE s]
              /\ UNCHANGED <<broker, config>>
  /\ vetted' = vetted \cup {l \in {k} : answer = "pass"}
  /\ UNCHANGED <<page, ws, station, shutdown>>

CfiWithWs(c, answer) ==
  /\ ws[c] = "open" /\ station[c].cfi = "active" /\ ~shutdown
  /\ LET s == Finished(station[c], answer) IN
       CASE s.cfi = "pass" -> TransferWithWs(c, s)
         [] s.cfi = "active" ->
              /\ station' = [station EXCEPT ![c] = s]
              /\ UNCHANGED <<ws, broker, config>>
         [] OTHER ->
              /\ Refuse(c) /\ station' = [station EXCEPT ![c] = s]
              /\ UNCHANGED <<broker, config>>
  /\ vetted' = vetted \cup {k \in {KeyOf[c]} : answer = "pass"}
  /\ UNCHANGED <<page, waiting, shutdown>>
-----------------------------------------------------------------------------
(* The page, and the WebSocket.                                               *)

(* CleanupRequestVettingStations(): before a request is handled, those that   *)
(* are old are dropped if there are many. The age is not modelled.            *)
CleanupStations(old) ==
  [k \in Key |-> IF Cardinality(Stations) >= MaxStations /\ k \in old THEN NoStation ELSE waiting[k]]

(* handleRequest(), before there is a WebSocket.                              *)
HandlePageRequest(s) == CheckFileInfo(s)

(* launchAsyncCheckFileInfo() *)
ServePage(c, old) ==
  /\ c \notin page /\ page' = page \cup {c}
  /\ LET kept == CleanupStations(old)
         full == Cardinality({k \in Key : kept[k] # NoStation}) >= MaxStations
     IN waiting' = [kept EXCEPT ![KeyOf[c]] =
                      IF @ # NoStation \/ full THEN @ ELSE HandlePageRequest(@)]
  /\ UNCHANGED <<ws, station, broker, config, vetted, shutdown>>

(* Mutant: a CheckFileInfo that has ended is taken for one that has passed.   *)
HandleRequestTrusting(c, s) ==
  CASE s.cfi = "active" ->
         /\ ws' = [ws EXCEPT ![c] = "open"] /\ station' = [station EXCEPT ![c] = s]
         /\ UNCHANGED <<broker, config>>
    [] s.cfi = "none" ->
         /\ ws' = [ws EXCEPT ![c] = "open"]
         /\ station' = [station EXCEPT ![c] = CheckFileInfo(s)]
         /\ UNCHANGED <<broker, config>>
    [] OTHER -> TransferWithWs(c, s)

(* handleRequest(): with what the station knows when the WebSocket comes.     *)
HandleRequest(c, s) ==
  CASE s.cfi = "active" ->
         /\ ws' = [ws EXCEPT ![c] = "open"] /\ station' = [station EXCEPT ![c] = s]
         /\ UNCHANGED <<broker, config>>
    [] s.cfi = "pass" -> TransferWithWs(c, s)
    [] s.cfi = "none" ->
         /\ ws' = [ws EXCEPT ![c] = "open"]
         /\ station' = [station EXCEPT ![c] = CheckFileInfo(s)]
         /\ UNCHANGED <<broker, config>>
    [] OTHER ->
         /\ Refuse(c) /\ station' = [station EXCEPT ![c] = s]
         /\ UNCHANGED <<broker, config>>

(* handleClientWsUpgrade(): it takes the station of its key, or a new one.    *)
UpgradeToWs(c, old) ==
  /\ ws[c] = "none" /\ c \in page
  /\ LET kept == CleanupStations(old) IN
       /\ HandleRequest(c, kept[KeyOf[c]])
       /\ waiting' = [kept EXCEPT ![KeyOf[c]] = NoStation]
  /\ UNCHANGED <<page, vetted, shutdown>>

(* An address that no storage is configured for, or a client beyond the limit *)
(* of connections.                                                            *)
UpgradeRefused(c) ==
  /\ ws[c] = "none" /\ c \in page /\ Refuse(c)
  /\ UNCHANGED <<page, waiting, station, broker, config, vetted, shutdown>>

(* The client goes; the station goes with its socket.                         *)
ClientLeaves(c) ==
  /\ ws[c] \in {"open", "moving", "session"}
  /\ ws' = [ws EXCEPT ![c] = "gone"] /\ station' = [station EXCEPT ![c] = NoStation]
  /\ UNCHANGED <<page, waiting, broker, config, vetted, shutdown>>
-----------------------------------------------------------------------------
(* The shared presets: the station that installs them tells its client if     *)
(* they cannot be had, and else a ForKit is made that has them.               *)
InstallEnds(success) ==
  /\ config = "installing"
  /\ config' = IF success THEN "installed" ELSE "none"
  /\ ws' = [c \in Client |->
       IF ~success /\ station[c].installs /\ ws[c] \in {"open", "moving", "session"}
         THEN "refused" ELSE ws[c]]
  /\ station' = [c \in Client |-> [station[c] EXCEPT !.installs = FALSE]]
  /\ waiting' = [k \in Key |-> [waiting[k] EXCEPT !.installs = FALSE]]
  /\ UNCHANGED <<page, broker, vetted, shutdown>>
-----------------------------------------------------------------------------
(* The thread of the broker.                                                  *)

(* A Kit is there. One with the presets comes from the ForKit that has them.  *)
Attach ==
  /\ broker = "starting" /\ (Shared => config = "installed")
  /\ broker' = "up"
  /\ UNCHANGED <<page, ws, waiting, station, config, vetted, shutdown>>

Rejected == [c \in Client |-> IF ws[c] \in {"moving", "session"} THEN "gone" ELSE ws[c]]

(* The thread ends without a Kit, and closes the sockets that it was given.   *)
NoKit ==
  /\ broker = "starting" /\ broker' = "none" /\ ws' = Rejected
  /\ UNCHANGED <<page, waiting, station, config, vetted, shutdown>>

(* The callback of the transfer: the session is made, or something throws.    *)
AddSession(c, success) ==
  /\ ws[c] = "moving" /\ broker \in {"up", "unloading"}
  /\ ws' = [ws EXCEPT ![c] = IF broker = "up" /\ success THEN "session" ELSE "refused"]
  /\ station' = [station EXCEPT ![c] = NoStation]
  /\ UNCHANGED <<page, waiting, broker, config, vetted, shutdown>>

Unload ==
  /\ broker = "up" /\ broker' = "unloading"
  /\ UNCHANGED <<page, ws, waiting, station, config, vetted, shutdown>>

BrokerEnds ==
  /\ broker = "unloading" /\ broker' = "none" /\ ws' = Rejected
  /\ UNCHANGED <<page, waiting, station, config, vetted, shutdown>>

(* timeoutNotLoaded(): nobody came for the broker that was created early.     *)
NeverLoaded ==
  /\ broker = "created" /\ broker' = "none"
  /\ UNCHANGED <<page, ws, waiting, station, config, vetted, shutdown>>

Shutdown ==
  /\ ~shutdown /\ shutdown' = TRUE
  /\ UNCHANGED <<page, ws, waiting, station, broker, config, vetted>>

(* The server ends: what is still connected is closed. *)
CloseAll ==
  /\ shutdown /\ \E c \in Client : ws[c] \in {"open", "moving", "session"}
  /\ ws' = [c \in Client |-> IF ws[c] \in {"open", "moving", "session"} THEN "gone" ELSE ws[c]]
  /\ UNCHANGED <<page, waiting, station, broker, config, vetted, shutdown>>
-----------------------------------------------------------------------------
CfiEnds ==
  \E answer \in Answer :
    \/ \E k \in Key : CfiWithoutWs(k, answer)
    \/ \E c \in Client : CfiWithWs(c, answer)

Next ==
  \/ \E c \in Client :
       \/ \E old \in SUBSET Key : ServePage(c, old) \/ UpgradeToWs(c, old)
       \/ UpgradeRefused(c) \/ ClientLeaves(c)
       \/ \E success \in BOOLEAN : AddSession(c, success)
  \/ CfiEnds \/ \E success \in BOOLEAN : InstallEnds(success)
  \/ Attach \/ NoKit \/ Unload \/ BrokerEnds \/ NeverLoaded \/ Shutdown \/ CloseAll

(* The polls go on; requests to the storage end, if only by their time-out.   *)
Fairness ==
  /\ \A c \in Client :
       /\ WF_frontVars(\E answer \in Answer : CfiWithWs(c, answer))
       /\ WF_frontVars(\E success \in BOOLEAN : AddSession(c, success))
  /\ WF_frontVars(\E success \in BOOLEAN : InstallEnds(success))
  /\ WF_frontVars(Attach \/ NoKit) /\ WF_frontVars(BrokerEnds) /\ WF_frontVars(NeverLoaded)
  /\ WF_frontVars(CloseAll)

Spec == Init /\ [][Next]_frontVars
FairSpec == Spec /\ Fairness
-----------------------------------------------------------------------------
(* A client whose WebSocket was accepted gets a session, an error or a closed *)
(* connection, whatever was known before it came and whatever the storage,    *)
(* the presets and the broker do meanwhile.                                   *)
WsIsAnswered ==
  \A c \in Client : ws[c] \in {"open", "moving"} ~> ws[c] \notin {"open", "moving"}

(* A session is only made for a client that the storage has let in: the early *)
(* CheckFileInfo may have ended in any way, and two clients may share a key.  *)
SessionIsVetted == \A c \in Client : ws[c] \in {"moving", "session"} => KeyOf[c] \in vetted
=============================================================================
