------------------------------- MODULE WebSocket -------------------------------
(* The two ends of a WebSocket (WebSocketHandler of net/WebSocketHandler.hpp  *)
(* over a StreamSocket): a server and its client, which is a browser or the   *)
(* process of a document. Both ends send whole messages; a browser may also   *)
(* send one in fragments, with control frames between them, or break the      *)
(* protocol. A frame is two cells, so that it may be read in two pieces.      *)
EXTENDS StreamSocket

CONSTANTS
  MaxMessages,    \* messages each end sends
  MaxShutdowns,   \* calls of shutdown at each end
  Extra,          \* what else may happen: "ping" (the server's 18 s are over),
                  \* "malformed" (the client breaks the protocol), "pause"
  MaxExtras       \* how often in all

End == {"server", "client"}
Peer(e) == CHOOSE p \in End : p # e

(* A message is the sequence of its two parts, its number with each.          *)
Message(m) == <<<<m, 1>>, <<m, 2>>>>
Part == (UNION {1 .. MaxMessages[e] : e \in End}) \X {1, 2}

Frame == [op : {"text", "continuation", "ping", "pong", "close"},
          fin : BOOLEAN, data : Seq(Part)]
Control(op) == [op |-> op, fin |-> TRUE, data |-> <<>>]
Whole(m) == [op |-> "text", fin |-> TRUE, data |-> Message(m)]
Fragment(m, i) == [op |-> IF i = 1 THEN "text" ELSE "continuation",
                   fin |-> i = 2, data |-> <<Message(m)[i]>>]
IsControlFrame(f) == f.op \in {"ping", "pong", "close"}
BuildFrame(f) == <<[frame |-> f, half |-> 1], [frame |-> f, half |-> 2]>>
Cell == [frame : Frame, half : {1, 2}]

VARIABLES
  conn,       \* each end: its socket, what it has put on the wire, its handler
  sent, got,  \* the messages each end sent and was given
  open1,      \* the client is between the two fragments of its last message
  extras, shutdowns,
  heard,      \* ends that were given the peer's close frame
  crossed     \* ends that closed with input unread, or were cut

vars == <<conn, sent, got, open1, extras, shutdowns, heard, crossed>>

NewHandler == [shuttingDown |-> FALSE, payload |-> <<>>, inFragmentBlock |-> FALSE]

Init ==
  /\ conn = [e \in End |-> [sock |-> NewSocket, wire |-> <<>>, ws |-> NewHandler,
                            given |-> <<>>, close |-> FALSE]]
  /\ sent = [e \in End |-> 0] /\ got = [e \in End |-> <<>>]
  /\ open1 = FALSE /\ extras = 0 /\ shutdowns = [e \in End |-> 0]
  /\ heard = {} /\ crossed = {}

IsOpen(e) == conn[e].sock.open

--------------------------------------------------------------------------------
(* Sending.                                                                   *)

(* Frames are dropped silently by an end that is closed. While it is shutting *)
(* down it writes at once, twice if need be.                                  *)
SendFrame(c, f, flush, peerOpen) ==
  LET queued == [c EXCEPT !.sock.out = @ \o BuildFrame(f)]
  IN  IF ~c.sock.open THEN c
      ELSE IF flush \/ c.ws.shuttingDown THEN WriteOutgoingData(queued, peerOpen)
      ELSE queued

(* Mutant: nothing is sent while there is output waiting. *)
SendCloseFrameIfIdle(c, peerOpen) ==
  IF c.sock.open /\ ~c.ws.shuttingDown /\ c.sock.out = <<>>
  THEN SendFrame([c EXCEPT !.ws.shuttingDown = TRUE], Control("close"), TRUE, peerOpen)
  ELSE c

SendCloseFrame(c, peerOpen) ==
  IF c.sock.open /\ ~c.ws.shuttingDown
  THEN SendFrame([c EXCEPT !.ws.shuttingDown = TRUE], Control("close"), TRUE, peerOpen)
  ELSE c

(* A hard shutdown cuts the connection, whatever is left to write.            *)
ShutdownImpl(c, hard, peerOpen) ==
  LET told == IF c.ws.shuttingDown THEN c ELSE SendCloseFrame(c, peerOpen)
      quiet == IgnoreInput(AsyncShutdown(told.sock))
  IN  [told EXCEPT !.ws = NewHandler,
                   !.sock = IF hard THEN ShutdownConnection(quiet) ELSE quiet]

--------------------------------------------------------------------------------
(* Receiving: one frame at the front of the input.                            *)

HandleControlFrame(c, f, peerOpen) ==
  CASE f.op = "pong" -> c
    [] f.op = "ping" -> SendFrame(c, Control("pong"), FALSE, peerOpen)
    [] f.op = "close" -> [ShutdownImpl(c, FALSE, peerOpen) EXCEPT !.close = TRUE]

HandleDataFrame(c, f) ==
  LET payload == c.ws.payload \o f.data
  IN  IF f.fin
      THEN [c EXCEPT !.given = Append(@, payload), !.ws.payload = <<>>,
                     !.ws.inFragmentBlock = FALSE]
      ELSE [c EXCEPT !.ws.payload = payload, !.ws.inFragmentBlock = TRUE]

HandleTCPStream(c, peerOpen) ==
  IF ~c.sock.processing \/ Len(c.sock.in) < 2 THEN c
  ELSE LET f == c.sock.in[1].frame
           rest == [c EXCEPT !.sock = EraseFirstInputBytes(@, 2)]
       IN  IF IsControlFrame(f) THEN HandleControlFrame(rest, f, peerOpen)
           ELSE IF (f.op = "continuation") # c.ws.inFragmentBlock
                THEN ShutdownImpl(c, FALSE, peerOpen)
           ELSE HandleDataFrame(rest, f)

(* "might have multiple messages in the accumulated buffer"                   *)
HandleIncomingMessage(c, peerOpen) ==
  LET after[n \in 0 .. Len(c.sock.in)] ==
        IF n = 0 THEN c ELSE HandleTCPStream(after[n - 1], peerOpen)
  IN  after[Len(c.sock.in)]

--------------------------------------------------------------------------------
(* Polling an end.                                                            *)

(* Mutant: the output is given up when a shutdown is asked for. *)
PerformShutdownAtOnce(c, events, peerOpen) ==
  [c |-> c, closed |-> c.sock.signalled]

(* The output is written as far as it goes; an end that is to shut down does  *)
(* so when nothing is left of it.                                             *)
PerformShutdown(c, events, peerOpen) ==
  LET wrote == IF events.out /\ c.sock.out # <<>> THEN WriteOutgoingData(c, peerOpen)
               ELSE c
  IN  [c |-> wrote,
       closed |-> \/ wrote.sock.signalled /\ wrote.sock.out = <<>>
                  \/ events.out /\ wrote.sock.out # <<>> /\ ~peerOpen]

CheckTimeout(c, due) ==
  IF due THEN SendFrame(c, Control("ping"), FALSE, TRUE) ELSE c

HandlePoll(c, events, n, incoming, peerOpen) ==
  LET read == IF events.in
              THEN [c EXCEPT !.sock = ReadIncomingData(@, incoming, n)] ELSE c
      Handle(x) == HandleIncomingMessage(x, peerOpen)
      Write(x) == PerformShutdown(x, events, peerOpen)
      Close(x) == IF x.closed \/ ReadClosed(c.sock, events, n)
                  THEN [x.c EXCEPT !.sock = EnsureDisconnected(@)] ELSE x.c
  IN  With(With(With(read, Handle), Write), Close)

(* One round of the poll of an end, of which handlePoll makes c. What is left *)
(* on the wire, or in the buffer of a Kit that is paused, when the end closes *)
(* is never read.                                                             *)
Polled(e, c, n) ==
  LET peer == Peer(e)
      unread == n < Len(conn[peer].wire)
  IN  /\ conn' = [conn EXCEPT
           ![e] = [c EXCEPT !.given = <<>>, !.close = FALSE],
           ![peer].wire = IF c.sock.open THEN SubSeq(@, n + 1, Len(@)) ELSE <<>>]
      /\ got' = [got EXCEPT ![e] = @ \o c.given]
      /\ heard' = heard \cup {x \in {e} : c.close}
      /\ crossed' = crossed \cup {x \in {e} : ~c.sock.open /\ unread}
                            \cup {x \in {peer} : ~c.sock.open /\ c.sock.in # <<>>}

(* That the peer has closed is seen after all that it had written.            *)
Poll(e, due, gone) ==
  LET peer == conn[Peer(e)]
      sock == conn[e].sock
      events == PollEvents(sock, conn[e].wire, peer.wire, ~gone)
  IN  /\ sock.open
      /\ gone => ~peer.sock.open
      /\ due => e = "server" /\ "ping" \in Extra /\ extras < MaxExtras
      /\ due \/ events.in \/ events.out \/ sock.in # <<>>
      /\ \E n \in IF sock.ignoring \/ peer.wire = <<>> THEN {0}
                  ELSE IF gone THEN {Len(peer.wire)} ELSE 1 .. Len(peer.wire) :
           \E c \in {HandlePoll(CheckTimeout(conn[e], due), events, n, peer.wire, ~gone)} :
             Polled(e, c, n)
      /\ extras' = IF due THEN extras + 1 ELSE extras
      /\ UNCHANGED <<sent, open1, shutdowns>>

--------------------------------------------------------------------------------
(* What the owners do.                                                        *)

SendMessage(e, flush) ==
  /\ IsOpen(e) /\ sent[e] < MaxMessages[e]
  /\ e = "client" => ~open1
  /\ conn' = [conn EXCEPT ![e] = SendFrame(@, Whole(sent[e] + 1), flush, IsOpen(Peer(e)))]
  /\ sent' = [sent EXCEPT ![e] = @ + 1]
  /\ UNCHANGED <<got, open1, extras, shutdowns, heard, crossed>>

(* A browser sends a message in two fragments.                                *)
SendFragment ==
  /\ IsOpen("client")
  /\ IF open1
     THEN /\ open1' = FALSE /\ UNCHANGED sent
          /\ conn' = [conn EXCEPT !["client"] =
               SendFrame(@, Fragment(sent["client"], 2), TRUE, IsOpen("server"))]
     ELSE /\ sent["client"] < MaxMessages["client"]
          /\ open1' = TRUE /\ sent' = [sent EXCEPT !["client"] = @ + 1]
          /\ conn' = [conn EXCEPT !["client"] =
               SendFrame(@, Fragment(sent["client"] + 1, 1), TRUE, IsOpen("server"))]
  /\ UNCHANGED <<got, extras, shutdowns, heard, crossed>>

(* A data frame that does not fit what came before it.                        *)
SendMalformed ==
  /\ "malformed" \in Extra /\ extras < MaxExtras /\ IsOpen("client")
  /\ sent["client"] > 0 /\ conn["client"].sock.out = <<>>
  /\ conn' = [conn EXCEPT !["client"] =
       SendFrame(@, IF open1 THEN Whole(sent["client"])
                    ELSE Fragment(sent["client"], 2), TRUE, IsOpen("server"))]
  /\ extras' = extras + 1
  /\ UNCHANGED <<sent, got, open1, shutdowns, heard, crossed>>

(* Anybody may shut his end down, more than once; only a Kit does it hard.    *)
Shutdown(e, hard) ==
  /\ IsOpen(e) /\ shutdowns[e] < MaxShutdowns
  /\ hard => e = "client"
  /\ conn' = [conn EXCEPT ![e] = ShutdownImpl(@, hard, IsOpen(Peer(e)))]
  /\ shutdowns' = [shutdowns EXCEPT ![e] = @ + 1]
  /\ crossed' = IF hard THEN crossed \cup {e} ELSE crossed
  /\ UNCHANGED <<sent, got, open1, extras, heard>>

(* The poll drops a socket that is closed, and its destructor tells the       *)
(* handler.                                                                   *)
RemoveSocket(e) ==
  /\ ~IsOpen(e) /\ ~conn[e].sock.disconnected
  /\ conn' = [conn EXCEPT ![e].sock = EnsureDisconnected(@), ![Peer(e)].wire = <<>>]
  /\ UNCHANGED <<sent, got, open1, extras, shutdowns, heard, crossed>>

(* The connection of an end that closed with input unread is reset: the peer  *)
(* may lose what it had not read yet.                                         *)
Reset(e) ==
  /\ e \in crossed /\ ~IsOpen(e) /\ conn[e].wire # <<>>
  /\ conn' = [conn EXCEPT ![e].wire = <<>>]
  /\ UNCHANGED <<sent, got, open1, extras, shutdowns, heard, crossed>>

(* A Kit that is busy in the office core does not handle its input.           *)
PauseInput ==
  /\ "pause" \in Extra /\ extras < MaxExtras /\ IsOpen("client")
  /\ conn["client"].sock.processing
  /\ conn' = [conn EXCEPT !["client"].sock = EnableProcessInput(@, FALSE)]
  /\ extras' = extras + 1
  /\ UNCHANGED <<sent, got, open1, shutdowns, heard, crossed>>

ResumeInput ==
  /\ IsOpen("client") /\ ~conn["client"].sock.processing
  /\ conn' = [conn EXCEPT !["client"].sock = EnableProcessInput(@, TRUE)]
  /\ UNCHANGED <<sent, got, open1, extras, shutdowns, heard, crossed>>

Next ==
  \/ \E e \in End, due, gone \in BOOLEAN : Poll(e, due, gone)
  \/ \E e \in End, flush \in BOOLEAN : SendMessage(e, flush)
  \/ SendFragment
  \/ SendMalformed
  \/ \E e \in End, hard \in BOOLEAN : Shutdown(e, hard)
  \/ \E e \in End : RemoveSocket(e)
  \/ \E e \in End : Reset(e)
  \/ PauseInput
  \/ ResumeInput

Spec == Init /\ [][Next]_vars

FairSpec ==
  /\ Spec
  /\ \A e \in End : WF_vars(\E gone \in BOOLEAN : Poll(e, FALSE, gone))
  /\ \A e \in End : WF_vars(RemoveSocket(e))
  /\ WF_vars(ResumeInput)

--------------------------------------------------------------------------------
TypeOK ==
  /\ conn \in [End -> [sock : Sockets(Cell), wire : Seq(Cell),
                       ws : [shuttingDown : BOOLEAN, payload : Seq(Part),
                             inFragmentBlock : BOOLEAN],
                       given : {<<>>}, close : {FALSE}]]
  /\ sent \in [End -> Nat] /\ \A e \in End : sent[e] <= MaxMessages[e]
  /\ got \in [End -> Seq(Seq(Part))]
  /\ open1 \in BOOLEAN /\ extras \in 0 .. MaxExtras
  /\ shutdowns \in [End -> 0 .. MaxShutdowns]
  /\ heard \subseteq End /\ crossed \subseteq End
  /\ \A e \in End : conn[e].sock.ignoring => conn[e].sock.in = <<>>

(* Whatever way the bytes are cut, the fragments a message is sent in and the *)
(* control frames between them, an end is given whole messages, in the order  *)
(* in which the peer sent them, and none twice (handleTCPStream).             *)
MessagesAreWhole ==
  \A e \in End : IsPrefix(got[e], [m \in 1 .. sent[Peer(e)] |-> Message(m)])

(* An end that closes by its own shutdown has written all that it had to      *)
(* write, the close frame included, unless it was cut or the peer had still   *)
(* something for it to read or was gone (handlePoll: "perform the shutdown if *)
(* we have sent everything").                                                 *)
FlushedBeforeClose ==
  \A e \in End :
    ~IsOpen(e) => conn[e].sock.out = <<>> \/ e \in crossed \/ ~IsOpen(Peer(e))

(* The same of the server, whatever it has not read.                          *)
ServerSendsEverything ==
  ~IsOpen("server") => conn["server"].sock.out = <<>> \/ ~IsOpen("client")

(* Once an end shuts down, the peer is given its close frame, unless the      *)
(* peer is itself shutting down or closed, or the connection was cut or reset *)
(* with input unread.                                                         *)
CloseIsHeard ==
  \A e \in End :
    shutdowns[e] > 0 ~> \/ Peer(e) \in heard \/ e \in crossed
                        \/ conn[Peer(e)].sock.ignoring

(* A shutdown of one end ends the connection at both, and both handlers are   *)
(* told.                                                                      *)
ShutdownIsFinal ==
  (\E e \in End : shutdowns[e] > 0) ~> \A e \in End : conn[e].sock.disconnected

(* "Don't send close-frame more than once."                                   *)
OneCloseFrame ==
  \A e \in End :
    Len(SelectSeq(conn[e].wire \o conn[e].sock.out,
                  LAMBDA x : x.half = 1 /\ x.frame.op = "close")) <= 1
================================================================================
