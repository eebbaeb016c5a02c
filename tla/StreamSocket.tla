----------------------------- MODULE StreamSocket ------------------------------
(* A buffered stream socket (StreamSocket of net/Socket.hpp): what its owner  *)
(* may do to it, and how it reads and writes when it is polled. The kernel's  *)
(* queue towards the peer takes at most SendBuffer cells, a cell being a part *)
(* of a frame or of a message that is never split further.                    *)
EXTENDS Integers, Sequences, SequencesExt

CONSTANT SendBuffer    \* a positive number

(* F(x), for an x that is evaluated once.                                     *)
With(x, F(_)) == CHOOSE y \in {F(z) : z \in {x}} : TRUE

NewSocket ==
  [open |-> TRUE, signalled |-> FALSE, ignoring |-> FALSE,
   disconnected |-> FALSE,    \* the handler's onDisconnect was called
   processing |-> TRUE, in |-> <<>>, out |-> <<>>]

Sockets(Cell) ==
  [open : BOOLEAN, signalled : BOOLEAN, ignoring : BOOLEAN,
   disconnected : BOOLEAN, processing : BOOLEAN, in : Seq(Cell), out : Seq(Cell)]

AsyncShutdown(s) == [s EXCEPT !.signalled = TRUE]
IgnoreInput(s) == [s EXCEPT !.ignoring = TRUE, !.in = <<>>]
ShutdownConnection(s) == [s EXCEPT !.open = FALSE]
EnableProcessInput(s, enable) == [s EXCEPT !.processing = enable]
EraseFirstInputBytes(s, n) == [s EXCEPT !.in = SubSeq(@, n + 1, Len(@))]

(* The handler is told once; a handler that has lost the socket leaves it to  *)
(* the caller to close.                                                       *)
EnsureDisconnected(s) ==
  [s EXCEPT !.disconnected = TRUE, !.signalled = TRUE, !.open = FALSE]

(* How much of the output the kernel takes: what fits, or nothing at all when *)
(* the peer is gone.                                                          *)
Writable(s, wire, peerOpen) ==
  LET room == SendBuffer - Len(wire)
  IN  IF ~peerOpen THEN 0 ELSE IF Len(s.out) < room THEN Len(s.out) ELSE room

WriteOutgoingData(c, peerOpen) ==
  LET n == Writable(c.sock, c.wire, peerOpen)
  IN  [c EXCEPT !.wire = @ \o SubSeq(c.sock.out, 1, n),
                !.sock.out = SubSeq(@, n + 1, Len(@))]

(* The events that ppoll reports: input or the end of it, room for output if  *)
(* there is any to write or the socket is to be shut down, a hang-up.         *)
PollEvents(s, wire, incoming, peerOpen) ==
  [in |-> incoming # <<>> \/ ~peerOpen,
   out |-> (s.out # <<>> \/ s.signalled) /\ (Len(wire) < SendBuffer \/ ~peerOpen),
   hup |-> ~peerOpen]

(* What reading n cells does, and whether it shows that the peer has closed.  *)
ReadIncomingData(s, incoming, n) ==
  IF s.ignoring THEN s ELSE [s EXCEPT !.in = @ \o SubSeq(incoming, 1, n)]
ReadClosed(s, events, n) ==
  IF events.in THEN s.ignoring \/ n = 0 ELSE events.hup
================================================================================
