------------------------------- MODULE Connections -----------------------------
(* A connection whose ends are both served by polls of the program: a         *)
(* WebSocket with its client (WebSocket).                                     *)
EXTENDS Integers

CONSTANTS
  SendBuffer,
  MaxFromServer, MaxFromClient,   \* messages that each end sends
  MaxShutdowns, Extra, MaxExtras

VARIABLES conn, sent, got, open1, extras, shutdowns, heard, crossed

Web == INSTANCE WebSocket WITH
  MaxMessages <- [e \in {"server", "client"} |->
                    IF e = "server" THEN MaxFromServer ELSE MaxFromClient]

ASSUME ConnectionAssumption ==
  /\ SendBuffer \in Nat \ {0}
  /\ {MaxFromServer, MaxFromClient, MaxShutdowns, MaxExtras} \subseteq Nat
  /\ Extra \subseteq {"ping", "malformed", "pause"}

WebSpec == Web!FairSpec
-----------------------------------------------------------------------------
(* An end closes when it has written all that it had to write                 *)
(* (net/Socket.hpp, handlePoll).                                              *)
FlushedBeforeClose == Web!FlushedBeforeClose

(* A shutdown is heard by the peer (net/WebSocketHandler.hpp).                *)
CloseIsHeard == Web!CloseIsHeard
================================================================================
