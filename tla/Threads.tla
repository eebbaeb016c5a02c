------------------------------- MODULE Threads --------------------------------
(* Threads that sleep until another one wakes them: the pool of the Kit       *)
(* (ThreadPool), the polls that hand sockets to one another (SocketPoll) and  *)
(* the sockets of the mobile builds (FakeSocket). They share no state.        *)
EXTENDS ThreadPool

CONSTANTS Poller, Connection, Started, HomeOf, Taken, NoSocket, MayClose, LateStop, MaxTasks
CONSTANTS User, Server, MaxPairs, MaxRecords

VARIABLES poll, open, hungUp, done, tasks
VARIABLES fds, call, owner, written

Polls == INSTANCE SocketPoll WITH Poll <- Poller, Socket <- Connection
Fake == INSTANCE FakeSocket
-----------------------------------------------------------------------------
(* Every open socket has one owner (net/Socket.cpp).                          *)
OneOwner == Polls!OneOwner

(* A socket that is handed to a poll ends up served by it, or closed          *)
(* (net/Socket.cpp).                                                          *)
SocketsSettle == Polls!SocketsSettle

(* A poll's thread gets the socket that it takes (SocketPoll::takeSocket).    *)
TakeSocketReturns == Polls!TakeSocketReturns

(* A thread never sleeps on what it waits for (net/FakeSocket.cpp).           *)
NobodySleepsOnWork == Fake!NobodySleepsOnWork
=============================================================================
