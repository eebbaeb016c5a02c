------------------------------ MODULE SocketPoll -------------------------------
(* The polls of the server (net/Socket.hpp, net/Socket.cpp): threads that     *)
(* sleep in ppoll until a socket or the wake-up pipe is readable, and that    *)
(* other threads hand callbacks and sockets to. A socket moves between polls: *)
(* the old one gives it up, and a callback inserts it in the new one.         *)
(*                                                                            *)
(* What is done under _mutex, or by one thread without anybody else seeing    *)
(* it, is one step.                                                           *)
EXTENDS Integers, Sequences, SequencesExt

CONSTANTS
  Poll, Socket,
  Started,      \* the polls that run from the beginning
  HomeOf,       \* the poll that has a socket at first
  Taken,        \* the socket that a poll's thread takes before it polls, or NoSocket
  NoSocket,
  MayClose,     \* sockets whose peer may go away
  LateStop,     \* a poll may be stopped while a socket is on its way to it
  MaxTasks      \* callbacks that the other threads add

PollAssumption ==
  /\ Started \subseteq Poll /\ HomeOf \in [Socket -> Started]
  /\ NoSocket \notin Socket /\ Taken \in [Poll -> Socket \cup {NoSocket}]
  /\ MayClose \subseteq Socket /\ LateStop \in BOOLEAN /\ MaxTasks \in Nat

VARIABLES
  poll,     \* each SocketPoll
  open,     \* sockets whose descriptor is open
  hungUp,   \* sockets whose peer has gone
  done,     \* callbacks that were run, in order
  tasks     \* callbacks that were added

pollVars == <<poll, open, hungUp, done, tasks>>

NewPoll(p) ==
  [started |-> p \in Started, finished |-> FALSE, stop |-> FALSE,
   pipe |-> FALSE,            \* the wake-up pipe is readable
   pc |-> IF p \in Started THEN "poll" ELSE "none",
   newSockets |-> {}, callbacks |-> <<>>, transfers |-> <<>>,
   invoke |-> <<>>, pending |-> <<>>,     \* what was swapped out of the queues
   sockets |-> {s \in Socket : HomeOf[s] = p},
   transferred |-> FALSE]     \* the local variable of takeSocket

Init ==
  /\ poll = [p \in Poll |-> NewPoll(p)]
  /\ open = Socket /\ hungUp = {}
  /\ done = <<>> /\ tasks = 0

IsAlive(p) == poll[p].started /\ ~poll[p].finished
TaskQueuesEmpty(q) == q.newSockets = {} /\ q.callbacks = <<>> /\ q.transfers = <<>>

(* wakeup() by whoever finds the queues empty.                                *)
WokenIfEmpty(q, old) == [q EXCEPT !.pipe = @ \/ TaskQueuesEmpty(old)]

QueueCallback(q, fn) == WokenIfEmpty([q EXCEPT !.callbacks = Append(@, fn)], q)
QueueSocket(q, s) == WokenIfEmpty([q EXCEPT !.newSockets = @ \cup {s}], q)
QueueTransfer(q, t) == WokenIfEmpty([q EXCEPT !.transfers = Append(@, t)], q)

Arrival(s) == [type |-> "arrival", socket |-> s]

(* A transfer to p was asked for, and the socket has not arrived.             *)
OnTheWay(p) ==
  \/ \E o \in Poll : \E seq \in {poll[o].transfers, poll[o].pending} :
       \E i \in DOMAIN seq : seq[i].to = p
  \/ \E seq \in {poll[p].callbacks, poll[p].invoke} :
       \E i \in DOMAIN seq : seq[i].type = "arrival"
-----------------------------------------------------------------------------
(* Other threads.                                                             *)

AddCallback(p) ==
  /\ tasks < MaxTasks /\ ~poll[p].stop
  /\ tasks' = tasks + 1
  /\ poll' = [poll EXCEPT ![p] = QueueCallback(@, [type |-> "task", id |-> tasks'])]
  /\ UNCHANGED <<open, hungUp, done>>

(* transferSocketTo: the caller has made sure that the new poll goes on       *)
(* (isUnloadingUnrecoverably).                                                *)
TransferSocketTo(s, from, to) ==
  /\ s \in poll[from].sockets /\ from # to /\ s # Taken[to]
  /\ ~poll[to].stop /\ ~OnTheWay(to)
  /\ poll' = [poll EXCEPT ![from] = QueueTransfer(@, [socket |-> s, to |-> to, taken |-> FALSE])]
  /\ UNCHANGED <<open, hungUp, done, tasks>>

(* SocketPoll::stop: callbacks that nobody has taken are dropped.             *)
Stop(p) ==
  /\ p \notin Started /\ IsAlive(p) /\ ~poll[p].stop
  /\ LateStop \/ ~OnTheWay(p)
  /\ LET dropped == {s \in Socket : \E i \in DOMAIN poll[p].callbacks : poll[p].callbacks[i] = Arrival(s)}
     IN  open' = open \ dropped
  /\ poll' = [poll EXCEPT ![p].stop = TRUE, ![p].callbacks = <<>>, ![p].pipe = TRUE]
  /\ UNCHANGED <<hungUp, done, tasks>>

HangUp(s) ==
  /\ s \in MayClose \ hungUp
  /\ hungUp' = hungUp \cup {s}
  /\ UNCHANGED <<poll, open, done, tasks>>
-----------------------------------------------------------------------------
(* The thread of a poll.                                                      *)

(* A thread that takes a socket first asks its poll for it ...                *)
TakeSocket(p) ==
  /\ poll[p].pc = "take"
  /\ LET s == Taken[p]
         homes == {o \in Poll : s \in poll[o].sockets}
     IN  poll' = IF homes = {} THEN [poll EXCEPT ![p].pc = "taking"]
                 ELSE [[poll EXCEPT ![p].pc = "taking"] EXCEPT
                         ![CHOOSE o \in homes : TRUE] =
                           QueueTransfer(@, [socket |-> s, to |-> p, taken |-> TRUE])]
  /\ UNCHANGED <<open, hungUp, done, tasks>>

(* ... and waits until that has let it go.                                    *)
SocketTaken(p) ==
  /\ poll[p].pc = "taking"
  /\ poll[p].transferred \/ poll[p].stop
  /\ poll' = [poll EXCEPT ![p].pc = "poll"]
  /\ UNCHANGED <<open, hungUp, done, tasks>>

(* ppoll returns for the pipe, which is read.                                 *)
ReadPipe(p) ==
  /\ poll[p].pc = "poll" /\ ~poll[p].stop /\ poll[p].pipe
  /\ poll' = [poll EXCEPT ![p].pc = "read", ![p].pipe = FALSE]
  /\ UNCHANGED <<open, hungUp, done, tasks>>

(* The queues are taken as they are.                                          *)
SwapQueues(p) ==
  /\ poll[p].pc = "read"
  /\ poll' = [poll EXCEPT ![p] =
                [@ EXCEPT !.pc = "work", !.sockets = poll[p].sockets \cup poll[p].newSockets, !.newSockets = {},
                          !.invoke = poll[p].callbacks, !.callbacks = <<>>,
                          !.pending = poll[p].transfers, !.transfers = <<>>]]
  /\ UNCHANGED <<open, hungUp, done, tasks>>

(* A callback is run; that of an arrival inserts the socket.                  *)
Invoke(p) ==
  /\ poll[p].pc = "work" /\ poll[p].invoke # <<>>
  /\ LET fn == Head(poll[p].invoke)
         rest == [poll[p] EXCEPT !.invoke = Tail(@)]
     IN  \/ /\ fn.type = "task"
            /\ done' = Append(done, [poll |-> p, id |-> fn.id])
            /\ poll' = [poll EXCEPT ![p] = rest]
         \/ /\ fn.type = "arrival"
            /\ poll' = [poll EXCEPT ![p] = QueueSocket(rest, fn.socket)]
            /\ UNCHANGED done
  /\ UNCHANGED <<open, hungUp, tasks>>

(* Mutant: the thread of the new poll is not started. *)
ExecuteUnstarted(polls, t) ==
  [polls EXCEPT ![t.to] = [QueueCallback(@, Arrival(t.socket)) EXCEPT !.transferred = @ \/ t.taken]]

(* SocketDisposition::execute: the new poll is started if need be (a thread   *)
(* that has ended is not), and gets the socket with a callback.               *)
Execute(polls, t) ==
  LET to == polls[t.to]
      running == IF to.started THEN to
                 ELSE [to EXCEPT !.started = TRUE, !.pc = IF Taken[t.to] = NoSocket THEN "poll" ELSE "take"]
  IN  [polls EXCEPT ![t.to] = [QueueCallback(running, Arrival(t.socket)) EXCEPT
                                 !.transferred = to.transferred \/ t.taken]]

(* Mutant: the socket stays in its old poll. *)
ShareSocket(p) ==
  /\ poll[p].pc = "work" /\ poll[p].invoke = <<>> /\ poll[p].pending # <<>>
  /\ poll' = [Execute(poll, Head(poll[p].pending)) EXCEPT ![p].pending = Tail(@)]
  /\ UNCHANGED <<open, hungUp, done, tasks>>

(* SocketPoll::transfer, after the callbacks: a socket that has meanwhile     *)
(* left is not transferred, and nobody is told.                               *)
Transfer(p) ==
  /\ poll[p].pc = "work" /\ poll[p].invoke = <<>> /\ poll[p].pending # <<>>
  /\ LET t == Head(poll[p].pending)
         rest == [poll EXCEPT ![p].pending = Tail(@), ![p].sockets = @ \ {t.socket}]
     IN  poll' = IF t.socket \in poll[p].sockets THEN Execute(rest, t) ELSE rest
  /\ UNCHANGED <<open, hungUp, done, tasks>>

EndOfWork(p) ==
  /\ poll[p].pc = "work" /\ poll[p].invoke = <<>> /\ poll[p].pending = <<>>
  /\ poll' = [poll EXCEPT ![p].pc = "poll"]
  /\ UNCHANGED <<open, hungUp, done, tasks>>

(* handlePoll of a socket whose peer has gone.                                *)
CloseSocket(p, s) ==
  /\ poll[p].pc = "poll" /\ s \in poll[p].sockets \cap hungUp
  /\ open' = open \ {s}
  /\ poll' = [poll EXCEPT ![p].sockets = @ \ {s}]
  /\ UNCHANGED <<hungUp, done, tasks>>

(* The loop ends: removeSockets, and the thread is finished.                  *)
EndThread(p) ==
  /\ poll[p].pc = "poll" /\ poll[p].stop
  /\ open' = open \ (poll[p].sockets \cup poll[p].newSockets)
  /\ poll' = [poll EXCEPT ![p] = [@ EXCEPT !.pc = "end", !.finished = TRUE,
                                           !.sockets = {}, !.newSockets = {}]]
  /\ UNCHANGED <<hungUp, done, tasks>>
-----------------------------------------------------------------------------
ThreadStep(p) ==
  \/ TakeSocket(p) \/ SocketTaken(p) \/ ReadPipe(p) \/ SwapQueues(p) \/ Invoke(p)
  \/ Transfer(p) \/ EndOfWork(p) \/ EndThread(p)
  \/ \E s \in Socket : CloseSocket(p, s)

Next ==
  \/ \E p \in Poll : ThreadStep(p) \/ AddCallback(p) \/ Stop(p)
  \/ \E s \in Socket, from, to \in Poll : TransferSocketTo(s, from, to)
  \/ \E s \in Socket : HangUp(s)

Spec == Init /\ [][Next]_pollVars

(* The system's scheduler runs every thread that can run.                     *)
FairSpec == Spec /\ \A p \in Poll : WF_pollVars(ThreadStep(p))
-----------------------------------------------------------------------------
TypeOK ==
  /\ open \subseteq Socket /\ hungUp \subseteq Socket /\ tasks \in 0..MaxTasks
  /\ \A p \in Poll :
       /\ poll[p].pc \in {"none", "take", "taking", "poll", "read", "work", "end"}
       /\ poll[p].pipe \in BOOLEAN /\ poll[p].sockets \cup poll[p].newSockets \subseteq Socket
       /\ poll[p].started <=> poll[p].pc # "none"
       /\ poll[p].finished <=> poll[p].pc = "end"

(* What waits for a poll that runs has woken it: either the pipe is readable, *)
(* or the thread has read it and is about to take the queues. Only the first  *)
(* of several callers writes to the pipe, and nothing else makes a poll look  *)
(* at its queues, not even the timeout of ppoll.                              *)
NoLostWakeup ==
  \A p \in Poll : IsAlive(p) /\ ~TaskQueuesEmpty(poll[p]) => poll[p].pipe \/ poll[p].pc = "read"

(* Where a socket is owned: in a poll, or in what a poll has yet to take.     *)
Owners(s) ==
  {<<"poll", p>> : p \in {q \in Poll : s \in poll[q].sockets}}
    \cup {<<"new", p>> : p \in {q \in Poll : s \in poll[q].newSockets}}
    \cup {<<"callback", p>> : p \in
            {q \in Poll : \E seq \in {poll[q].callbacks, poll[q].invoke} :
                             \E i \in DOMAIN seq : seq[i] = Arrival(s)}}

(* An open socket is in exactly one poll, or on its way to one, so that one   *)
(* thread handles it (the checks of Socket::assertCorrectThread), and a       *)
(* closed one is in none.                                                     *)
OneOwner ==
  \A s \in Socket :
    IF s \in open THEN \E o \in Owners(s) : Owners(s) = {o} ELSE Owners(s) = {}

(* The callbacks of a poll are run in the order in which they were added, and *)
(* none of them twice.                                                        *)
CallbacksInOrder ==
  \A i, j \in DOMAIN done : i < j /\ done[i].poll = done[j].poll => done[i].id < done[j].id

(* A socket that is handed to a poll ends up served by it, or closed.         *)
Settled(s) == s \notin open \/ \E p \in Poll : IsAlive(p) /\ poll[p].pc = "poll" /\ s \in poll[p].sockets
SocketsSettle == \A s \in Socket : []<>Settled(s)

(* A poll's thread gets the socket that it takes, and polls.                  *)
TakeSocketReturns == \A p \in Poll : (poll[p].pc = "take") ~> (poll[p].pc \in {"poll", "end"})
=============================================================================
