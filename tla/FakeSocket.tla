------------------------------ MODULE FakeSocket ------------------------------
(* The sockets of the mobile builds (net/FakeSocket.cpp): pairs of ends in    *)
(* one process, with listen, connect, accept, poll, read, write, shutdown and *)
(* close, all under one mutex and one condition variable.                     *)
(*                                                                            *)
(* A call is one step, except for those that wait: a waiting thread is asleep *)
(* until somebody notifies the condition, its time is over, or for no reason. *)
(* End e of pair i is the descriptor 2 * i + e; a call that only returns an   *)
(* error changes nothing and is left out. Threads use the ends that they have *)
(* created or accepted.                                                       *)
EXTENDS Integers, Sequences

CONSTANTS
  User,         \* the threads
  Server,       \* the thread that listens
  MaxPairs,     \* pairs that are ever allocated
  MaxRecords    \* records that are ever written

FakeAssumption ==
  Server \in User /\ MaxPairs \in Nat \ {0} /\ MaxRecords \in Nat

End == {0, 1}
Peer(e) == 1 - e
None == 0       \* no pair

VARIABLES
  fds,      \* the pairs
  call,     \* the call each thread is in
  owner,    \* the thread that uses an end
  written   \* records that were written

fakeVars == <<fds, call, owner, written>>

Idle == [op |-> "none", pair |-> None, asleep |-> FALSE]

NewPair(open1) ==
  [open |-> [e \in End |-> e = 0 \/ open1],
   listening |-> FALSE, connecting |-> None,
   shutdown |-> [e \in End |-> FALSE], readable |-> [e \in End |-> FALSE],
   eofDetected |-> [e \in End |-> FALSE],
   buffer |-> [e \in End |-> 0],       \* records to be read
   fresh |-> ~open1]       \* never connected: the callers connect such a socket once

Init ==
  /\ fds = <<>> /\ owner = <<>> /\ written = 0
  /\ call = [t \in User |-> Idle]

Pair == DOMAIN fds
CanCall(t) == call[t].op = "none"
Owns(t, i, e) == i \in Pair /\ fds[i].open[e] /\ owner[i][e] = t

NotifyAll == [t \in User |-> [call[t] EXCEPT !.asleep = FALSE]]
-----------------------------------------------------------------------------
(* What the waiting calls wait for.                                           *)

(* checkForPoll() for POLLIN and for POLLHUP, which is always reported; a     *)
(* caller that also asks for POLLOUT waits only for a peer that is not there. *)
PendingAccept(i) == fds[i].listening /\ fds[i].connecting # None

PollReady(t) ==
  \E i \in Pair, e \in End :
    /\ Owns(t, i, e)
    /\ \/ fds[i].readable[e]
       \/ e = 0 /\ PendingAccept(i)
       \/ fds[i].shutdown[Peer(e)]

(* An end whose peer has gone counts once.                                    *)
UnseenEof(i, e) ==
  /\ fds[i].shutdown[Peer(e)] \/ ~fds[i].open[Peer(e)]
  /\ fds[i].readable[e] /\ ~fds[i].eofDetected[e]

HasRecordOrConnection(i, e) ==
  (e = 0 /\ PendingAccept(i)) \/ fds[i].buffer[e] > 0

HasAnyPendingActivityGlobal ==
  \E i \in Pair, e \in End :
    fds[i].open[e] /\ (HasRecordOrConnection(i, e) \/ UnseenEof(i, e))

(* The first end that counts, in the order of the descriptors, stops the scan;*)
(* when it counts for its end of file, that is marked as seen.                *)
Counts(i, e) == fds[i].open[e] /\ (HasRecordOrConnection(i, e) \/ UnseenEof(i, e))
Before(i, e, j, f) == i < j \/ (i = j /\ e < f)
FirstThatCounts(i, e) ==
  Counts(i, e) /\ \A j \in Pair, f \in End : Before(j, f, i, e) => ~Counts(j, f)

AfterScan ==
  [i \in Pair |->
    [fds[i] EXCEPT !.eofDetected =
      [e \in End |-> @[e] \/ (FirstThatCounts(i, e) /\ ~HasRecordOrConnection(i, e))]]]

WaitIsOver(t) ==
  CASE call[t].op = "connect" -> fds[call[t].pair].open[1]
    [] call[t].op = "accept"  -> fds[call[t].pair].connecting # None
    [] call[t].op = "poll"    -> PollReady(t)
    [] call[t].op = "waitAny" -> HasAnyPendingActivityGlobal
    [] OTHER -> FALSE
-----------------------------------------------------------------------------
(* Sockets, pipes and connections.                                            *)

Allocate(t, both) ==
  /\ CanCall(t) /\ Len(fds) < MaxPairs
  /\ fds' = Append(fds, NewPair(both))
  /\ owner' = Append(owner, [e \in End |-> t])
  /\ UNCHANGED <<call, written>>

Socket(t) == Allocate(t, FALSE)
Pipe2(t) == Allocate(t, TRUE)

Listen(t, i) ==
  /\ CanCall(t) /\ t = Server /\ Owns(t, i, 0)
  /\ ~fds[i].open[1] /\ ~fds[i].listening /\ fds[i].fresh
  /\ fds' = [fds EXCEPT ![i].listening = TRUE, ![i].connecting = None, ![i].fresh = FALSE]
  /\ UNCHANGED <<call, owner, written>>

(* Only one connection can be pending; the caller waits until it is accepted. *)
Connect(t, i, j) ==
  /\ CanCall(t) /\ t # Server /\ Owns(t, i, 0) /\ fds[i].fresh
  /\ j \in Pair /\ fds[j].listening /\ fds[j].connecting = None
  /\ fds' = [fds EXCEPT ![j].connecting = i, ![i].fresh = FALSE]
  /\ call' = [NotifyAll EXCEPT ![t] =
               [op |-> "connect", pair |-> i, asleep |-> TRUE]]
  /\ UNCHANGED <<owner, written>>

TakeConnection(t, i) ==
  /\ fds' = [fds EXCEPT ![i].connecting = None, ![fds[i].connecting].open[1] = TRUE]
  /\ owner' = [owner EXCEPT ![fds[i].connecting][1] = t]
  /\ call' = [NotifyAll EXCEPT ![t] = Idle]

Accept4(t, i) ==
  /\ CanCall(t) /\ Owns(t, i, 0) /\ fds[i].listening
  /\ \/ PendingAccept(i) /\ TakeConnection(t, i)
     \/ /\ ~PendingAccept(i)
        /\ call' = [call EXCEPT ![t] =
                     [op |-> "accept", pair |-> i, asleep |-> TRUE]]
        /\ UNCHANGED <<fds, owner>>
  /\ UNCHANGED written
-----------------------------------------------------------------------------
(* Data.                                                                      *)

(* A whole record, or the end of the stream; an end whose peer has gone stays *)
(* readable.                                                                  *)
Read(t, i, e) ==
  /\ CanCall(t) /\ Owns(t, i, e) /\ ~fds[i].shutdown[e] /\ fds[i].readable[e]
  /\ LET rest == IF fds[i].buffer[e] = 0 THEN 0 ELSE fds[i].buffer[e] - 1
         gone == ~fds[i].open[Peer(e)] \/ fds[i].shutdown[Peer(e)]
     IN fds' = [fds EXCEPT ![i].buffer[e] = rest,
                           ![i].readable[e] = gone \/ rest > 0]
  /\ UNCHANGED <<call, owner, written>>

(* Mutant: waiting threads are not notified. *)
WriteSilently(t, i, e) ==
  /\ CanCall(t) /\ Owns(t, i, e) /\ ~fds[i].shutdown[e] /\ written < MaxRecords
  /\ fds' = [fds EXCEPT ![i].buffer[Peer(e)] = @ + 1,
                        ![i].readable[Peer(e)] = TRUE]
  /\ written' = written + 1
  /\ UNCHANGED <<call, owner>>

(* The peer may be closed: its buffer grows all the same.                     *)
Write(t, i, e) ==
  /\ CanCall(t) /\ Owns(t, i, e) /\ ~fds[i].shutdown[e] /\ written < MaxRecords
  /\ fds' = [fds EXCEPT ![i].buffer[Peer(e)] = @ + 1,
                        ![i].readable[Peer(e)] = TRUE]
  /\ written' = written + 1
  /\ call' = NotifyAll
  /\ UNCHANGED owner

Shutdown(t, i, e) ==
  /\ CanCall(t) /\ Owns(t, i, e) /\ fds[i].open[Peer(e)] /\ ~fds[i].shutdown[e]
  /\ fds' = [fds EXCEPT ![i].shutdown[e] = TRUE, ![i].readable[Peer(e)] = TRUE]
  /\ call' = NotifyAll
  /\ UNCHANGED <<owner, written>>

Close(t, i, e) ==
  /\ CanCall(t) /\ Owns(t, i, e)
  /\ fds' = [fds EXCEPT ![i].open[e] = FALSE, ![i].buffer[e] = 0,
                        ![i].readable[Peer(e)] = TRUE]
  /\ call' = NotifyAll
  /\ UNCHANGED <<owner, written>>
-----------------------------------------------------------------------------
(* Waiting for any of them.                                                   *)

(* With or without a time limit: a wait may always last.                       *)
Wait(t, op) ==
  call' = [call EXCEPT ![t] = [op |-> op, pair |-> None, asleep |-> TRUE]]

Poll(t) ==
  /\ CanCall(t) /\ ~PollReady(t)
  /\ Wait(t, "poll")
  /\ UNCHANGED <<fds, owner, written>>

WaitAny(t) ==
  /\ CanCall(t)
  /\ \/ HasAnyPendingActivityGlobal /\ fds' = AfterScan /\ fds' # fds /\ UNCHANGED call
     \/ ~HasAnyPendingActivityGlobal /\ Wait(t, "waitAny") /\ UNCHANGED fds
  /\ UNCHANGED <<owner, written>>

(* A thread that is awake has the mutex again: it looks whether what it waits *)
(* for has come, and goes back to sleep otherwise.                            *)
GoOn(t) ==
  /\ ~CanCall(t) /\ ~call[t].asleep
  /\ \/ ~WaitIsOver(t) /\ call' = [call EXCEPT ![t].asleep = TRUE] /\ UNCHANGED <<fds, owner>>
     \/ /\ WaitIsOver(t) /\ call[t].op = "accept"
        /\ TakeConnection(t, call[t].pair)
     \/ /\ WaitIsOver(t) /\ call[t].op # "accept"
        /\ fds' = IF call[t].op = "waitAny" THEN AfterScan ELSE fds
        /\ call' = [call EXCEPT ![t] = Idle] /\ UNCHANGED owner
  /\ UNCHANGED written

TimeOut(t) ==
  /\ call[t].asleep /\ call[t].op \in {"poll", "waitAny"}
  /\ call' = [call EXCEPT ![t] = Idle]
  /\ UNCHANGED <<fds, owner, written>>

SpuriousWakeup(t) ==
  /\ call[t].asleep
  /\ call' = [call EXCEPT ![t].asleep = FALSE]
  /\ UNCHANGED <<fds, owner, written>>
-----------------------------------------------------------------------------
Next ==
  \E t \in User :
    \/ Socket(t) \/ Pipe2(t)
    \/ \E i \in Pair : Listen(t, i) \/ Accept4(t, i)
    \/ \E i, j \in Pair : Connect(t, i, j)
    \/ \E i \in Pair, e \in End :
         Read(t, i, e) \/ Write(t, i, e) \/ Shutdown(t, i, e) \/ Close(t, i, e)
    \/ Poll(t) \/ WaitAny(t)
    \/ GoOn(t) \/ TimeOut(t) \/ SpuriousWakeup(t)

(* The scheduler runs a thread that can run; nobody has to make a call.       *)
Fairness == \A t \in User : WF_fakeVars(GoOn(t))
Spec == Init /\ [][Next]_fakeVars
FairSpec == Spec /\ Fairness
-----------------------------------------------------------------------------
(* A thread never sleeps on what it waits for: every call that can make the   *)
(* condition of a wait true notifies it, the end of a stream that one scan of *)
(* fakeSocketWaitAny() has marked as seen included.                           *)
NobodySleepsOnWork == \A t \in User : call[t].asleep => ~WaitIsOver(t)

(* connect() returns once its connection has been accepted, unless the other  *)
(* side closes it before the connecting thread looks, which it then waits for *)
(* in vain.                                                                   *)
Accepted(t) == call[t].op = "connect" /\ fds[call[t].pair].open[1]
ConnectReturns == \A t \in User : Accepted(t) ~> ~Accepted(t)
=============================================================================
