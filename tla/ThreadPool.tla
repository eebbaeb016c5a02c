------------------------------ MODULE ThreadPool -------------------------------
(* The pool that compresses tiles for the Kit (common/ThreadPool.hpp): the    *)
(* caller pushes work, runs it together with the workers and returns; it      *)
(* stops the workers before a fork and starts them again afterwards.          *)
(*                                                                            *)
(* What a thread does under _mutex is one step. A wait on a condition lets    *)
(* the mutex go; a thread is `woken` by a notification, or for no reason at   *)
(* all (Spurious), and goes on once it has the mutex again.                   *)
EXTENDS Integers, FiniteSets

CONSTANTS
  Worker,
  Main,        \* the thread that owns the pool
  MaxWork,     \* pieces of work that are pushed before a run
  Spurious     \* a wait may end without a notification

ASSUME PoolAssumption ==
  /\ IsFiniteSet(Worker) /\ Main \notin Worker
  /\ MaxWork \in Nat \ {0} /\ Spurious \in BOOLEAN

Thread == Worker \cup {Main}

VARIABLES
  pc,          \* where each thread is
  work,        \* _work: pieces that nobody has taken
  owed,        \* pieces that were pushed and are not done
  working,     \* _working: the threads that run a piece (the code counts them)
  running,     \* _running
  shutdown,    \* _shutdown
  useThreads,  \* the local variable of run()
  woken        \* threads that were notified and have not yet got the mutex

vars == <<pc, work, owed, working, running, shutdown, useThreads, woken>>

Init ==
  /\ pc = [t \in Thread |-> IF t = Main THEN "idle" ELSE "begin"]
  /\ work = 0 /\ owed = 0 /\ working = {}
  /\ running = FALSE /\ shutdown = FALSE /\ useThreads = FALSE
  /\ woken = {}

Alive == {t \in Worker : pc[t] # "gone"}
Waiting == {t \in Worker : pc[t] = "wait"}
-----------------------------------------------------------------------------
(* The caller, between runs.                                                  *)

PushWork ==
  /\ pc[Main] = "idle" /\ owed < MaxWork
  /\ work' = work + 1 /\ owed' = owed + 1
  /\ UNCHANGED <<pc, working, running, shutdown, useThreads, woken>>

(* Mutant: the thread is not counted. *)
TakeUncounted(t) ==
  work > 0 /\ work' = work - 1 /\ pc' = [pc EXCEPT ![t] = "fn"] /\ UNCHANGED working

(* runOne takes a piece, and lets the mutex go.                               *)
Take(t) ==
  /\ work > 0
  /\ work' = work - 1
  /\ working' = working \cup {t}
  /\ pc' = [pc EXCEPT ![t] = "fn"]

(* run: an empty pool returns at once.                                        *)
Run ==
  /\ pc[Main] = "idle" /\ work > 0
  /\ running' = TRUE
  /\ useThreads' = (Cardinality(Alive) > 1 /\ work > 1)
  /\ woken' = IF useThreads' THEN woken \cup Waiting ELSE woken
  /\ Take(Main)
  /\ UNCHANGED <<owed, shutdown>>

Return == running' = FALSE /\ pc' = [pc EXCEPT ![Main] = "idle"]

(* The caller's piece is done: the next one, or the wait for _complete, or    *)
(* the end of run.                                                            *)
MainFinishesOne ==
  /\ pc[Main] = "fn"
  /\ owed' = owed - 1
  /\ \/ /\ work > 0
        /\ Take(Main)
        /\ UNCHANGED running
     \/ /\ work = 0
        /\ working' = working \ {Main}
        /\ IF useThreads /\ working' # {}
           THEN pc' = [pc EXCEPT ![Main] = "complete"] /\ UNCHANGED running
           ELSE Return
        /\ UNCHANGED work
  /\ UNCHANGED <<shutdown, useThreads, woken>>

(* _complete.wait with its predicate.                                         *)
MainWakes ==
  /\ pc[Main] = "complete" /\ Main \in woken
  /\ woken' = woken \ {Main}
  /\ IF working = {} /\ work = 0 THEN Return ELSE UNCHANGED <<pc, running>>
  /\ UNCHANGED <<work, owed, working, shutdown, useThreads>>

(* Document::joinThreads: stop tells the workers, then joins them.            *)
Stop ==
  /\ pc[Main] = "idle"
  /\ shutdown' = TRUE
  /\ woken' = woken \cup Waiting
  /\ pc' = [pc EXCEPT ![Main] = "join"]
  /\ UNCHANGED <<work, owed, working, running, useThreads>>

Joined ==
  /\ pc[Main] = "join" /\ Alive = {}
  /\ pc' = [pc EXCEPT ![Main] = "stopped"]
  /\ UNCHANGED <<work, owed, working, running, shutdown, useThreads, woken>>

(* Document::startThreads.                                                    *)
Start ==
  /\ pc[Main] = "stopped"
  /\ shutdown' = FALSE
  /\ pc' = [t \in Thread |-> IF t = Main THEN "idle" ELSE "begin"]
  /\ UNCHANGED <<work, owed, working, running, useThreads, woken>>
-----------------------------------------------------------------------------
(* ThreadPool::work.                                                          *)

Goto(t, where) == pc' = [pc EXCEPT ![t] = where] /\ UNCHANGED <<work, working>>

(* The inner loop has ended, or the thread has just begun.                    *)
WaitOrLeave(t) == Goto(t, IF shutdown THEN "gone" ELSE "wait")

MayTake == ~shutdown /\ work > 0 /\ running

Begin(t) ==
  /\ pc[t] = "begin"
  /\ WaitOrLeave(t)
  /\ UNCHANGED <<owed, running, shutdown, useThreads, woken>>

Wakes(t) ==
  /\ pc[t] = "wait" /\ t \in woken
  /\ woken' = woken \ {t}
  /\ IF MayTake THEN Take(t) ELSE WaitOrLeave(t)
  /\ UNCHANGED <<owed, running, shutdown, useThreads>>

(* The end of runOne: the last one to finish notifies _complete.              *)
FinishesOne(t) ==
  /\ pc[t] = "fn"
  /\ owed' = owed - 1
  /\ woken' = IF work = 0 /\ working = {t} /\ pc[Main] = "complete" THEN woken \cup {Main} ELSE woken
  /\ \/ MayTake /\ Take(t)
     \/ /\ ~MayTake
        /\ pc' = [pc EXCEPT ![t] = IF shutdown THEN "gone" ELSE "wait"]
        /\ working' = working \ {t}
        /\ UNCHANGED work
  /\ UNCHANGED <<running, shutdown, useThreads>>

WakesForNoReason(t) ==
  /\ Spurious
  /\ pc[t] \in {"wait", "complete"}
  /\ woken' = woken \cup {t}
  /\ UNCHANGED <<pc, work, owed, working, running, shutdown, useThreads>>
-----------------------------------------------------------------------------
MainStep == Run \/ MainFinishesOne \/ MainWakes \/ Joined \/ Start
WorkerStep(t) == Begin(t) \/ Wakes(t) \/ FinishesOne(t)

Next ==
  \/ PushWork \/ Stop \/ MainStep
  \/ \E t \in Worker : WorkerStep(t)
  \/ \E t \in Thread : WakesForNoReason(t)

Spec == Init /\ [][Next]_vars

(* The system's scheduler runs every thread that can run.                     *)
FairSpec ==
  /\ Spec
  /\ WF_vars(MainFinishesOne) /\ WF_vars(MainWakes) /\ WF_vars(Joined)
  /\ \A t \in Worker : WF_vars(WorkerStep(t))
-----------------------------------------------------------------------------
TypeOK ==
  /\ pc \in [Thread -> {"idle", "begin", "wait", "fn", "complete", "join", "stopped", "gone"}]
  /\ work \in 0..MaxWork /\ owed \in 0..MaxWork
  /\ working = {t \in Thread : pc[t] = "fn"}
  /\ running \in BOOLEAN /\ shutdown \in BOOLEAN /\ useThreads \in BOOLEAN
  /\ woken \subseteq Thread

(* run() returns only when all that was pushed is done, and no worker touches *)
(* a tile outside of run(): "all operations must complete by the time we      *)
(* return to the poll" (kit/Kit.hpp), and the assertions of stop, start,      *)
(* pushWork and run.                                                          *)
RunIsComplete ==
  pc[Main] \in {"idle", "join", "stopped"} => working = {} /\ owed = work /\ ~running

(* A run ends, and so does the stop before a fork: no wake-up is lost.        *)
RunEnds == (pc[Main] \in {"fn", "complete"}) ~> (pc[Main] = "idle")
StopEnds == (pc[Main] = "join") ~> (pc[Main] # "join")
=============================================================================
