----------------------------- MODULE ThreadProofs ------------------------------
(* What is proved of threads that sleep until another one wakes them: the     *)
(* pool of the Kit, the polls and the sockets of the mobile builds; and of    *)
(* the two ends of a WebSocket, whose polls close them when all is written.   *)
(* Each has its own inductive invariant.                                      *)
EXTENDS Threads, Connections, Induction, FiniteSetTheorems

(* A run of the pool is complete when it returns, for any number of threads   *)
(* and pieces of work, with the exception that ThreadPool.tla allows: a pool  *)
(* of a single worker does not expect help from it (useThreads is FALSE) and  *)
(* does not wait for it either, so that a worker that wakes up for no reason  *)
(* would be left behind. That is the hypothesis of the theorem.               *)
(*                                                                            *)
(* RunIsComplete is not inductive: that nobody works when run() returns       *)
(* follows from the wait on _complete when the workers were called, and from  *)
(* there being no worker awake when they were not (Alone).                    *)
InRun == pc[Main] \in {"fn", "complete"}

Places ==
  /\ pc[Main] \in {"idle", "fn", "complete", "join", "stopped"}
  /\ \A w \in Worker : pc[w] \in {"begin", "wait", "fn", "gone"}

(* What was pushed is either waiting or in the hands of one thread.           *)
Counts == owed = work + Cardinality(working)

(* _running and _shutdown tell where the caller is.                           *)
Phases ==
  /\ running <=> InRun
  /\ shutdown <=> (pc[Main] \in {"join", "stopped"})
  /\ ~InRun => \A w \in Worker : pc[w] # "fn"
  /\ ~shutdown => \A w \in Worker : pc[w] # "gone"
  /\ pc[Main] = "stopped" => \A w \in Worker : pc[w] = "gone"
  /\ pc[Main] = "complete" => useThreads

(* Only a waiting worker is woken, and in a run without the workers there is  *)
(* nobody who could take a piece.                                             *)
Alone ==
  /\ \A w \in Worker : w \in woken => pc[w] = "wait"
  /\ pc[Main] = "fn" /\ ~useThreads =>
       /\ \A w \in Worker : pc[w] # "fn" /\ (work = 0 \/ w \notin woken)
       /\ work = 0 \/ ~Spurious \/ Worker = {}
  /\ Cardinality(Worker) <= 1 /\ ~Spurious /\ ~shutdown => \A w \in Worker : w \notin woken

PoolInv == TypeOK /\ Places /\ Counts /\ Phases /\ Alone
-----------------------------------------------------------------------------
(* The threads are finitely many, and so are those that work.                 *)
LEMMA Threads ==
  /\ IsFiniteSet(Thread) /\ Main \in Thread /\ Main \notin Worker
  /\ \A t \in Worker : t \in Thread /\ t # Main
  /\ \A S \in SUBSET Thread : IsFiniteSet(S) /\ Cardinality(S) \in Nat
<1>1. IsFiniteSet(Worker \cup {Main}) BY PoolAssumption, FS_AddElement
<1>2. ASSUME NEW S \in SUBSET Thread PROVE IsFiniteSet(S) /\ Cardinality(S) \in Nat
  <2>1. IsFiniteSet(S) BY <1>1, FS_Subset DEF Thread
  <2> QED BY <2>1, FS_CardinalityType
<1> QED BY <1>1, <1>2, PoolAssumption DEF Thread

(* runOne: a thread that starts a piece becomes one of those that work.       *)
LEMMA TakeCounts ==
  ASSUME PoolInv, NEW t \in Thread, Take(t)
  PROVE  /\ work \in Nat /\ work > 0 /\ work' = work - 1 /\ work' \in 0..MaxWork
         /\ pc' = [pc EXCEPT ![t] = "fn"]
         /\ working' = {u \in Thread : pc'[u] = "fn"}
         /\ Cardinality(working') =
              IF pc[t] = "fn" THEN Cardinality(working) ELSE Cardinality(working) + 1
<1>1. working \in SUBSET Thread /\ IsFiniteSet(working) BY Threads DEF PoolInv, TypeOK
<1>2. Cardinality(working \cup {t}) =
        IF t \in working THEN Cardinality(working) ELSE Cardinality(working) + 1
  BY <1>1, FS_AddElement
<1>3. t \in working <=> pc[t] = "fn" BY DEF PoolInv, TypeOK
<1>4. working' = {u \in Thread : pc'[u] = "fn"} BY DEF Take, PoolInv, TypeOK
<1> QED BY <1>2, <1>3, <1>4, PoolAssumption DEF Take, PoolInv, TypeOK

(* A thread that has no further piece is no longer one of them.               *)
LEMMA LeaveCounts ==
  ASSUME PoolInv, NEW t \in Thread, pc[t] = "fn", NEW where, where # "fn",
         pc' = [pc EXCEPT ![t] = where], working' = working \ {t}
  PROVE  /\ working' = {u \in Thread : pc'[u] = "fn"}
         /\ Cardinality(working') = Cardinality(working) - 1
         /\ Cardinality(working') \in Nat
<1>1. working \in SUBSET Thread /\ IsFiniteSet(working) /\ t \in working
  BY Threads DEF PoolInv, TypeOK
<1>2. working' \in SUBSET Thread BY <1>1
<1>3. Cardinality(working') = Cardinality(working) - 1 BY <1>1, FS_RemoveElement
<1>4. working' = {u \in Thread : pc'[u] = "fn"} BY DEF PoolInv, TypeOK
<1> QED BY <1>2, <1>3, <1>4, Threads

(* As long as a thread works, something is owed.                              *)
LEMMA WorkIsOwed ==
  ASSUME PoolInv, NEW t \in Thread, pc[t] = "fn"
  PROVE  owed - 1 \in 0..MaxWork /\ Cardinality(working) \in Nat \ {0}
<1>1. working \in SUBSET Thread /\ IsFiniteSet(working) /\ t \in working
  BY Threads DEF PoolInv, TypeOK
<1>2. Cardinality(working) \in Nat /\ Cardinality(working) # 0
  BY <1>1, Threads, FS_EmptySet
<1> QED BY <1>2, PoolAssumption DEF PoolInv, TypeOK, Counts
-----------------------------------------------------------------------------
(* The first state.                                                           *)
LEMMA InitInv == Init => PoolInv
<1> SUFFICES ASSUME Init PROVE PoolInv OBVIOUS
<1>1. TypeOK
  <2>1. \A t \in Thread : pc[t] \in {"idle", "begin"} BY DEF Init
  <2>2. {t \in Thread : pc[t] = "fn"} = {} BY <2>1
  <2>3. pc \in [Thread -> {"idle", "begin", "wait", "fn", "complete", "join", "stopped", "gone"}]
    BY DEF Init
  <2>4. working = {t \in Thread : pc[t] = "fn"} BY <2>2 DEF Init
  <2>5. work \in 0..MaxWork /\ owed \in 0..MaxWork /\ woken \subseteq Thread
    BY PoolAssumption DEF Init
  <2>6. running \in BOOLEAN /\ shutdown \in BOOLEAN /\ useThreads \in BOOLEAN
    BY Zenon DEF Init
  <2> QED BY <2>3, <2>4, <2>5, <2>6 DEF TypeOK
<1>2. Counts BY FS_EmptySet DEF Init, Counts
<1>3. Places /\ Phases /\ Alone BY Threads DEF Init, Places, Phases, Alone, InRun
<1> QED BY <1>1, <1>2, <1>3 DEF PoolInv

(* The caller pushes work between runs.                                       *)
LEMMA PushWorkInv == ASSUME PoolInv, PushWork PROVE PoolInv'
<1>1. TypeOK' /\ Counts'
  <2>1. Cardinality(working) \in Nat BY Threads DEF PoolInv, TypeOK
  <2> QED BY <2>1, PoolAssumption DEF PushWork, PoolInv, TypeOK, Counts
<1>2. Places' /\ Phases' /\ Alone' BY DEF PushWork, PoolInv, Places, Phases, Alone, InRun
<1> QED BY <1>1, <1>2 DEF PoolInv

(* The start of a run: without useThreads, the caller takes the only piece,   *)
(* or there is no worker that could be awake.                                 *)
LEMMA RunInv ==
  ASSUME PoolInv, Run, Cardinality(Worker) # 1 \/ ~Spurious
  PROVE  PoolInv'
<1> USE Threads
<1>1. Take(Main) /\ pc[Main] = "idle" BY DEF Run
<1>2. /\ work' = work - 1 /\ work \in Nat /\ work > 0 /\ work' \in 0..MaxWork
      /\ working' = {u \in Thread : pc'[u] = "fn"}
      /\ Cardinality(working') = Cardinality(working) + 1
      /\ pc' = [pc EXCEPT ![Main] = "fn"]
  BY <1>1, TakeCounts
<1>3. TypeOK' BY <1>2 DEF Run, PoolInv, TypeOK, Waiting
<1>4. Counts'
  <2>1. Cardinality(working) \in Nat BY DEF PoolInv, TypeOK
  <2> QED BY <1>2, <2>1 DEF Run, PoolInv, Counts, TypeOK
<1>5. pc'[Main] = "fn" /\ \A w \in Worker : pc'[w] = pc[w]
  BY <1>2 DEF PoolInv, TypeOK
<1>6. Places' /\ Phases' BY <1>1, <1>5 DEF Run, PoolInv, Places, Phases, InRun
<1>7. \A w \in Worker : pc[w] \notin {"fn", "gone"}
  BY <1>1 DEF PoolInv, Phases, Places, InRun
<1>8. \A w \in Worker : w \in woken' => pc'[w] = "wait"
  BY <1>5 DEF Run, PoolInv, Alone, Waiting
<1>9. ASSUME ~useThreads', work' # 0
      PROVE  (~Spurious \/ Worker = {}) /\ \A w \in Worker : w \notin woken'
  <2>1. Alive = Worker BY <1>7 DEF Alive
  <2>2. Cardinality(Worker) \in Nat /\ IsFiniteSet(Worker) BY DEF Thread
  <2>3. ~(Cardinality(Alive) > 1 /\ work > 1) BY <1>9, Zenon DEF Run
  <2>6. Cardinality(Worker) <= 1 BY <1>2, <1>9, <2>1, <2>2, <2>3
  <2>7. woken' = woken BY <1>9 DEF Run
  <2>4. CASE Worker = {} BY <2>4
  <2>5. CASE Worker # {}
    <3>1. Cardinality(Worker) = 1 BY <2>2, <2>6, <2>5, FS_EmptySet
    <3>2. ~Spurious /\ ~shutdown BY <1>1, <3>1 DEF PoolInv, Phases
    <3> QED BY <3>2, <2>6, <2>7 DEF PoolInv, Alone
  <2> QED BY <2>4, <2>5
<1>10. Cardinality(Worker) <= 1 /\ ~Spurious /\ ~shutdown' => \A w \in Worker : w \notin woken'
  <2>1. Alive = Worker BY <1>7 DEF Alive
  <2>2. Cardinality(Worker) \in Nat BY DEF Thread
  <2>3. Cardinality(Worker) <= 1 => ~(Cardinality(Alive) > 1 /\ work > 1) BY <2>1, <2>2
  <2>4. Cardinality(Worker) <= 1 => ~useThreads' BY <2>3, Zenon DEF Run
  <2>5. ~useThreads' => woken' = woken BY DEF Run
  <2> QED BY <2>4, <2>5 DEF Run, PoolInv, Alone
<1>11. Alone' BY <1>5, <1>7, <1>8, <1>9, <1>10 DEF Alone
<1> QED BY <1>3, <1>4, <1>6, <1>11 DEF PoolInv

(* The caller's piece is done.                                                *)
LEMMA MainFinishesOneInv == ASSUME PoolInv, MainFinishesOne PROVE PoolInv'
<1> USE Threads
<1>1. pc[Main] = "fn" BY DEF MainFinishesOne
<1>2. owed - 1 \in 0..MaxWork /\ Cardinality(working) \in Nat BY <1>1, WorkIsOwed
<1>3. CASE work > 0 /\ Take(Main) /\ UNCHANGED running
  <2>1. /\ work' = work - 1 /\ work \in Nat /\ work > 0 /\ work' \in 0..MaxWork
        /\ working' = {u \in Thread : pc'[u] = "fn"}
        /\ Cardinality(working') = Cardinality(working)
        /\ pc' = [pc EXCEPT ![Main] = "fn"]
    BY <1>1, <1>3, TakeCounts
  <2>2. pc' = pc BY <2>1, <1>1 DEF PoolInv, TypeOK
  <2>3. TypeOK' BY <2>1, <2>2, <1>2 DEF MainFinishesOne, PoolInv, TypeOK
  <2>4. Counts' BY <2>1, <1>2 DEF MainFinishesOne, PoolInv, Counts, TypeOK
  <2>5. Places' /\ Phases' /\ Alone'
    BY <2>1, <2>2, <1>3 DEF MainFinishesOne, PoolInv, Places, Phases, Alone, InRun
  <2> QED BY <2>3, <2>4, <2>5 DEF PoolInv
<1>4. CASE /\ work = 0 /\ working' = working \ {Main} /\ UNCHANGED work
           /\ useThreads /\ working' # {}
           /\ pc' = [pc EXCEPT ![Main] = "complete"] /\ UNCHANGED running
  <2>1. /\ working' = {u \in Thread : pc'[u] = "fn"}
        /\ Cardinality(working') = Cardinality(working) - 1
    BY <1>1, <1>4, LeaveCounts
  <2>2. pc'[Main] = "complete" /\ \A w \in Worker : pc'[w] = pc[w]
    BY <1>4 DEF PoolInv, TypeOK
  <2>3. TypeOK' BY <2>1, <1>2, <1>4 DEF MainFinishesOne, PoolInv, TypeOK
  <2>4. Counts' BY <2>1, <1>2, <1>4 DEF MainFinishesOne, PoolInv, Counts, TypeOK
  <2>5. Places' /\ Phases' /\ Alone'
    BY <1>1, <2>2, <1>4 DEF MainFinishesOne, PoolInv, Places, Phases, Alone, InRun
  <2> QED BY <2>3, <2>4, <2>5 DEF PoolInv
<1>5. CASE /\ work = 0 /\ working' = working \ {Main} /\ UNCHANGED work
           /\ ~(useThreads /\ working' # {}) /\ Return
  <2>1. pc' = [pc EXCEPT ![Main] = "idle"] /\ running' = FALSE BY <1>5 DEF Return
  <2>2. /\ working' = {u \in Thread : pc'[u] = "fn"}
        /\ Cardinality(working') = Cardinality(working) - 1
    BY <1>1, <1>5, <2>1, LeaveCounts
  <2>3. pc'[Main] = "idle" /\ \A w \in Worker : pc'[w] = pc[w]
    BY <2>1 DEF PoolInv, TypeOK
  <2>4. \A w \in Worker : pc[w] # "fn"
    BY <1>1, <1>5, <2>2, <2>3 DEF PoolInv, Alone
  <2>5. TypeOK' BY <2>1, <2>2, <1>2, <1>5 DEF MainFinishesOne, PoolInv, TypeOK
  <2>6. Counts' BY <2>2, <1>2, <1>5 DEF MainFinishesOne, PoolInv, Counts, TypeOK
  <2>7. Places' /\ Phases' /\ Alone'
    BY <1>1, <2>1, <2>3, <2>4, <1>5 DEF MainFinishesOne, PoolInv, Places, Phases, Alone, InRun
  <2> QED BY <2>5, <2>6, <2>7 DEF PoolInv
<1> QED BY <1>3, <1>4, <1>5 DEF MainFinishesOne

(* The caller wakes in its wait for the workers, and looks whether they are   *)
(* done.                                                                      *)
LEMMA MainWakesInv == ASSUME PoolInv, MainWakes PROVE PoolInv'
<1> USE Threads
<1>1. \A w \in Worker : w \in woken' <=> w \in woken BY DEF MainWakes
<1>2. CASE working = {} /\ work = 0 /\ Return
  <2>1. pc' = [pc EXCEPT ![Main] = "idle"] /\ running' = FALSE /\ pc[Main] = "complete"
    BY <1>2 DEF Return, MainWakes
  <2>2. pc'[Main] = "idle" /\ \A w \in Worker : pc'[w] = pc[w] /\ pc[w] # "fn"
    BY <1>2, <2>1 DEF PoolInv, TypeOK
  <2>3. working' = {u \in Thread : pc'[u] = "fn"} BY <2>1 DEF MainWakes, PoolInv, TypeOK
  <2>4. TypeOK' BY <2>1, <2>3 DEF MainWakes, PoolInv, TypeOK
  <2>5. Counts' BY DEF MainWakes, PoolInv, Counts
  <2>6. Places' /\ Phases' /\ Alone'
    BY <1>1, <2>1, <2>2 DEF MainWakes, PoolInv, Places, Phases, Alone, InRun
  <2> QED BY <2>4, <2>5, <2>6 DEF PoolInv
<1>3. CASE UNCHANGED <<pc, running>>
  <2>1. TypeOK' BY <1>3 DEF MainWakes, PoolInv, TypeOK
  <2>2. Counts' BY DEF MainWakes, PoolInv, Counts
  <2>3. Places' /\ Phases' /\ Alone'
    BY <1>1, <1>3 DEF MainWakes, PoolInv, Places, Phases, Alone, InRun
  <2> QED BY <2>1, <2>2, <2>3 DEF PoolInv
<1> QED BY <1>2, <1>3 DEF MainWakes

(* The workers are told to stop, ...                                          *)
LEMMA StopInv == ASSUME PoolInv, Stop PROVE PoolInv'
<1> USE Threads
<1>1. pc'[Main] = "join" /\ pc[Main] = "idle" /\ \A w \in Worker : pc'[w] = pc[w]
  BY DEF Stop, PoolInv, TypeOK
<1>2. TypeOK' BY DEF Stop, PoolInv, TypeOK, Waiting
<1>3. Counts' BY DEF Stop, PoolInv, Counts
<1>4. Places' /\ Phases' BY <1>1 DEF Stop, PoolInv, Places, Phases, InRun
<1>5. Alone' BY <1>1 DEF Stop, PoolInv, Alone, Waiting
<1> QED BY <1>2, <1>3, <1>4, <1>5 DEF PoolInv

(* ... joined, ...                                                            *)
LEMMA JoinedInv == ASSUME PoolInv, Joined PROVE PoolInv'
<1> USE Threads
<1>1. pc'[Main] = "stopped" /\ pc[Main] = "join" /\ \A w \in Worker : pc'[w] = pc[w]
  BY DEF Joined, PoolInv, TypeOK
<1>2. TypeOK' BY DEF Joined, PoolInv, TypeOK
<1>3. Counts' BY DEF Joined, PoolInv, Counts
<1>4. \A w \in Worker : pc[w] = "gone" BY DEF Joined, Alive
<1>5. Places' /\ Phases' /\ Alone'
  BY <1>1, <1>4 DEF Joined, PoolInv, Places, Phases, Alone, InRun
<1> QED BY <1>2, <1>3, <1>5 DEF PoolInv

(* ... and started again after the fork. Nobody is woken then, as those who   *)
(* are gone were not.                                                         *)
LEMMA StartInv == ASSUME PoolInv, Start PROVE PoolInv'
<1> USE Threads
<1>1. pc'[Main] = "idle" /\ pc[Main] = "stopped" /\ \A w \in Worker : pc'[w] = "begin"
  BY DEF Start
<1>2. working = {} BY <1>1 DEF PoolInv, Phases, InRun, TypeOK, Thread
<1>3. working' = {u \in Thread : pc'[u] = "fn"} BY <1>1, <1>2 DEF Start, Thread
<1>4. TypeOK' BY <1>3 DEF Start, PoolInv, TypeOK
<1>5. Counts' BY DEF Start, PoolInv, Counts
<1>6. Places' /\ Phases' BY <1>1 DEF Start, PoolInv, Places, Phases, InRun
<1>7. \A w \in Worker : w \notin woken' BY DEF Start, PoolInv, Phases, Alone
<1>8. Alone' BY <1>1, <1>7 DEF Alone
<1> QED BY <1>4, <1>5, <1>6, <1>8 DEF PoolInv
-----------------------------------------------------------------------------
(* A step of a worker leaves the caller where it is; what it becomes is       *)
(* allowed by the phase.                                                      *)
LEMMA WorkerMoves ==
  ASSUME PoolInv, NEW t \in Worker, NEW where \in {"wait", "fn", "gone"},
         pc' = [pc EXCEPT ![t] = where],
         UNCHANGED <<running, shutdown, useThreads>>,
         where = "fn" => running, where = "gone" => shutdown, pc[t] # "gone"
  PROVE  /\ pc'[Main] = pc[Main] /\ \A w \in Worker : pc'[w] = IF w = t THEN where ELSE pc[w]
         /\ Places' /\ Phases'
<1>1. /\ pc'[Main] = pc[Main]
      /\ \A w \in Worker : pc'[w] = IF w = t THEN where ELSE pc[w]
  BY Threads DEF PoolInv, TypeOK
<1>2. Places' BY <1>1 DEF PoolInv, Places
<1>3. ~InRun => where # "fn" BY DEF PoolInv, Phases
<1>4. Phases' BY <1>1, <1>3 DEF PoolInv, Phases, InRun
<1> QED BY <1>1, <1>2, <1>4

(* A worker has started.                                                      *)
LEMMA BeginInv == ASSUME PoolInv, NEW t \in Worker, Begin(t) PROVE PoolInv'
<1> USE Threads
<1> DEFINE where == IF shutdown THEN "gone" ELSE "wait"
<1>1. /\ pc[t] = "begin" /\ pc' = [pc EXCEPT ![t] = where]
      /\ UNCHANGED <<work, working, owed, running, shutdown, useThreads, woken>>
  BY DEF Begin, WaitOrLeave, Goto
<1>2. /\ where \in {"wait", "gone"} /\ (where = "gone" => shutdown)
      /\ where \in {"wait", "fn", "gone"} /\ (where = "fn" => running)
  OBVIOUS
<1> HIDE DEF where
<1>3. UNCHANGED <<running, shutdown, useThreads>> /\ pc[t] # "gone" BY <1>1
<1>7. /\ pc'[Main] = pc[Main] /\ \A w \in Worker : pc'[w] = IF w = t THEN where ELSE pc[w]
      /\ Places' /\ Phases'
  BY <1>1, <1>2, <1>3, WorkerMoves
<1>4. TypeOK' BY <1>1, <1>2 DEF PoolInv, TypeOK
<1>5. Counts' BY <1>1 DEF PoolInv, Counts
<1>6. Alone' BY <1>1, <1>2, <1>7 DEF PoolInv, Alone
<1> QED BY <1>4, <1>5, <1>6, <1>7 DEF PoolInv

(* A worker takes a piece: the caller is in a run that counts on it.          *)
LEMMA WorkerTakes ==
  ASSUME PoolInv, NEW t \in Worker, MayTake, Take(t), pc[t] # "gone", t \in woken \/ pc[t] = "fn",
         UNCHANGED <<running, shutdown, useThreads>>, NEW rest \in SUBSET Thread,
         woken' = rest, \A w \in Worker : w \in rest => w \in woken /\ w # t
  PROVE  Places' /\ Phases' /\ Alone'
<1> USE Threads
<1>1. /\ work' = work - 1 /\ work \in Nat /\ work > 0 /\ pc' = [pc EXCEPT ![t] = "fn"]
  BY TakeCounts
<1>2. /\ pc'[Main] = pc[Main] /\ \A w \in Worker : pc'[w] = IF w = t THEN "fn" ELSE pc[w]
      /\ Places' /\ Phases'
  BY <1>1, WorkerMoves DEF MayTake
<1>3. InRun /\ ~shutdown BY DEF MayTake, PoolInv, Phases
<1>4. ~(pc[Main] = "fn" /\ ~useThreads) BY <1>1 DEF PoolInv, Alone
<1>5. Alone' BY <1>1, <1>2, <1>3, <1>4 DEF PoolInv, Alone
<1> QED BY <1>2, <1>5

(* A worker that was woken looks for a piece.                                 *)
LEMMA WakesInv == ASSUME PoolInv, NEW t \in Worker, Wakes(t) PROVE PoolInv'
<1> USE Threads
<1>1. /\ pc[t] = "wait" /\ t \in woken /\ woken' = woken \ {t}
      /\ UNCHANGED <<owed, running, shutdown, useThreads>>
  BY DEF Wakes
<1>2. CASE MayTake /\ Take(t)
  <2>1. /\ work' = work - 1 /\ work \in Nat /\ work' \in 0..MaxWork
        /\ working' = {u \in Thread : pc'[u] = "fn"} /\ pc' = [pc EXCEPT ![t] = "fn"]
        /\ Cardinality(working') = Cardinality(working) + 1 /\ Cardinality(working) \in Nat
    BY <1>1, <1>2, TakeCounts DEF PoolInv, TypeOK
  <2>2. TypeOK' BY <1>1, <2>1 DEF PoolInv, TypeOK
  <2>3. Counts' BY <1>1, <2>1 DEF PoolInv, Counts, TypeOK
  <2>4. woken' \in SUBSET Thread /\ \A w \in Worker : w \in woken' => w \in woken /\ w # t
    BY <1>1 DEF PoolInv, TypeOK
  <2>5. Places' /\ Phases' /\ Alone' BY <1>1, <1>2, <2>4, WorkerTakes
  <2> QED BY <2>2, <2>3, <2>5 DEF PoolInv
<1>3. CASE ~MayTake /\ WaitOrLeave(t)
  <2> DEFINE where == IF shutdown THEN "gone" ELSE "wait"
  <2>1. pc' = [pc EXCEPT ![t] = where] /\ UNCHANGED <<work, working>>
    BY <1>3 DEF WaitOrLeave, Goto
  <2>2. /\ where \in {"wait", "gone"} /\ (where = "gone" => shutdown)
        /\ where \in {"wait", "fn", "gone"} /\ (where = "fn" => running)
    OBVIOUS
  <2> HIDE DEF where
  <2>3. /\ pc'[Main] = pc[Main] /\ \A w \in Worker : pc'[w] = IF w = t THEN where ELSE pc[w]
        /\ Places' /\ Phases'
    BY <1>1, <2>1, <2>2, WorkerMoves
  <2>4. TypeOK' BY <1>1, <2>1, <2>2 DEF PoolInv, TypeOK
  <2>5. Counts' BY <1>1, <2>1 DEF PoolInv, Counts
  <2>6. Alone' BY <1>1, <2>1, <2>2, <2>3 DEF PoolInv, Alone
  <2> QED BY <2>3, <2>4, <2>5, <2>6 DEF PoolInv
<1> QED BY <1>2, <1>3 DEF Wakes

(* A worker has done its piece.                                               *)
LEMMA FinishesOneInv == ASSUME PoolInv, NEW t \in Worker, FinishesOne(t) PROVE PoolInv'
<1> USE Threads
<1>1. /\ pc[t] = "fn" /\ owed' = owed - 1 /\ UNCHANGED <<running, shutdown, useThreads>>
      /\ \A w \in Worker : w \in woken' <=> w \in woken
      /\ woken' \in SUBSET Thread /\ t \notin woken
  BY DEF FinishesOne, PoolInv, TypeOK, Alone
<1>2. owed - 1 \in 0..MaxWork /\ Cardinality(working) \in Nat \ {0} BY <1>1, WorkIsOwed
<1>3. CASE MayTake /\ Take(t)
  <2>1. /\ work' = work - 1 /\ work \in Nat /\ work' \in 0..MaxWork
        /\ working' = {u \in Thread : pc'[u] = "fn"} /\ pc' = [pc EXCEPT ![t] = "fn"]
        /\ Cardinality(working') = Cardinality(working)
    BY <1>1, <1>3, TakeCounts
  <2>2. TypeOK' BY <1>1, <1>2, <2>1 DEF PoolInv, TypeOK
  <2>3. Counts' BY <1>1, <1>2, <2>1 DEF PoolInv, Counts, TypeOK
  <2>4. Places' /\ Phases' /\ Alone' BY <1>1, <1>3, WorkerTakes
  <2> QED BY <2>2, <2>3, <2>4 DEF PoolInv
<1>4. CASE /\ ~MayTake /\ UNCHANGED work /\ working' = working \ {t}
           /\ pc' = [pc EXCEPT ![t] = IF shutdown THEN "gone" ELSE "wait"]
  <2> DEFINE where == IF shutdown THEN "gone" ELSE "wait"
  <2>1. where \in {"wait", "gone"} /\ (where = "gone" => shutdown) OBVIOUS
  <2>2. pc' = [pc EXCEPT ![t] = where] BY <1>4
  <2> HIDE DEF where
  <2>3. /\ working' = {u \in Thread : pc'[u] = "fn"}
        /\ Cardinality(working') = Cardinality(working) - 1
    BY <1>1, <1>4, <2>1, <2>2, LeaveCounts
  <2>4. /\ pc'[Main] = pc[Main] /\ \A w \in Worker : pc'[w] = IF w = t THEN where ELSE pc[w]
        /\ Places' /\ Phases'
    BY <1>1, <2>1, <2>2, WorkerMoves
  <2>5. TypeOK' BY <1>1, <1>2, <1>4, <2>1, <2>2, <2>3 DEF PoolInv, TypeOK
  <2>6. Counts' BY <1>1, <1>2, <1>4, <2>3 DEF PoolInv, Counts, TypeOK
  <2>7. Alone' BY <1>1, <1>4, <2>1, <2>4 DEF PoolInv, Alone
  <2> QED BY <2>4, <2>5, <2>6, <2>7 DEF PoolInv
<1> QED BY <1>3, <1>4 DEF FinishesOne

(* A thread wakes up for no reason.                                           *)
LEMMA WakesForNoReasonInv == ASSUME PoolInv, NEW t \in Thread, WakesForNoReason(t) PROVE PoolInv'
<1> USE Threads
<1>1. /\ Spurious /\ pc[t] \in {"wait", "complete"} /\ woken' = woken \cup {t}
      /\ UNCHANGED <<pc, work, owed, working, running, shutdown, useThreads>>
  BY DEF WakesForNoReason
<1>2. TypeOK' BY <1>1 DEF PoolInv, TypeOK
<1>3. Counts' BY <1>1 DEF PoolInv, Counts
<1>4. Places' /\ Phases' BY <1>1 DEF PoolInv, Places, Phases, InRun
<1>5. \A w \in Worker : w \in woken' => pc'[w] = "wait"
  BY <1>1 DEF PoolInv, Places, Alone
<1>6. Alone' BY <1>1, <1>5 DEF PoolInv, Alone
<1> QED BY <1>2, <1>3, <1>4, <1>6 DEF PoolInv
-----------------------------------------------------------------------------
LEMMA NextInv ==
  ASSUME PoolInv, [Next]_vars, Cardinality(Worker) # 1 \/ ~Spurious
  PROVE  PoolInv'
<1>1. CASE PushWork BY <1>1, PushWorkInv
<1>2. CASE Stop BY <1>2, StopInv
<1>3. CASE Run BY <1>3, RunInv
<1>4. CASE MainFinishesOne BY <1>4, MainFinishesOneInv
<1>5. CASE MainWakes BY <1>5, MainWakesInv
<1>6. CASE Joined BY <1>6, JoinedInv
<1>7. CASE Start BY <1>7, StartInv
<1>8. ASSUME NEW t \in Worker, WorkerStep(t) PROVE PoolInv'
  BY <1>8, BeginInv, WakesInv, FinishesOneInv DEF WorkerStep
<1>9. ASSUME NEW t \in Thread, WakesForNoReason(t) PROVE PoolInv'
  BY <1>9, WakesForNoReasonInv
<1>10. CASE UNCHANGED vars
  BY <1>10 DEF vars, PoolInv, TypeOK, Places, Counts, Phases, Alone, InRun
<1> QED BY <1>1, <1>2, <1>3, <1>4, <1>5, <1>6, <1>7, <1>8, <1>9, <1>10 DEF Next, MainStep

(* The invariant holds in every behaviour.                                    *)
THEOREM PoolInvariant ==
  ASSUME Cardinality(Worker) # 1 \/ ~Spurious
  PROVE  Spec => []PoolInv
<1>1. PoolInv /\ [Next]_vars => PoolInv' BY NextInv
<1> QED BY InitInv, <1>1, PTL DEF Spec

(* run() returns with everything done, and between runs nobody works: the     *)
(* Kit may fork, and paint the next tiles.                                    *)
THEOREM RunsAreComplete ==
  ASSUME Cardinality(Worker) # 1 \/ ~Spurious
  PROVE  Spec => []RunIsComplete
<1>1. PoolInv => RunIsComplete
  <2> SUFFICES ASSUME PoolInv, pc[Main] \in {"idle", "join", "stopped"}
               PROVE  working = {} /\ owed = work /\ ~running
    BY DEF RunIsComplete
  <2>1. ~InRun /\ ~running BY DEF PoolInv, Phases, InRun
  <2>2. working = {} BY <2>1 DEF PoolInv, TypeOK, Phases, InRun, Thread
  <2>3. owed = work BY <2>2, FS_EmptySet DEF PoolInv, Counts, TypeOK
  <2> QED BY <2>1, <2>2, <2>3
<1> QED BY <1>1, PoolInvariant, PTL
-----------------------------------------------------------------------------
(* One thread handles a socket: whatever order sockets are handed over,       *)
(* taken, dropped and closed in, an open socket is in one poll, or in one     *)
(* queue of one, and a closed one is in none.                                 *)
(*                                                                            *)
(* OneOwner counts the polls that hold a socket, and a queue that holds it    *)
(* twice counts once: it is no inductive invariant, for the first of the two  *)
(* callbacks would leave the second behind. What is kept is that every        *)
(* arrival is in its queue once (NoRepeats), and that the queue that is being *)
(* worked off is empty when the next one is taken (Idle).                     *)
Callback == [type : {"task"}, id : Nat] \cup [type : {"arrival"}, socket : Connection]
TransferType == [socket : Connection, to : Poller, taken : BOOLEAN]

PollType ==
  [started : BOOLEAN, finished : BOOLEAN, stop : BOOLEAN, pipe : BOOLEAN,
   pc : {"none", "take", "taking", "poll", "read", "work", "end"},
   newSockets : SUBSET Connection, callbacks : Seq(Callback), transfers : Seq(TransferType),
   invoke : Seq(Callback), pending : Seq(TransferType),
   sockets : SUBSET Connection, transferred : BOOLEAN]

Types == poll \in [Poller -> PollType] /\ open \subseteq Connection /\ tasks \in Nat

Arrivals(seq) == {s \in Connection : \E i \in DOMAIN seq : seq[i] = Polls!Arrival(s)}
Once(seq) == \A s \in Connection : \A i, j \in DOMAIN seq : seq[i] = Polls!Arrival(s) /\ seq[j] = Polls!Arrival(s) => i = j

(* The sockets of a poll, and those in its queues.                            *)
Where == {"poll", "new", "callbacks", "invoke"}
Held(q, w) ==
  IF w = "poll" THEN q.sockets
  ELSE IF w = "new" THEN q.newSockets
  ELSE IF w = "callbacks" THEN Arrivals(q.callbacks) ELSE Arrivals(q.invoke)

NoRepeats == \A p \in Poller : Once(poll[p].callbacks) /\ Once(poll[p].invoke)
Idle ==
  \A p \in Poller :
    /\ poll[p].pc # "work" => poll[p].invoke = <<>>
    /\ ~poll[p].started => poll[p].pc = "none"
OnePlace ==
  \A s \in Connection :
    /\ s \in open <=> \E p \in Poller, w \in Where : s \in Held(poll[p], w)
    /\ \A p, q \in Poller, w, v \in Where : s \in Held(poll[p], w) /\ s \in Held(poll[q], v) => p = q /\ w = v

PollInv == Types /\ NoRepeats /\ Idle /\ OnePlace
-----------------------------------------------------------------------------
(* The queues.                                                                *)

(* The callback that a socket arrives with is its own. *)
LEMMA ArrivalType ==
  ASSUME NEW s \in Connection
  PROVE  Polls!Arrival(s) \in Callback /\ \A x \in Connection : Polls!Arrival(x) = Polls!Arrival(s) => x = s
BY DEF Polls!Arrival, Callback

(* An arrival that is added ...                                               *)
LEMMA AppendArrival ==
  ASSUME NEW seq \in Seq(Callback), NEW s \in Connection
  PROVE  /\ Arrivals(Append(seq, Polls!Arrival(s))) = Arrivals(seq) \cup {s}
         /\ Once(seq) /\ s \notin Arrivals(seq) => Once(Append(seq, Polls!Arrival(s)))
<1> DEFINE new == Append(seq, Polls!Arrival(s))
<1>1. /\ Len(seq) \in Nat /\ DOMAIN seq = 1..Len(seq) /\ DOMAIN new = 1..(Len(seq) + 1)
      /\ new[Len(seq) + 1] = Polls!Arrival(s) /\ \A i \in DOMAIN seq : new[i] = seq[i]
  BY ArrivalType
<1>2. \A i \in DOMAIN new : i \in DOMAIN seq \/ i = Len(seq) + 1
  BY <1>1
<1>3. DOMAIN seq \subseteq DOMAIN new /\ Len(seq) + 1 \in DOMAIN new
  BY <1>1
<1> HIDE DEF new
<1>4. Arrivals(new) = Arrivals(seq) \cup {s}
  BY <1>1, <1>2, <1>3, ArrivalType DEF Arrivals
<1>5. Once(seq) /\ s \notin Arrivals(seq) => Once(new)
  BY <1>1, <1>2, ArrivalType DEF Arrivals, Once
<1> QED BY <1>4, <1>5 DEF new

(* ... a task that is added ...                                               *)
LEMMA AppendTask ==
  ASSUME NEW seq \in Seq(Callback), NEW fn \in Callback, fn.type = "task"
  PROVE  Arrivals(Append(seq, fn)) = Arrivals(seq) /\ (Once(seq) => Once(Append(seq, fn)))
<1> DEFINE new == Append(seq, fn)
<1>1. /\ Len(seq) \in Nat /\ DOMAIN seq = 1..Len(seq) /\ DOMAIN new = 1..(Len(seq) + 1)
      /\ new[Len(seq) + 1] = fn /\ \A i \in DOMAIN seq : new[i] = seq[i]
  OBVIOUS
<1>2. \A i \in DOMAIN new : i \in DOMAIN seq \/ i = Len(seq) + 1
  BY <1>1
<1>3. \A s \in Connection : fn # Polls!Arrival(s)
  BY DEF Polls!Arrival
<1>4. DOMAIN seq \subseteq DOMAIN new
  BY <1>1
<1> HIDE DEF new
<1>5. Arrivals(new) = Arrivals(seq)
  BY <1>1, <1>2, <1>3, <1>4 DEF Arrivals
<1>6. Once(seq) => Once(new)
  BY <1>1, <1>2, <1>3 DEF Once
<1> QED BY <1>5, <1>6 DEF new

(* ... and the first callback that is taken.                                  *)
LEMMA TailArrivals ==
  ASSUME NEW seq \in Seq(Callback), seq # <<>>, Once(seq)
  PROVE  /\ Head(seq) \in Callback /\ Tail(seq) \in Seq(Callback) /\ Once(Tail(seq))
         /\ Head(seq).type = "task" => Arrivals(Tail(seq)) = Arrivals(seq)
         /\ Head(seq).type = "arrival" =>
              /\ Head(seq).socket \in Arrivals(seq)
              /\ Arrivals(Tail(seq)) = Arrivals(seq) \ {Head(seq).socket}
<1> DEFINE new == Tail(seq)
<1>1. /\ Len(seq) \in Nat \ {0} /\ DOMAIN seq = 1..Len(seq) /\ DOMAIN new = 1..(Len(seq) - 1)
      /\ Head(seq) = seq[1] /\ \A i \in DOMAIN new : new[i] = seq[i + 1]
      /\ Head(seq) \in Callback /\ new \in Seq(Callback)
  OBVIOUS
<1>2. \A i \in DOMAIN new : i + 1 \in DOMAIN seq /\ i + 1 # 1 /\ i \in Nat
  BY <1>1
<1>3. 1 \in DOMAIN seq /\ \A i \in DOMAIN seq : i = 1 \/ (i - 1 \in DOMAIN new /\ new[i - 1] = seq[i])
  BY <1>1
<1> HIDE DEF new
<1>4. Once(new)
  <2> SUFFICES ASSUME NEW s \in Connection, NEW i \in DOMAIN new, NEW j \in DOMAIN new,
                      new[i] = Polls!Arrival(s), new[j] = Polls!Arrival(s)
               PROVE  i = j
    BY DEF Once
  <2>1. i + 1 = j + 1
    BY <1>1, <1>2 DEF Once
  <2> QED BY <1>2, <2>1
<1>5. Arrivals(new) \subseteq Arrivals(seq)
  BY <1>1, <1>2 DEF Arrivals
<1>6. CASE Head(seq).type = "task"
  <2>1. \A s \in Connection : seq[1] # Polls!Arrival(s)
    BY <1>1, <1>6 DEF Polls!Arrival
  <2>2. Arrivals(new) = Arrivals(seq)
    BY <1>3, <1>5, <2>1 DEF Arrivals
  <2> QED BY <1>1, <1>4, <1>6, <2>2 DEF new
<1>7. CASE Head(seq).type = "arrival"
  <2> DEFINE s0 == Head(seq).socket
  <2>1. s0 \in Connection /\ seq[1] = Polls!Arrival(s0)
    BY <1>1, <1>7 DEF Polls!Arrival, Callback
  <2> HIDE DEF s0
  <2>2. s0 \in Arrivals(seq)
    BY <1>3, <2>1 DEF Arrivals
  <2>3. s0 \notin Arrivals(new)
    BY <1>1, <1>2, <1>3, <2>1 DEF Arrivals, Once
  <2>4. \A s \in Arrivals(seq) : s # s0 => s \in Arrivals(new)
    BY <1>3, <2>1, ArrivalType DEF Arrivals
  <2> QED BY <1>1, <1>4, <1>5, <1>7, <2>2, <2>3, <2>4 DEF new, s0
<1> QED BY <1>1, <1>6, <1>7 DEF Callback
-----------------------------------------------------------------------------
(* What is added to a poll, by whoever does, leaves the rest of it alone.     *)

Same(q, r) == \A w \in Where : Held(r, w) = Held(q, w)

(* A poll that is woken. *)
LEMMA WokenType ==
  ASSUME NEW q \in PollType, NEW old
  PROVE  LET r == Polls!WokenIfEmpty(q, old)
         IN  /\ r \in PollType /\ r.pc = q.pc /\ (r.started <=> q.started)
             /\ r.callbacks = q.callbacks /\ r.invoke = q.invoke
             /\ r.sockets = q.sockets /\ r.newSockets = q.newSockets
<1> DEFINE x == q.pipe \/ Polls!TaskQueuesEmpty(old)
<1>1. x \in BOOLEAN
  OBVIOUS
<1>2. Polls!WokenIfEmpty(q, old) = [q EXCEPT !.pipe = x]
  BY DEF Polls!WokenIfEmpty, PollType
<1> HIDE DEF x
<1> QED BY <1>1, <1>2 DEF PollType

(* A callback is queued. *)
LEMMA QueueCallbackType ==
  ASSUME NEW q \in PollType, NEW fn \in Callback
  PROVE  LET r == Polls!QueueCallback(q, fn)
         IN  /\ r \in PollType /\ r.pc = q.pc /\ (r.started <=> q.started)
             /\ r.callbacks = Append(q.callbacks, fn) /\ r.invoke = q.invoke
             /\ r.sockets = q.sockets /\ r.newSockets = q.newSockets
<1> DEFINE x == [q EXCEPT !.callbacks = Append(@, fn)]
<1>1. Append(q.callbacks, fn) \in Seq(Callback)
  BY DEF PollType
<1>2. /\ x \in PollType /\ x.pc = q.pc /\ (x.started <=> q.started) /\ x.callbacks = Append(q.callbacks, fn) /\ x.invoke = q.invoke
      /\ x.sockets = q.sockets /\ x.newSockets = q.newSockets
  BY <1>1 DEF PollType
<1>3. Polls!QueueCallback(q, fn) = Polls!WokenIfEmpty(x, q)
  BY DEF Polls!QueueCallback
<1> HIDE DEF x
<1> QED BY <1>2, <1>3, WokenType

(* A new socket is queued. *)
LEMMA QueueSocketType ==
  ASSUME NEW q \in PollType, NEW s \in Connection
  PROVE  LET r == Polls!QueueSocket(q, s)
         IN  /\ r \in PollType /\ r.pc = q.pc /\ (r.started <=> q.started)
             /\ r.callbacks = q.callbacks /\ r.invoke = q.invoke
             /\ r.sockets = q.sockets /\ r.newSockets = q.newSockets \cup {s}
<1> DEFINE x == [q EXCEPT !.newSockets = @ \cup {s}]
<1>1. /\ x \in PollType /\ x.pc = q.pc /\ (x.started <=> q.started) /\ x.callbacks = q.callbacks /\ x.invoke = q.invoke
      /\ x.sockets = q.sockets /\ x.newSockets = q.newSockets \cup {s}
  BY DEF PollType
<1>2. Polls!QueueSocket(q, s) = Polls!WokenIfEmpty(x, q)
  BY DEF Polls!QueueSocket
<1> HIDE DEF x
<1> QED BY <1>1, <1>2, WokenType

(* A transfer is queued. *)
LEMMA QueueTransferType ==
  ASSUME NEW q \in PollType, NEW t \in TransferType
  PROVE  LET r == Polls!QueueTransfer(q, t)
         IN  /\ r \in PollType /\ r.pc = q.pc /\ (r.started <=> q.started)
             /\ r.callbacks = q.callbacks /\ r.invoke = q.invoke
             /\ r.sockets = q.sockets /\ r.newSockets = q.newSockets
<1> DEFINE x == [q EXCEPT !.transfers = Append(@, t)]
<1>1. Append(q.transfers, t) \in Seq(TransferType)
  BY DEF PollType
<1>2. /\ x \in PollType /\ x.pc = q.pc /\ (x.started <=> q.started) /\ x.callbacks = q.callbacks /\ x.invoke = q.invoke
      /\ x.sockets = q.sockets /\ x.newSockets = q.newSockets
  BY <1>1 DEF PollType
<1>3. Polls!QueueTransfer(q, t) = Polls!WokenIfEmpty(x, q)
  BY DEF Polls!QueueTransfer
<1> HIDE DEF x
<1> QED BY <1>2, <1>3, WokenType
-----------------------------------------------------------------------------
(* The places of the sockets when some of them, C, are closed ...             *)
LEMMA Closing ==
  ASSUME OnePlace, NEW C \in SUBSET Connection, open' = open \ C,
         \A p \in Poller, w \in Where : Held(poll'[p], w) = Held(poll[p], w) \ C
  PROVE  OnePlace'
BY DEF OnePlace

(* ... and when one of them moves.                                            *)
LEMMA Moving ==
  ASSUME OnePlace, NEW s \in Connection, s \in open, open' = open, NEW r \in Poller, NEW u \in Where,
         \A p \in Poller, w \in Where :
           Held(poll'[p], w) = IF p = r /\ w = u THEN Held(poll[p], w) \cup {s} ELSE Held(poll[p], w) \ {s}
  PROVE  OnePlace'
<1> SUFFICES ASSUME NEW x \in Connection
             PROVE  /\ x \in open' <=> \E p \in Poller, w \in Where : x \in Held(poll'[p], w)
                    /\ \A p, q \in Poller, w, v \in Where :
                         x \in Held(poll'[p], w) /\ x \in Held(poll'[q], v) => p = q /\ w = v
  BY DEF OnePlace
<1>1. CASE x = s
  <2>1. \A p \in Poller, w \in Where : s \in Held(poll'[p], w) <=> p = r /\ w = u
    OBVIOUS
  <2> QED BY <1>1, <2>1
<1>2. CASE x # s
  <2>1. \A p \in Poller, w \in Where : x \in Held(poll'[p], w) <=> x \in Held(poll[p], w)
    BY <1>2
  <2> QED BY <2>1 DEF OnePlace
<1> QED BY <1>1, <1>2

(* A socket that is in one place is in no other. *)
LEMMA NowhereTwice ==
  ASSUME OnePlace, NEW s \in Connection, NEW p \in Poller, NEW w \in Where, s \in Held(poll[p], w)
  PROVE  s \in open /\ \A q \in Poller, v \in Where : q # p \/ v # w => s \notin Held(poll[q], v)
BY DEF OnePlace

(* The four places of a poll's sockets.                                       *)
LEMMA HeldPlaces ==
  \A q : /\ Held(q, "poll") = q.sockets /\ Held(q, "new") = q.newSockets
        /\ Held(q, "callbacks") = Arrivals(q.callbacks) /\ Held(q, "invoke") = Arrivals(q.invoke)
BY DEF Held

(* A poll whose queues and sockets stay as they are.                          *)
LEMMA OnePollGoesOn ==
  ASSUME PollInv, NEW p \in Poller, NEW r \in PollType, poll' = [poll EXCEPT ![p] = r], UNCHANGED <<open, tasks>>,
         r.sockets = poll[p].sockets, r.newSockets = poll[p].newSockets,
         r.callbacks = poll[p].callbacks, r.invoke = poll[p].invoke,
         r.pc = "work" \/ r.pc = poll[p].pc \/ r.invoke = <<>>, ~r.started => r.pc = "none"
  PROVE  PollInv'
<1>1. poll \in [Poller -> PollType] /\ poll'[p] = r /\ \A q \in Poller : q # p => poll'[q] = poll[q]
  BY DEF PollInv, Types
<1>2. Types'
  BY <1>1 DEF PollInv, Types
<1>3. NoRepeats'
  BY <1>1 DEF PollInv, NoRepeats
<1>4. Idle'
  BY <1>1 DEF PollInv, Idle
<1>5. \A q \in Poller, w \in Where : Held(poll'[q], w) = Held(poll[q], w)
  BY <1>1 DEF Held
<1>6. OnePlace'
  BY <1>5 DEF PollInv, OnePlace
<1> QED BY <1>2, <1>3, <1>4, <1>6 DEF PollInv
-----------------------------------------------------------------------------
(* The first state. *)
LEMMA Initially == Polls!PollAssumption /\ Polls!Init => PollInv
<1> SUFFICES ASSUME Polls!PollAssumption, Polls!Init
             PROVE  PollInv
  OBVIOUS
<1>1. \A p \in Poller : Polls!NewPoll(p) \in PollType
  <2> SUFFICES ASSUME NEW p \in Poller
               PROVE  Polls!NewPoll(p) \in PollType
    OBVIOUS
  <2>1. <<>> \in Seq(Callback) /\ <<>> \in Seq(TransferType) /\ {s \in Connection : HomeOf[s] = p} \in SUBSET Connection
    OBVIOUS
  <2>2. (IF p \in Started THEN "poll" ELSE "none") \in {"none", "take", "taking", "poll", "read", "work", "end"}
    OBVIOUS
  <2>3. (p \in Started) \in BOOLEAN
    OBVIOUS
  <2> QED BY <2>1, <2>2, <2>3, Zenon DEF Polls!NewPoll, PollType
<1>2. Types
  BY <1>1 DEF Polls!Init, Types
<1>3. \A p \in Poller : /\ poll[p].callbacks = <<>> /\ poll[p].invoke = <<>> /\ poll[p].newSockets = {}
                        /\ poll[p].sockets = {s \in Connection : HomeOf[s] = p}
  BY DEF Polls!Init, Polls!NewPoll
<1>4. NoRepeats /\ Idle
  <2>1. \A p \in Poller : ~poll[p].started => poll[p].pc = "none"
    BY DEF Polls!Init, Polls!NewPoll
  <2> QED BY <1>3, <2>1 DEF NoRepeats, Idle, Once
<1>5. \A p \in Poller, w \in Where : Held(poll[p], w) = IF w = "poll" THEN {s \in Connection : HomeOf[s] = p} ELSE {}
  <2>1. Arrivals(<<>>) = {}
    BY DEF Arrivals
  <2> QED BY <1>3, <2>1 DEF Held, Where
<1>6. \A s \in Connection : HomeOf[s] \in Poller /\ s \in open
  BY DEF Polls!PollAssumption, Polls!Init
<1>7. OnePlace
  BY <1>5, <1>6 DEF OnePlace, Where
<1> QED BY <1>2, <1>4, <1>7 DEF PollInv
-----------------------------------------------------------------------------
(* The steps of the other threads.                                            *)

(* A callback is added. *)
LEMMA AddCallbackKeeps ==
  ASSUME PollInv, NEW p \in Poller, Polls!AddCallback(p)
  PROVE  PollInv'
<1> DEFINE fn == [type |-> "task", id |-> tasks + 1]
           r == Polls!QueueCallback(poll[p], fn)
<1>1. poll \in [Poller -> PollType] /\ tasks \in Nat /\ tasks' = tasks + 1 /\ open' = open
  BY DEF PollInv, Types, Polls!AddCallback
<1>2. fn \in Callback /\ fn.type = "task"
  BY <1>1 DEF Callback
<1>3. poll' = [poll EXCEPT ![p] = r]
  BY <1>1 DEF Polls!AddCallback
<1> HIDE DEF fn
<1>4. /\ r \in PollType /\ r.pc = poll[p].pc /\ r.invoke = poll[p].invoke /\ (r.started <=> poll[p].started)
      /\ r.callbacks = Append(poll[p].callbacks, fn)
      /\ r.sockets = poll[p].sockets /\ r.newSockets = poll[p].newSockets
  BY <1>1, <1>2, QueueCallbackType
<1> HIDE DEF r
<1>5. poll'[p] = r /\ \A q \in Poller : q # p => poll'[q] = poll[q]
  BY <1>1, <1>3
<1>6. /\ Arrivals(r.callbacks) = Arrivals(poll[p].callbacks)
      /\ Once(poll[p].callbacks) => Once(r.callbacks)
  BY <1>1, <1>2, <1>4, AppendTask DEF PollType
<1>7. Types'
  BY <1>1, <1>3, <1>4 DEF PollInv, Types
<1>8. NoRepeats' /\ Idle'
  BY <1>4, <1>5, <1>6 DEF PollInv, NoRepeats, Idle
<1>9. \A q \in Poller, w \in Where : Held(poll'[q], w) = Held(poll[q], w)
  BY <1>4, <1>5, <1>6 DEF Held
<1>10. OnePlace'
  BY <1>1, <1>9 DEF PollInv, OnePlace
<1> QED BY <1>7, <1>8, <1>10 DEF PollInv

(* A socket is sent to another poll. *)
LEMMA TransferSocketToKeeps ==
  ASSUME PollInv, NEW s \in Connection, NEW from \in Poller, NEW to \in Poller, Polls!TransferSocketTo(s, from, to)
  PROVE  PollInv'
<1> DEFINE t == [socket |-> s, to |-> to, taken |-> FALSE]
           r == Polls!QueueTransfer(poll[from], t)
<1>1. poll[from] \in PollType /\ UNCHANGED <<open, tasks>> /\ t \in TransferType
  BY DEF PollInv, Types, Polls!TransferSocketTo, TransferType
<1>2. poll' = [poll EXCEPT ![from] = r]
  BY DEF Polls!TransferSocketTo
<1>3. ~poll[from].started => poll[from].pc = "none"
  BY DEF PollInv, Idle
<1> HIDE DEF t
<1> QED BY <1>1, <1>2, <1>3, QueueTransferType, OnePollGoesOn

(* The sockets whose arrival is dropped were nowhere else.                    *)
LEMMA StopKeeps ==
  ASSUME PollInv, NEW p \in Poller, Polls!Stop(p)
  PROVE  PollInv'
<1> DEFINE dropped == Arrivals(poll[p].callbacks)
           r == [poll[p] EXCEPT !.stop = TRUE, !.callbacks = <<>>, !.pipe = TRUE]
<1>1. poll \in [Poller -> PollType] /\ poll[p] \in PollType
  BY DEF PollInv, Types
<1>2. poll' = [poll EXCEPT ![p] = r] /\ open' = open \ dropped /\ tasks' = tasks
  BY <1>1 DEF Polls!Stop, Arrivals, PollType
<1>3. /\ r \in PollType /\ r.pc = poll[p].pc /\ r.invoke = poll[p].invoke /\ r.callbacks = <<>>
      /\ r.started <=> poll[p].started
      /\ r.sockets = poll[p].sockets /\ r.newSockets = poll[p].newSockets
  <2>1. <<>> \in Seq(Callback) /\ <<>> \in Seq(TransferType)
    OBVIOUS
  <2> QED BY <1>1, <2>1 DEF PollType
<1> HIDE DEF r
<1>4. poll'[p] = r /\ \A q \in Poller : q # p => poll'[q] = poll[q]
  BY <1>1, <1>2
<1>5. Once(<<>>) /\ Arrivals(<<>>) = {}
  BY DEF Once, Arrivals
<1>6. Types' /\ NoRepeats' /\ Idle'
  BY <1>1, <1>2, <1>3, <1>4, <1>5 DEF PollInv, Types, NoRepeats, Idle
<1>7. dropped \in SUBSET Connection
  BY DEF Arrivals
<1>8. ASSUME NEW q \in Poller, NEW w \in Where
      PROVE  Held(poll'[q], w) = Held(poll[q], w) \ dropped
  <2>1. CASE q = p /\ w = "callbacks"
    BY <1>3, <1>4, <1>5, <2>1, HeldPlaces
  <2>2. CASE q # p \/ w # "callbacks"
    <3>1. Held(poll'[q], w) = Held(poll[q], w)
      BY <1>3, <1>4, <2>2 DEF Held, Where
    <3>2. \A x \in dropped : x \notin Held(poll[q], w)
      BY <1>7, <2>2, HeldPlaces, NowhereTwice DEF PollInv, Where
    <3> HIDE DEF dropped
    <3> QED BY <3>1, <3>2
  <2> QED BY <2>1, <2>2
<1> HIDE DEF dropped
<1>9. OnePlace'
  BY <1>2, <1>7, <1>8, Closing DEF PollInv
<1> QED BY <1>6, <1>9 DEF PollInv
-----------------------------------------------------------------------------
(* The steps of a poll's own thread.                                          *)

(* A thread takes a socket out of a poll. *)
LEMMA TakeSocketKeeps ==
  ASSUME Polls!PollAssumption, PollInv, NEW p \in Poller, Polls!TakeSocket(p)
  PROVE  PollInv'
<1> DEFINE s == Taken[p]
           homes == {o \in Poller : s \in poll[o].sockets}
           o0 == CHOOSE o \in homes : TRUE
           r == [poll[p] EXCEPT !.pc = "taking"]
           mid == [poll EXCEPT ![p] = r]
           t == [socket |-> s, to |-> p, taken |-> TRUE]
<1>1. poll \in [Poller -> PollType] /\ poll[p].invoke = <<>> /\ poll[p].started /\ UNCHANGED <<open, tasks>>
  BY DEF PollInv, Types, Idle, Polls!TakeSocket
<1>2. /\ r \in PollType /\ r.pc = "taking" /\ r.started /\ r.invoke = poll[p].invoke /\ r.callbacks = poll[p].callbacks
      /\ r.sockets = poll[p].sockets /\ r.newSockets = poll[p].newSockets
  BY <1>1 DEF PollType
<1>3. poll' = IF homes = {} THEN mid ELSE [mid EXCEPT ![o0] = Polls!QueueTransfer(@, t)]
  BY <1>1 DEF Polls!TakeSocket, PollType
<1>4. mid \in [Poller -> PollType] /\ mid[p] = r /\ \A q \in Poller : q # p => mid[q] = poll[q]
  BY <1>1, <1>2
<1>5. \A q \in Poller : /\ mid[q].invoke = poll[q].invoke /\ mid[q].callbacks = poll[q].callbacks
                        /\ mid[q].sockets = poll[q].sockets /\ mid[q].newSockets = poll[q].newSockets
                        /\ mid[q].pc = poll[q].pc \/ poll[q].invoke = <<>>
                        /\ ~mid[q].started => mid[q].pc = "none"
  BY <1>1, <1>2, <1>4 DEF PollInv, Idle
<1>6. CASE homes = {}
  BY <1>1, <1>2, <1>3, <1>6, OnePollGoesOn
<1>7. CASE homes # {}
  <2>1. o0 \in Poller /\ s \in poll[o0].sockets
    BY <1>7
  <2>2. s \in Connection
    BY <1>1, <2>1 DEF PollType
  <2>3. t \in TransferType
    BY <2>2 DEF TransferType
  <2> DEFINE u == Polls!QueueTransfer(mid[o0], t)
  <2> HIDE DEF s, t, o0, homes, r, mid
  <2>4. /\ u \in PollType /\ u.pc = mid[o0].pc /\ (u.started <=> mid[o0].started) /\ u.callbacks = mid[o0].callbacks /\ u.invoke = mid[o0].invoke
        /\ u.sockets = mid[o0].sockets /\ u.newSockets = mid[o0].newSockets
    BY <1>4, <2>1, <2>3, QueueTransferType
  <2>5. poll' = [mid EXCEPT ![o0] = u]
    BY <1>3, <1>7, <1>4
  <2> HIDE DEF u
  <2>6. poll'[o0] = u /\ \A q \in Poller : q # o0 => poll'[q] = mid[q]
    BY <1>4, <2>1, <2>5
  <2>7. \A q \in Poller : /\ poll'[q].invoke = poll[q].invoke /\ poll'[q].callbacks = poll[q].callbacks
                          /\ poll'[q].sockets = poll[q].sockets /\ poll'[q].newSockets = poll[q].newSockets
                          /\ poll'[q].pc = poll[q].pc \/ poll[q].invoke = <<>>
                          /\ ~poll'[q].started => poll'[q].pc = "none"
    BY <1>5, <2>4, <2>6
  <2>8. Types' /\ NoRepeats' /\ Idle'
    <3>1. Types'
      BY <1>1, <1>4, <2>4, <2>5 DEF PollInv, Types
    <3>2. NoRepeats'
      BY <2>7 DEF PollInv, NoRepeats
    <3>3. Idle'
      BY <2>7 DEF PollInv, Idle
    <3> QED BY <3>1, <3>2, <3>3
  <2>9. \A q \in Poller, w \in Where : Held(poll'[q], w) = Held(poll[q], w)
    BY <2>7 DEF Held
  <2>10. OnePlace'
    BY <1>1, <2>9 DEF PollInv, OnePlace
  <2> QED BY <2>8, <2>10 DEF PollInv
<1> QED BY <1>6, <1>7

(* Steps of a poll's thread that move no socket. *)
LEMMA PollsOn ==
  ASSUME PollInv, NEW p \in Poller, Polls!SocketTaken(p) \/ Polls!ReadPipe(p) \/ Polls!EndOfWork(p)
  PROVE  PollInv'
<1>1. poll[p] \in PollType /\ UNCHANGED <<open, tasks>>
  BY DEF PollInv, Types, Polls!SocketTaken, Polls!ReadPipe, Polls!EndOfWork
<1>2. poll[p].invoke = <<>> /\ poll[p].started
  BY DEF PollInv, Idle, Polls!SocketTaken, Polls!ReadPipe, Polls!EndOfWork
<1>3. CASE Polls!SocketTaken(p) \/ Polls!EndOfWork(p)
  <2> DEFINE r == [poll[p] EXCEPT !.pc = "poll"]
  <2>1. /\ r \in PollType /\ r.invoke = poll[p].invoke /\ r.callbacks = poll[p].callbacks
        /\ r.sockets = poll[p].sockets /\ r.newSockets = poll[p].newSockets /\ r.started
    BY <1>1, <1>2 DEF PollType
  <2>2. poll' = [poll EXCEPT ![p] = r]
    BY <1>3 DEF Polls!SocketTaken, Polls!EndOfWork
  <2> HIDE DEF r
  <2> QED BY <1>1, <1>2, <2>1, <2>2, OnePollGoesOn
<1>4. CASE Polls!ReadPipe(p)
  <2> DEFINE r == [poll[p] EXCEPT !.pc = "read", !.pipe = FALSE]
  <2>1. /\ r \in PollType /\ r.invoke = poll[p].invoke /\ r.callbacks = poll[p].callbacks
        /\ r.sockets = poll[p].sockets /\ r.newSockets = poll[p].newSockets /\ r.started
    BY <1>1, <1>2 DEF PollType
  <2>2. poll' = [poll EXCEPT ![p] = r]
    BY <1>1, <1>4 DEF Polls!ReadPipe, PollInv, Types, PollType
  <2> HIDE DEF r
  <2> QED BY <1>1, <1>2, <2>1, <2>2, OnePollGoesOn
<1> QED BY <1>3, <1>4

(* What was queued is taken: the sockets stay with the poll.                  *)
LEMMA SwapQueuesKeeps ==
  ASSUME PollInv, NEW p \in Poller, Polls!SwapQueues(p)
  PROVE  PollInv'
<1> DEFINE r == [poll[p] EXCEPT !.pc = "work", !.sockets = poll[p].sockets \cup poll[p].newSockets, !.newSockets = {},
                                !.invoke = poll[p].callbacks, !.callbacks = <<>>,
                                !.pending = poll[p].transfers, !.transfers = <<>>]
<1>1. poll \in [Poller -> PollType] /\ poll[p].invoke = <<>> /\ poll[p].started /\ UNCHANGED <<open, tasks>>
  BY DEF PollInv, Types, Idle, Polls!SwapQueues
<1>2. /\ r \in PollType /\ r.pc = "work" /\ r.started /\ r.invoke = poll[p].callbacks /\ r.callbacks = <<>>
      /\ r.sockets = poll[p].sockets \cup poll[p].newSockets /\ r.newSockets = {}
  <2>1. <<>> \in Seq(Callback) /\ <<>> \in Seq(TransferType)
    OBVIOUS
  <2> QED BY <1>1, <2>1 DEF PollType
<1>3. poll' = [poll EXCEPT ![p] = r]
  BY <1>1 DEF Polls!SwapQueues
<1> HIDE DEF r
<1>4. poll'[p] = r /\ \A q \in Poller : q # p => poll'[q] = poll[q]
  BY <1>1, <1>3
<1>5. Once(<<>>) /\ Arrivals(<<>>) = {}
  BY DEF Once, Arrivals
<1>6. Types' /\ NoRepeats' /\ Idle'
  BY <1>1, <1>2, <1>3, <1>4, <1>5 DEF PollInv, Types, NoRepeats, Idle
<1>7. \A q \in Poller, w \in Where : q # p => Held(poll'[q], w) = Held(poll[q], w)
  BY <1>4
<1>8. /\ Held(poll'[p], "poll") = Held(poll[p], "poll") \cup Held(poll[p], "new")
      /\ Held(poll'[p], "new") = {} /\ Held(poll'[p], "callbacks") = {}
      /\ Held(poll'[p], "invoke") = Held(poll[p], "callbacks") /\ Held(poll[p], "invoke") = {}
  BY <1>1, <1>2, <1>4, <1>5, HeldPlaces
<1>9. OnePlace'
  <2> SUFFICES ASSUME NEW s \in Connection
               PROVE  /\ s \in open <=> \E q \in Poller, w \in Where : s \in Held(poll'[q], w)
                      /\ \A q, x \in Poller, w, v \in Where :
                           s \in Held(poll'[q], w) /\ s \in Held(poll'[x], v) => q = x /\ w = v
    BY <1>1 DEF OnePlace
  <2>1. /\ s \in open <=> \E q \in Poller, w \in Where : s \in Held(poll[q], w)
        /\ \A q, x \in Poller, w, v \in Where :
              s \in Held(poll[q], w) /\ s \in Held(poll[x], v) => q = x /\ w = v
    BY DEF PollInv, OnePlace
  <2>2. CASE \E w \in Where : s \in Held(poll[p], w)
    <3>1. \A q \in Poller, w \in Where : s \in Held(poll'[q], w) => q = p
      BY <1>7, <2>1, <2>2
    <3>2. \A w, v \in Where : s \in Held(poll'[p], w) /\ s \in Held(poll'[p], v) => w = v
      BY <1>8, <2>1 DEF Where
    <3>3. \E w \in Where : s \in Held(poll'[p], w)
      BY <1>8, <2>2 DEF Where
    <3> QED BY <2>1, <2>2, <3>1, <3>2, <3>3
  <2>3. CASE ~\E w \in Where : s \in Held(poll[p], w)
    <3>1. \A w \in Where : s \notin Held(poll'[p], w)
      BY <1>8, <2>3 DEF Where
    <3> QED BY <1>7, <2>1, <2>3, <3>1
  <2> QED BY <2>2, <2>3
<1> QED BY <1>6, <1>9 DEF PollInv

(* A socket that arrives was in no other place.                               *)
LEMMA InvokeKeeps ==
  ASSUME PollInv, NEW p \in Poller, Polls!Invoke(p)
  PROVE  PollInv'
<1> DEFINE fn == Head(poll[p].invoke)
           rest == [poll[p] EXCEPT !.invoke = Tail(@)]
<1>1. /\ poll \in [Poller -> PollType] /\ poll[p].invoke \in Seq(Callback) /\ poll[p].invoke # <<>>
      /\ poll[p].pc = "work" /\ poll[p].started /\ Once(poll[p].invoke) /\ UNCHANGED <<open, tasks>>
  BY DEF PollInv, Types, Idle, NoRepeats, Polls!Invoke, PollType
<1>2. /\ fn \in Callback /\ Tail(poll[p].invoke) \in Seq(Callback) /\ Once(Tail(poll[p].invoke))
      /\ fn.type = "task" => Arrivals(Tail(poll[p].invoke)) = Arrivals(poll[p].invoke)
      /\ fn.type = "arrival" =>
           /\ fn.socket \in Arrivals(poll[p].invoke)
           /\ Arrivals(Tail(poll[p].invoke)) = Arrivals(poll[p].invoke) \ {fn.socket}
  BY <1>1, TailArrivals
<1>3. /\ rest \in PollType /\ rest.pc = "work" /\ rest.started /\ rest.invoke = Tail(poll[p].invoke)
      /\ rest.callbacks = poll[p].callbacks /\ rest.sockets = poll[p].sockets
      /\ rest.newSockets = poll[p].newSockets
  BY <1>1, <1>2 DEF PollType
<1>4. CASE fn.type = "task" /\ poll' = [poll EXCEPT ![p] = rest]
  <2>1. poll'[p] = rest /\ \A q \in Poller : q # p => poll'[q] = poll[q]
    BY <1>1, <1>4
  <2> HIDE DEF rest, fn
  <2>2. Types' /\ NoRepeats' /\ Idle'
    BY <1>1, <1>2, <1>3, <1>4, <2>1 DEF PollInv, Types, NoRepeats, Idle
  <2>3. \A q \in Poller, w \in Where : Held(poll'[q], w) = Held(poll[q], w)
    BY <1>2, <1>3, <1>4, <2>1 DEF Held
  <2>4. OnePlace'
    BY <1>1, <2>3 DEF PollInv, OnePlace
  <2> QED BY <2>2, <2>4 DEF PollInv
<1>5. CASE fn.type = "arrival" /\ poll' = [poll EXCEPT ![p] = Polls!QueueSocket(rest, fn.socket)]
  <2> DEFINE s == fn.socket
             r == Polls!QueueSocket(rest, s)
  <2>1. s \in Arrivals(poll[p].invoke) /\ Arrivals(Tail(poll[p].invoke)) = Arrivals(poll[p].invoke) \ {s}
    BY <1>2, <1>5
  <2>2. s \in Connection
    BY <2>1 DEF Arrivals
  <2> HIDE DEF rest, fn, s
  <2>3. /\ r \in PollType /\ r.pc = "work" /\ r.started /\ r.invoke = rest.invoke /\ r.callbacks = rest.callbacks
        /\ r.sockets = rest.sockets /\ r.newSockets = rest.newSockets \cup {s}
    BY <1>3, <2>2, QueueSocketType
  <2>4. poll' = [poll EXCEPT ![p] = r]
    BY <1>5 DEF s
  <2> HIDE DEF r
  <2>5. poll'[p] = r /\ \A q \in Poller : q # p => poll'[q] = poll[q]
    BY <1>1, <2>4
  <2>6. Types' /\ NoRepeats' /\ Idle'
    BY <1>1, <1>2, <1>3, <2>3, <2>4, <2>5 DEF PollInv, Types, NoRepeats, Idle
  <2>7. s \in open /\ \A q \in Poller, v \in Where : q # p \/ v # "invoke" => s \notin Held(poll[q], v)
    <3>1. s \in Held(poll[p], "invoke") /\ "invoke" \in Where
      BY <2>1, HeldPlaces DEF Where
    <3> QED BY <2>2, <3>1, NowhereTwice DEF PollInv
  <2>8. ASSUME NEW q \in Poller, NEW w \in Where
        PROVE  Held(poll'[q], w) = IF q = p /\ w = "new" THEN Held(poll[q], w) \cup {s} ELSE Held(poll[q], w) \ {s}
    <3>1. CASE q # p
      BY <2>5, <2>7, <3>1
    <3>2. CASE q = p /\ w = "new"
      BY <1>3, <2>3, <2>5, <3>2, HeldPlaces
    <3>3. CASE q = p /\ w = "invoke"
      BY <1>3, <2>1, <2>3, <2>5, <3>3, HeldPlaces
    <3>4. CASE q = p /\ w \in {"poll", "callbacks"}
      <4>1. Held(poll'[q], w) = Held(poll[q], w)
        BY <1>3, <2>3, <2>5, <3>4, HeldPlaces
      <4>2. s \notin Held(poll[q], w)
        BY <2>7, <3>4 DEF Where
      <4> QED BY <3>4, <4>1, <4>2
    <3> QED BY <3>1, <3>2, <3>3, <3>4 DEF Where
  <2>9. OnePlace'
    BY <1>1, <2>2, <2>7, <2>8, Moving DEF PollInv, Where
  <2> QED BY <2>6, <2>9 DEF PollInv
<1> QED BY <1>4, <1>5 DEF Polls!Invoke

(* The poll that a socket is handed to gets one callback more.                *)
LEMMA ExecuteType ==
  ASSUME NEW polls \in [Poller -> PollType], NEW t \in TransferType
  PROVE  LET new == Polls!Execute(polls, t)
             to == polls[t.to]
         IN  /\ new \in [Poller -> PollType]
             /\ \A q \in Poller : q # t.to => new[q] = polls[q]
             /\ new[t.to].callbacks = Append(to.callbacks, Polls!Arrival(t.socket)) /\ new[t.to].invoke = to.invoke
             /\ new[t.to].sockets = to.sockets /\ new[t.to].newSockets = to.newSockets
             /\ new[t.to].started /\ (to.started => new[t.to].pc = to.pc)
<1> DEFINE to == polls[t.to]
           begun == [to EXCEPT !.started = TRUE, !.pc = IF Taken[t.to] = NoSocket THEN "poll" ELSE "take"]
           active == IF to.started THEN to ELSE begun
           queued == Polls!QueueCallback(active, Polls!Arrival(t.socket))
           r == [queued EXCEPT !.transferred = to.transferred \/ t.taken]
<1>1. t.to \in Poller /\ t.socket \in Connection /\ to \in PollType
  BY DEF TransferType
<1>2. /\ begun \in PollType /\ begun.callbacks = to.callbacks /\ begun.invoke = to.invoke
      /\ begun.sockets = to.sockets /\ begun.newSockets = to.newSockets /\ begun.started
  BY <1>1 DEF PollType
<1> HIDE DEF begun, to
<1>3. /\ active \in PollType /\ active.callbacks = to.callbacks /\ active.invoke = to.invoke
      /\ active.sockets = to.sockets /\ active.newSockets = to.newSockets
      /\ active.started /\ (to.started => active.pc = to.pc)
  BY <1>1, <1>2
<1> HIDE DEF active
<1>4. /\ queued \in PollType /\ queued.callbacks = Append(to.callbacks, Polls!Arrival(t.socket)) /\ queued.invoke = to.invoke
      /\ queued.sockets = to.sockets /\ queued.newSockets = to.newSockets
      /\ queued.started /\ (to.started => queued.pc = to.pc)
  BY <1>1, <1>3, QueueCallbackType, ArrivalType
<1> HIDE DEF queued
<1>5. (to.transferred \/ t.taken) \in BOOLEAN
  OBVIOUS
<1>6. /\ r \in PollType /\ r.callbacks = queued.callbacks /\ r.invoke = queued.invoke
      /\ r.sockets = queued.sockets /\ r.newSockets = queued.newSockets
      /\ (r.started <=> queued.started) /\ r.pc = queued.pc
  BY <1>4, <1>5 DEF PollType
<1>7. Polls!Execute(polls, t) = [polls EXCEPT ![t.to] = r]
  BY Zenon DEF Polls!Execute, to, begun, active, queued
<1> HIDE DEF r
<1> QED BY <1>1, <1>4, <1>6, <1>7 DEF to

(* A socket leaves its poll when it is handed over.                           *)
LEMMA TransferKeeps ==
  ASSUME PollInv, NEW p \in Poller, Polls!Transfer(p)
  PROVE  PollInv'
<1> DEFINE t == Head(poll[p].pending)
           r == [poll[p] EXCEPT !.pending = Tail(@), !.sockets = @ \ {t.socket}]
           rest == [poll EXCEPT ![p] = r]
<1>1. /\ poll \in [Poller -> PollType] /\ poll[p].pending \in Seq(TransferType) /\ poll[p].pending # <<>>
      /\ poll[p].pc = "work" /\ poll[p].started /\ UNCHANGED <<open, tasks>>
  BY DEF PollInv, Types, Idle, Polls!Transfer, PollType
<1>2. t \in TransferType /\ Tail(poll[p].pending) \in Seq(TransferType)
  BY <1>1
<1>3. /\ r \in PollType /\ r.pc = "work" /\ r.started /\ r.invoke = poll[p].invoke
      /\ r.callbacks = poll[p].callbacks /\ r.sockets = poll[p].sockets \ {t.socket}
      /\ r.newSockets = poll[p].newSockets
  BY <1>1, <1>2 DEF PollType
<1>4. poll' = IF t.socket \in poll[p].sockets THEN Polls!Execute(rest, t) ELSE rest
  BY <1>1 DEF Polls!Transfer, PollType
<1> HIDE DEF t, r
<1>5. rest \in [Poller -> PollType] /\ rest[p] = r /\ \A q \in Poller : q # p => rest[q] = poll[q]
  BY <1>1, <1>3
<1> HIDE DEF rest
<1>6. CASE t.socket \notin poll[p].sockets
  <2>1. poll' = [poll EXCEPT ![p] = r] /\ r.sockets = poll[p].sockets
    BY <1>3, <1>4, <1>6 DEF rest
  <2> QED BY <1>1, <1>3, <2>1, OnePollGoesOn
<1>7. CASE t.socket \in poll[p].sockets
  <2> DEFINE s == t.socket
             to == t.to
  <2>1. s \in Connection /\ to \in Poller
    BY <1>2 DEF TransferType
  <2>2. /\ poll' \in [Poller -> PollType] /\ \A q \in Poller : q # to => poll'[q] = rest[q]
        /\ poll'[to].callbacks = Append(rest[to].callbacks, Polls!Arrival(s)) /\ poll'[to].invoke = rest[to].invoke
        /\ poll'[to].sockets = rest[to].sockets /\ poll'[to].newSockets = rest[to].newSockets
        /\ poll'[to].started /\ (rest[to].started => poll'[to].pc = rest[to].pc)
    BY <1>2, <1>4, <1>5, <1>7, ExecuteType
  <2> HIDE DEF s, to
  <2>3. s \in open /\ \A q \in Poller, v \in Where : q # p \/ v # "poll" => s \notin Held(poll[q], v)
    <3>1. s \in Held(poll[p], "poll") /\ "poll" \in Where
      BY <1>7, HeldPlaces DEF Where, s
    <3> QED BY <2>1, <3>1, NowhereTwice DEF PollInv
  <2>4. \A q \in Poller : /\ rest[q].callbacks = poll[q].callbacks /\ rest[q].invoke = poll[q].invoke
                          /\ rest[q].sockets = (IF q = p THEN poll[q].sockets \ {s} ELSE poll[q].sockets)
                          /\ rest[q].newSockets = poll[q].newSockets
                          /\ rest[q].pc = poll[q].pc /\ (rest[q].started <=> poll[q].started)
    BY <1>1, <1>3, <1>5 DEF s
  <2>5. /\ Arrivals(poll'[to].callbacks) = Arrivals(poll[to].callbacks) \cup {s}
        /\ Once(poll'[to].callbacks)
    <3>1. poll[to].callbacks \in Seq(Callback) /\ Once(poll[to].callbacks)
      BY <1>1, <2>1 DEF PollType, PollInv, NoRepeats
    <3>2. s \notin Arrivals(poll[to].callbacks)
      BY <2>1, <2>3, HeldPlaces DEF Where
    <3>3. poll'[to].callbacks = Append(poll[to].callbacks, Polls!Arrival(s))
      BY <2>1, <2>2, <2>4
    <3> QED BY <2>1, <3>1, <3>2, <3>3, AppendArrival
  <2>11. \A q \in Poller : /\ poll'[q].invoke = poll[q].invoke /\ poll'[q].newSockets = poll[q].newSockets
                           /\ poll'[q].sockets = (IF q = p THEN poll[q].sockets \ {s} ELSE poll[q].sockets)
                           /\ q # to => poll'[q].callbacks = poll[q].callbacks
    <3> SUFFICES ASSUME NEW q \in Poller
                 PROVE  /\ poll'[q].invoke = rest[q].invoke /\ poll'[q].newSockets = rest[q].newSockets
                        /\ poll'[q].sockets = rest[q].sockets /\ (q # to => poll'[q].callbacks = rest[q].callbacks)
      BY <2>4
    <3>1. CASE q = to
      BY <2>2, <3>1
    <3>2. CASE q # to
      BY <2>2, <3>2
    <3> QED BY <3>1, <3>2
  <2>6. Types' /\ NoRepeats'
    BY <1>1, <2>1, <2>2, <2>5, <2>11 DEF PollInv, Types, NoRepeats
  <2>7. Idle'
    <3>1. ~poll[to].started => poll[to].invoke = <<>>
      BY <2>1 DEF PollInv, Idle
    <3> QED BY <2>1, <2>2, <2>4, <3>1 DEF PollInv, Idle
  <2>8. ASSUME NEW q \in Poller, NEW w \in Where
        PROVE  Held(poll'[q], w) = IF q = to /\ w = "callbacks" THEN Held(poll[q], w) \cup {s} ELSE Held(poll[q], w) \ {s}
    <3>1. CASE w = "poll"
      <4>1. Held(poll'[q], w) = IF q = p THEN Held(poll[q], w) \ {s} ELSE Held(poll[q], w)
        BY <2>11, <3>1, HeldPlaces
      <4>2. q # p => s \notin Held(poll[q], w)
        BY <2>3
      <4> QED BY <3>1, <4>1, <4>2
    <3>2. CASE w = "callbacks"
      <4>1. Held(poll'[q], w) = IF q = to THEN Held(poll[q], w) \cup {s} ELSE Held(poll[q], w)
        BY <2>5, <2>11, <3>2, HeldPlaces
      <4>2. s \notin Held(poll[q], w)
        BY <2>3, <3>2
      <4> QED BY <3>2, <4>1, <4>2
    <3>3. CASE w \in {"new", "invoke"}
      <4>1. Held(poll'[q], w) = Held(poll[q], w)
        <5>1. Held(poll'[q], "new") = Held(poll[q], "new")
          BY <2>11, HeldPlaces
        <5>2. Held(poll'[q], "invoke") = Held(poll[q], "invoke")
          BY <2>11, HeldPlaces
        <5> QED BY <3>3, <5>1, <5>2
      <4>2. s \notin Held(poll[q], w)
        BY <2>3, <3>3
      <4> QED BY <3>3, <4>1, <4>2
    <3> QED BY <3>1, <3>2, <3>3 DEF Where
  <2>9. OnePlace'
    BY <1>1, <2>1, <2>3, <2>8, Moving DEF PollInv, Where
  <2> QED BY <2>6, <2>7, <2>9 DEF PollInv
<1> QED BY <1>6, <1>7

(* Only the sockets of the poll itself are closed.                            *)
LEMMA CloseKeeps ==
  ASSUME PollInv, NEW p \in Poller, (\E s \in Connection : Polls!CloseSocket(p, s)) \/ Polls!EndThread(p)
  PROVE  PollInv'
<1>1. poll \in [Poller -> PollType] /\ poll[p].invoke = <<>> /\ poll[p].started /\ tasks' = tasks
  BY DEF PollInv, Types, Idle, Polls!CloseSocket, Polls!EndThread
<1>2. PICK r \in PollType, C \in SUBSET (poll[p].sockets \cup poll[p].newSockets) :
        /\ poll' = [poll EXCEPT ![p] = r] /\ open' = open \ C
        /\ r.started /\ r.invoke = <<>> /\ r.callbacks = poll[p].callbacks
        /\ r.sockets = poll[p].sockets \ C /\ r.newSockets = poll[p].newSockets \ C
  <2>1. CASE Polls!EndThread(p)
    <3> DEFINE r == [poll[p] EXCEPT !.pc = "end", !.finished = TRUE, !.sockets = {}, !.newSockets = {}]
               C == poll[p].sockets \cup poll[p].newSockets
    <3>1. /\ r \in PollType /\ r.started /\ r.invoke = <<>> /\ r.callbacks = poll[p].callbacks
          /\ r.sockets = poll[p].sockets \ C /\ r.newSockets = poll[p].newSockets \ C
      BY <1>1 DEF PollType
    <3>2. poll' = [poll EXCEPT ![p] = r] /\ open' = open \ C
      BY <1>1, <2>1 DEF Polls!EndThread
    <3> QED BY <3>1, <3>2
  <2>2. CASE \E s \in Connection : Polls!CloseSocket(p, s)
    <3>1. PICK s \in Connection : Polls!CloseSocket(p, s)
      BY <2>2
    <3> DEFINE r == [poll[p] EXCEPT !.sockets = @ \ {s}]
    <3>2. s \in poll[p].sockets /\ s \notin poll[p].newSockets
      <4>1. s \in Held(poll[p], "poll") /\ "poll" \in Where /\ "new" \in Where
        BY <3>1, HeldPlaces DEF Where, Polls!CloseSocket
      <4> QED BY <4>1, HeldPlaces, NowhereTwice DEF PollInv
    <3>3. /\ r \in PollType /\ r.started /\ r.invoke = <<>> /\ r.callbacks = poll[p].callbacks
          /\ r.sockets = poll[p].sockets \ {s} /\ r.newSockets = poll[p].newSockets \ {s}
      BY <1>1, <3>2 DEF PollType
    <3>4. poll' = [poll EXCEPT ![p] = r] /\ open' = open \ {s}
      BY <1>1, <3>1 DEF Polls!CloseSocket, PollType
    <3> HIDE DEF r
    <3> QED BY <3>2, <3>3, <3>4
  <2> QED BY <2>1, <2>2
<1>3. C \in SUBSET Connection
  BY <1>1, <1>2 DEF PollType
<1>4. poll'[p] = r /\ \A q \in Poller : q # p => poll'[q] = poll[q]
  BY <1>1, <1>2
<1>5. Types' /\ NoRepeats' /\ Idle'
  <2>1. Once(<<>>)
    BY DEF Once
  <2> QED BY <1>1, <1>2, <1>4, <2>1 DEF PollInv, Types, NoRepeats, Idle
<1>6. ASSUME NEW q \in Poller, NEW w \in Where
      PROVE  Held(poll'[q], w) = Held(poll[q], w) \ C
  <2>1. \A s \in C : q # p \/ w \in {"callbacks", "invoke"} => s \notin Held(poll[q], w)
    <3> SUFFICES ASSUME NEW s \in C, q # p \/ w \in {"callbacks", "invoke"}
                 PROVE  s \notin Held(poll[q], w)
      OBVIOUS
    <3>1. s \in Held(poll[p], "poll") \/ s \in Held(poll[p], "new")
      BY <1>2, HeldPlaces
    <3>2. s \in Connection /\ "poll" \in Where /\ "new" \in Where
      BY <1>3 DEF Where
    <3> QED BY <3>1, <3>2, NowhereTwice DEF PollInv
  <2>2. CASE q # p
    BY <1>4, <2>1, <2>2
  <2>3. CASE q = p /\ w \in {"poll", "new"}
    BY <1>2, <1>4, <2>3, HeldPlaces
  <2>4. CASE q = p /\ w \in {"callbacks", "invoke"}
    <3>1. Held(poll'[q], w) = Held(poll[q], w)
      BY <1>1, <1>2, <1>4, <2>4, HeldPlaces
    <3> QED BY <2>1, <2>4, <3>1
  <2> QED BY <2>2, <2>3, <2>4 DEF Where
<1>7. OnePlace'
  BY <1>2, <1>3, <1>6, Closing DEF PollInv
<1> QED BY <1>5, <1>7 DEF PollInv
-----------------------------------------------------------------------------
(* Every step keeps the invariant. *)
LEMMA Step == Polls!PollAssumption /\ PollInv /\ [Polls!Next]_Polls!pollVars => PollInv'
<1> SUFFICES ASSUME Polls!PollAssumption, PollInv, [Polls!Next]_Polls!pollVars
             PROVE  PollInv'
  OBVIOUS
<1>1. ASSUME NEW p \in Poller, Polls!ThreadStep(p)
      PROVE  PollInv'
  BY <1>1, TakeSocketKeeps, PollsOn, SwapQueuesKeeps, InvokeKeeps, TransferKeeps, CloseKeeps DEF Polls!ThreadStep
<1>2. ASSUME NEW p \in Poller, Polls!AddCallback(p) \/ Polls!Stop(p)
      PROVE  PollInv'
  BY <1>2, AddCallbackKeeps, StopKeeps
<1>3. ASSUME NEW s \in Connection, NEW from \in Poller, NEW to \in Poller, Polls!TransferSocketTo(s, from, to)
      PROVE  PollInv'
  BY <1>3, TransferSocketToKeeps
<1>4. ASSUME NEW s \in Connection, Polls!HangUp(s)
      PROVE  PollInv'
  BY <1>4 DEF Polls!HangUp, PollInv, Types, NoRepeats, Idle, OnePlace
<1>5. CASE UNCHANGED Polls!pollVars
  BY <1>5 DEF Polls!pollVars, PollInv, Types, NoRepeats, Idle, OnePlace
<1> QED BY <1>1, <1>2, <1>3, <1>4, <1>5 DEF Polls!Next

(* PollInv holds of all polls at all times.                                       *)
THEOREM PollInvariant == Polls!PollAssumption => (Polls!Spec => []PollInv)
<1> SUFFICES ASSUME Polls!PollAssumption
             PROVE  Polls!Spec => []PollInv
  OBVIOUS
<1>1. Polls!Init => PollInv
  BY Initially
<1>2. PollInv /\ [Polls!Next]_Polls!pollVars => PollInv'
  BY Step
<1> QED BY <1>1, <1>2, PTL DEF Polls!Spec

(* An open socket is in exactly one poll or on its way to one; a closed one   *)
(* is in none (Socket::assertCorrectThread).                                  *)
THEOREM OneThreadHandles == Polls!PollAssumption => (Polls!Spec => []OneOwner)
<1>1. ASSUME PollInv, NEW s \in Connection
      PROVE  IF s \in open THEN \E o \in Polls!Owners(s) : Polls!Owners(s) = {o}
             ELSE Polls!Owners(s) = {}
  <2> DEFINE Name(w) == IF w \in {"callbacks", "invoke"} THEN "callback" ELSE w
  <2>1. \A x : x \in Polls!Owners(s) <=> \E p \in Poller, w \in Where : s \in Held(poll[p], w) /\ x = <<Name(w), p>>
    <3>1. \A p \in Poller : s \in Arrivals(poll[p].callbacks) \/ s \in Arrivals(poll[p].invoke) <=>
                            \E seq \in {poll[p].callbacks, poll[p].invoke} : \E i \in DOMAIN seq : seq[i] = Polls!Arrival(s)
      BY DEF Arrivals
    <3> QED BY <3>1, HeldPlaces DEF Polls!Owners, Where
  <2>2. CASE s \in open
    <3>1. PICK p \in Poller, w \in Where : s \in Held(poll[p], w)
      BY <1>1, <2>2 DEF PollInv, OnePlace
    <3>2. Polls!Owners(s) = {<<Name(w), p>>}
      BY <1>1, <2>1, <3>1, NowhereTwice DEF PollInv
    <3> QED BY <2>2, <3>2
  <2>3. CASE s \notin open
    BY <1>1, <2>1, <2>3 DEF PollInv, OnePlace
  <2> QED BY <2>2, <2>3
<1>2. PollInv => OneOwner
  BY <1>1 DEF OneOwner, Polls!OneOwner
<1> QED BY <1>2, PollInvariant, PTL
-----------------------------------------------------------------------------
(* The fake sockets. Whoever sleeps has found that what it waits for is not   *)
(* there; the calls that do not notify must not make it true. That a          *)
(* connecting thread sleeps on an end that is still closed is known from its  *)
(* socket having been fresh (FreshIsClosed), which a socket that somebody     *)
(* waits for no longer is.                                                    *)
PairType ==
  [open : [Fake!End -> BOOLEAN], listening : BOOLEAN, connecting : Nat,
   shutdown : [Fake!End -> BOOLEAN], readable : [Fake!End -> BOOLEAN],
   eofDetected : [Fake!End -> BOOLEAN], buffer : [Fake!End -> Nat], fresh : BOOLEAN]
CallType ==
  [op : {"none", "connect", "accept", "poll", "waitAny"}, pair : Nat, asleep : BOOLEAN]

FakeTypes ==
  /\ fds \in Seq(PairType) /\ call \in [User -> CallType] /\ written \in Nat
  /\ DOMAIN owner = DOMAIN fds /\ owner \in Seq([Fake!End -> User])
FreshIsClosed ==
  \A i \in DOMAIN fds :
    /\ fds[i].fresh => ~fds[i].open[1] /\ ~fds[i].listening
    /\ fds[i].connecting # 0 => fds[i].connecting \in DOMAIN fds /\ ~fds[fds[i].connecting].fresh
CallsKnowTheirPair ==
  \A t \in User : call[t].op \in {"connect", "accept"} => call[t].pair \in DOMAIN fds

FakeInv == FakeTypes /\ FreshIsClosed /\ CallsKnowTheirPair /\ NobodySleepsOnWork
-----------------------------------------------------------------------------
(* A call that only takes away: what was not there is not there afterwards.   *)
Less ==
  /\ DOMAIN fds' = DOMAIN fds /\ owner' = owner
  /\ \A i \in DOMAIN fds :
       /\ fds'[i].open = fds[i].open /\ fds'[i].shutdown = fds[i].shutdown
       /\ (fds'[i].listening /\ fds'[i].connecting # 0 => fds[i].listening /\ fds[i].connecting # 0)
       /\ (fds'[i].connecting # 0 => fds[i].connecting # 0)
       /\ \A e \in Fake!End :
            /\ fds'[i].readable[e] => fds[i].readable[e]
            /\ fds'[i].buffer[e] > 0 => fds[i].buffer[e] > 0
            /\ fds[i].eofDetected[e] => fds'[i].eofDetected[e]

LEMMA LessIsNoWork ==
  ASSUME FakeInv, Less, NEW t \in User, call'[t] = call[t], Fake!WaitIsOver(t)'
  PROVE  Fake!WaitIsOver(t)
<1> USE DEF Less, FakeInv, FakeTypes, CallsKnowTheirPair, Fake!Pair, Fake!None
<1>1. CASE call[t].op = "connect"
  BY <1>1 DEF Fake!WaitIsOver
<1>2. CASE call[t].op = "accept"
  BY <1>2 DEF Fake!WaitIsOver
<1>3. CASE call[t].op = "poll"
  <2>1. Fake!PollReady(t)'
    BY <1>3 DEF Fake!WaitIsOver
  <2>2. PICK i \in DOMAIN fds, e \in Fake!End :
          /\ Fake!Owns(t, i, e)'
          /\ fds'[i].readable[e] \/ (e = 0 /\ Fake!PendingAccept(i)') \/ fds'[i].shutdown[Fake!Peer(e)]
    BY <2>1 DEF Fake!PollReady
  <2>3. Fake!Owns(t, i, e)
    BY <2>2 DEF Fake!Owns
  <2>4. fds[i].readable[e] \/ (e = 0 /\ Fake!PendingAccept(i)) \/ fds[i].shutdown[Fake!Peer(e)]
    BY <2>2 DEF Fake!PendingAccept
  <2> QED BY <1>3, <2>3, <2>4 DEF Fake!WaitIsOver, Fake!PollReady
<1>4. CASE call[t].op = "waitAny"
  <2>1. Fake!HasAnyPendingActivityGlobal'
    BY <1>4 DEF Fake!WaitIsOver
  <2>2. PICK i \in DOMAIN fds, e \in Fake!End :
          fds'[i].open[e] /\ (Fake!HasRecordOrConnection(i, e)' \/ Fake!UnseenEof(i, e)')
    BY <2>1 DEF Fake!HasAnyPendingActivityGlobal
  <2>3. fds[i].open[e] /\ (Fake!HasRecordOrConnection(i, e) \/ Fake!UnseenEof(i, e))
    BY <2>2 DEF Fake!HasRecordOrConnection, Fake!UnseenEof, Fake!PendingAccept
  <2> QED BY <1>4, <2>3 DEF Fake!WaitIsOver, Fake!HasAnyPendingActivityGlobal
<1>5. CASE call[t].op = "none"
  BY <1>5 DEF Fake!WaitIsOver
<1> QED BY <1>1, <1>2, <1>3, <1>4, <1>5 DEF CallType

(* Everybody is awake, but for the thread that makes the call.                *)
LEMMA Notified ==
  ASSUME FakeInv, NEW t \in User, NEW c \in CallType, call' = [Fake!NotifyAll EXCEPT ![t] = c]
  PROVE  /\ call' \in [User -> CallType] /\ call'[t] = c
         /\ \A u \in User : u # t => call'[u].op = call[u].op /\ call'[u].pair = call[u].pair /\ ~call'[u].asleep
BY DEF FakeInv, FakeTypes, CallType, Fake!NotifyAll

LEMMA NotifiedAll ==
  ASSUME FakeInv, call' = Fake!NotifyAll
  PROVE  /\ call' \in [User -> CallType]
         /\ \A u \in User : call'[u].op = call[u].op /\ call'[u].pair = call[u].pair /\ ~call'[u].asleep
BY DEF FakeInv, FakeTypes, CallType, Fake!NotifyAll

LEMMA IdleType == Fake!Idle \in CallType /\ ~Fake!Idle.asleep /\ Fake!Idle.op = "none"
BY DEF Fake!Idle, CallType, Fake!None
-----------------------------------------------------------------------------
LEMMA FakeInit == Fake!FakeAssumption /\ Fake!Init => FakeInv
<1> SUFFICES ASSUME Fake!FakeAssumption, Fake!Init PROVE FakeInv
  OBVIOUS
<1>1. \A S : <<>> \in Seq(S)
  OBVIOUS
<1>2. FakeTypes
  BY <1>1, IdleType DEF Fake!Init, FakeTypes
<1>3. \A t \in User : call[t].op = "none" /\ ~call[t].asleep
  BY IdleType DEF Fake!Init
<1> QED BY <1>2, <1>3 DEF FakeInv, FreshIsClosed, CallsKnowTheirPair, NobodySleepsOnWork, Fake!NobodySleepsOnWork, Fake!Init

(* A step of one thread that leaves the pairs alone.                          *)
LEMMA OnlyCallKeeps ==
  ASSUME FakeInv, NEW t \in User, NEW c \in CallType, call' = [call EXCEPT ![t] = c],
         UNCHANGED <<fds, owner, written>>,
         c.op \in {"connect", "accept"} => c.pair \in DOMAIN fds,
         c.asleep => ~Fake!WaitIsOver(t)'
  PROVE  FakeInv'
<1>1. FakeTypes' /\ FreshIsClosed'
  BY DEF FakeInv, FakeTypes, FreshIsClosed
<1>2. call'[t] = c /\ \A u \in User : u # t => call'[u] = call[u]
  BY DEF FakeInv, FakeTypes
<1>3. CallsKnowTheirPair'
  BY <1>2 DEF FakeInv, CallsKnowTheirPair
<1>4. ASSUME NEW u \in User, call'[u].asleep PROVE ~Fake!WaitIsOver(u)'
  <2>1. CASE u = t
    BY <1>2, <1>4, <2>1
  <2>2. CASE u # t
    <3>1. ~Fake!WaitIsOver(u)
      BY <1>2, <1>4, <2>2 DEF FakeInv, NobodySleepsOnWork, Fake!NobodySleepsOnWork
    <3>2. Less
      BY DEF Less
    <3> QED BY <1>2, <2>2, <3>1, <3>2, LessIsNoWork
  <2> QED BY <2>1, <2>2
<1> QED BY <1>1, <1>3, <1>4 DEF FakeInv, NobodySleepsOnWork, Fake!NobodySleepsOnWork

(* A step that takes something away and puts nobody to sleep.                 *)
LEMMA LessKeeps ==
  ASSUME FakeInv, Less, FakeTypes', FreshIsClosed',
         \A u \in User : call'[u] = call[u] \/ (~call'[u].asleep /\ call'[u].op = "none")
  PROVE  FakeInv'
<1>1. CallsKnowTheirPair'
  BY DEF FakeInv, CallsKnowTheirPair, Less
<1>2. ASSUME NEW u \in User, call'[u].asleep PROVE ~Fake!WaitIsOver(u)'
  <2>1. call'[u] = call[u]
    BY <1>2
  <2>2. ~Fake!WaitIsOver(u)
    BY <1>2, <2>1 DEF FakeInv, NobodySleepsOnWork, Fake!NobodySleepsOnWork
  <2> QED BY <2>1, <2>2, LessIsNoWork
<1> QED BY <1>1, <1>2 DEF FakeInv, NobodySleepsOnWork, Fake!NobodySleepsOnWork

(* A step that notifies everybody.                                            *)
LEMMA NotifyKeeps ==
  ASSUME FakeInv, FakeTypes', FreshIsClosed', call' = Fake!NotifyAll, DOMAIN fds' = DOMAIN fds
  PROVE  FakeInv'
BY NotifiedAll DEF FakeInv, CallsKnowTheirPair, NobodySleepsOnWork, Fake!NobodySleepsOnWork

LEMMA PairIs ==
  ASSUME FakeInv, NEW i \in DOMAIN fds
  PROVE  fds[i] \in PairType /\ i \in Nat \ {0}
BY DEF FakeInv, FakeTypes

(* What the handlers assign to one pair.                                      *)
LEMMA PairChanges ==
  ASSUME NEW p \in PairType, NEW k \in Nat
  PROVE  /\ LET q == [p EXCEPT !.listening = TRUE, !.connecting = k, !.fresh = FALSE]
            IN /\ q \in PairType /\ q.connecting = k /\ ~q.fresh /\ q.open = p.open /\ q.shutdown = p.shutdown
               /\ q.readable = p.readable /\ q.buffer = p.buffer /\ q.eofDetected = p.eofDetected
         /\ LET q == [p EXCEPT !.connecting = k]
            IN /\ q \in PairType /\ q.connecting = k /\ q.fresh = p.fresh /\ q.open = p.open
               /\ q.listening = p.listening
         /\ LET q == [p EXCEPT !.fresh = FALSE]
            IN /\ q \in PairType /\ q.connecting = p.connecting /\ ~q.fresh /\ q.open = p.open
               /\ q.listening = p.listening
BY DEF PairType

LEMMA AllocateKeeps ==
  ASSUME FakeInv, NEW t \in User, NEW both \in BOOLEAN, Fake!Allocate(t, both) PROVE FakeInv'
<1> DEFINE new == Fake!NewPair(both)
           mine == [e \in Fake!End |-> t]
<1>1. new \in PairType /\ mine \in [Fake!End -> User]
  BY DEF Fake!NewPair, PairType, Fake!None
<1>2. /\ ~new.listening /\ new.connecting = 0 /\ (new.fresh => ~new.open[1])
      /\ \A e \in Fake!End : ~new.readable[e] /\ ~new.shutdown[e] /\ new.buffer[e] = 0
  <2>1. new.readable = [e \in Fake!End |-> FALSE] /\ new.shutdown = [e \in Fake!End |-> FALSE]
        /\ new.buffer = [e \in Fake!End |-> 0] /\ new.open = [e \in Fake!End |-> e = 0 \/ both]
        /\ new.listening = FALSE /\ new.connecting = 0 /\ new.fresh = ~both
    BY DEF Fake!NewPair, Fake!None
  <2>2. new.open[1] <=> both
    <3>1. 1 \in Fake!End /\ 1 # 0
      BY DEF Fake!End
    <3>2. new.open[1] = (1 = 0 \/ both)
      BY <2>1, <3>1, Zenon
    <3> QED BY <3>1, <3>2
  <2> QED BY <2>1, <2>2
<1>3. fds' = Append(fds, new) /\ owner' = Append(owner, mine) /\ call' = call /\ written' = written
  BY DEF Fake!Allocate
<1> HIDE DEF new, mine
<1>4. /\ FakeTypes' /\ DOMAIN fds' = DOMAIN fds \cup {Len(fds) + 1} /\ fds'[Len(fds) + 1] = new
      /\ Len(fds) + 1 \notin DOMAIN fds
      /\ \A i \in DOMAIN fds : fds'[i] = fds[i] /\ owner'[i] = owner[i]
  BY <1>1, <1>3 DEF FakeInv, FakeTypes
<1>5. FreshIsClosed'
  BY <1>2, <1>4 DEF FakeInv, FreshIsClosed
<1>6. CallsKnowTheirPair'
  BY <1>3, <1>4 DEF FakeInv, CallsKnowTheirPair
<1>7. ASSUME NEW u \in User, call'[u].asleep PROVE ~Fake!WaitIsOver(u)'
  <2> USE <1>3, <1>4 DEF Fake!Pair, Fake!None
  <2>1. ~Fake!WaitIsOver(u)
    BY <1>7 DEF FakeInv, NobodySleepsOnWork, Fake!NobodySleepsOnWork
  <2>2. CASE call[u].op \in {"connect", "accept"}
    BY <2>1, <2>2 DEF Fake!WaitIsOver, FakeInv, CallsKnowTheirPair
  <2>3. CASE call[u].op = "poll"
    <3>1. ASSUME NEW i \in DOMAIN fds', NEW e \in Fake!End, Fake!Owns(u, i, e)'
          PROVE ~(fds'[i].readable[e] \/ (e = 0 /\ Fake!PendingAccept(i)') \/ fds'[i].shutdown[Fake!Peer(e)])
      <4>1. CASE i = Len(fds) + 1
        BY <1>2, <4>1 DEF Fake!PendingAccept, Fake!End, Fake!Peer
      <4>2. CASE i \in DOMAIN fds
        BY <2>1, <2>3, <3>1, <4>2 DEF Fake!WaitIsOver, Fake!PollReady, Fake!Owns, Fake!PendingAccept
      <4> QED BY <4>1, <4>2
    <3> QED BY <2>3, <3>1 DEF Fake!WaitIsOver, Fake!PollReady
  <2>4. CASE call[u].op = "waitAny"
    <3>1. ASSUME NEW i \in DOMAIN fds', NEW e \in Fake!End, fds'[i].open[e]
          PROVE ~(Fake!HasRecordOrConnection(i, e)' \/ Fake!UnseenEof(i, e)')
      <4>1. CASE i = Len(fds) + 1
        BY <1>2, <4>1 DEF Fake!PendingAccept, Fake!HasRecordOrConnection, Fake!UnseenEof
      <4>2. CASE i \in DOMAIN fds
        BY <2>1, <2>4, <3>1, <4>2 DEF Fake!WaitIsOver, Fake!HasAnyPendingActivityGlobal, Fake!PendingAccept, Fake!HasRecordOrConnection, Fake!UnseenEof
      <4> QED BY <4>1, <4>2
    <3> QED BY <2>4, <3>1 DEF Fake!WaitIsOver, Fake!HasAnyPendingActivityGlobal
  <2>5. CASE call[u].op = "none"
    BY <2>5 DEF Fake!WaitIsOver
  <2> QED BY <2>2, <2>3, <2>4, <2>5 DEF FakeInv, FakeTypes, CallType
<1> QED BY <1>4, <1>5, <1>6, <1>7 DEF FakeInv, NobodySleepsOnWork, Fake!NobodySleepsOnWork

LEMMA ListenKeeps ==
  ASSUME FakeInv, NEW t \in User, NEW i \in DOMAIN fds, Fake!Listen(t, i) PROVE FakeInv'
<1> DEFINE q == [fds[i] EXCEPT !.listening = TRUE, !.connecting = 0, !.fresh = FALSE]
<1>1. q \in PairType /\ q.connecting = 0 /\ ~q.fresh /\ q.open = fds[i].open /\ q.shutdown = fds[i].shutdown
      /\ q.readable = fds[i].readable /\ q.buffer = fds[i].buffer /\ q.eofDetected = fds[i].eofDetected
  <2>1. fds[i] \in PairType /\ 0 \in Nat
    BY PairIs
  <2> QED BY <2>1, PairChanges
<1>2. fds' = [fds EXCEPT ![i] = q] /\ UNCHANGED <<call, owner, written>>
  BY DEF Fake!Listen, Fake!None
<1> HIDE DEF q
<1>3. FakeTypes' /\ DOMAIN fds' = DOMAIN fds /\ fds'[i] = q /\ \A j \in DOMAIN fds : j # i => fds'[j] = fds[j]
  BY <1>1, <1>2 DEF FakeInv, FakeTypes
<1>4. FreshIsClosed'
  BY <1>1, <1>3 DEF FakeInv, FreshIsClosed
<1>5. Less
  BY <1>1, <1>2, <1>3 DEF Less
<1> QED BY <1>2, <1>3, <1>4, <1>5, LessKeeps

LEMMA ConnectKeeps ==
  ASSUME FakeInv, NEW t \in User, NEW i \in DOMAIN fds, NEW j \in DOMAIN fds, Fake!Connect(t, i, j)
  PROVE FakeInv'
<1> DEFINE q == [fds[j] EXCEPT !.connecting = i]
           r == [fds[i] EXCEPT !.fresh = FALSE]
           c == [op |-> "connect", pair |-> i, asleep |-> TRUE]
<1>1. i \in Nat /\ i # j /\ ~fds[i].open[1]
  BY DEF Fake!Connect, FakeInv, FakeTypes, FreshIsClosed
<1>2. /\ q \in PairType /\ q.connecting = i /\ q.fresh = fds[j].fresh /\ q.open = fds[j].open
      /\ q.listening = fds[j].listening
  <2>1. fds[j] \in PairType
    BY PairIs
  <2> QED BY <1>1, <2>1, PairChanges
<1>3. /\ r \in PairType /\ r.connecting = fds[i].connecting /\ ~r.fresh /\ r.open = fds[i].open
      /\ r.listening = fds[i].listening
  <2>1. fds[i] \in PairType
    BY PairIs
  <2> QED BY <2>1, PairChanges
<1>4. fds' = [fds EXCEPT ![j] = q, ![i] = r]
  BY <1>1 DEF Fake!Connect
<1>5. c \in CallType /\ call' = [Fake!NotifyAll EXCEPT ![t] = c] /\ UNCHANGED <<owner, written>>
  BY <1>1 DEF CallType, Fake!Connect
<1> HIDE DEF q, r
<1>6. /\ fds' \in Seq(PairType) /\ DOMAIN fds' = DOMAIN fds /\ fds'[j] = q /\ fds'[i] = r
      /\ \A k \in DOMAIN fds : k # i /\ k # j => fds'[k] = fds[k]
  BY <1>1, <1>2, <1>3, <1>4 DEF FakeInv, FakeTypes
<1>7. c.op = "connect" /\ c.pair = i
  OBVIOUS
<1> HIDE DEF c
<1>8. FakeTypes'
  BY <1>5, <1>6, Notified DEF FakeInv, FakeTypes
<1>9. FreshIsClosed'
  BY <1>1, <1>2, <1>3, <1>6 DEF FakeInv, FreshIsClosed
<1>10. CallsKnowTheirPair'
  BY <1>5, <1>6, <1>7, Notified DEF FakeInv, CallsKnowTheirPair
<1>11. ~Fake!WaitIsOver(t)'
  BY <1>1, <1>3, <1>5, <1>6, <1>7, Notified DEF Fake!WaitIsOver
<1> QED BY <1>5, <1>8, <1>9, <1>10, <1>11, Notified DEF FakeInv, NobodySleepsOnWork, Fake!NobodySleepsOnWork

LEMMA TakeConnectionKeeps ==
  ASSUME FakeInv, NEW t \in User, NEW i \in DOMAIN fds, fds[i].connecting # 0,
         Fake!TakeConnection(t, i), written' = written
  PROVE FakeInv'
<1> DEFINE k == fds[i].connecting
<1>1. k \in DOMAIN fds /\ ~fds[k].fresh
  BY DEF FakeInv, FreshIsClosed
<1>2. fds' = [fds EXCEPT ![i].connecting = 0, ![k].open[1] = TRUE]
  BY DEF Fake!TakeConnection, Fake!None
<1> HIDE DEF k
<1>3. /\ fds' \in Seq(PairType) /\ DOMAIN fds' = DOMAIN fds
      /\ \A j \in DOMAIN fds :
           /\ fds'[j].fresh = fds[j].fresh /\ fds'[j].listening = fds[j].listening
           /\ j # k => fds'[j].open = fds[j].open
           /\ fds'[j].connecting \in {0, fds[j].connecting}
  <2> DEFINE q == [fds[i] EXCEPT !.connecting = 0]
             f == [fds EXCEPT ![i] = q]
  <2>1. /\ q \in PairType /\ q.connecting = 0 /\ q.fresh = fds[i].fresh /\ q.open = fds[i].open
        /\ q.listening = fds[i].listening
    BY PairIs, PairChanges
  <2>2. fds' = [f EXCEPT ![k].open = [f[k].open EXCEPT ![1] = TRUE]]
    BY <1>1, <1>2
  <2> HIDE DEF q
  <2>3. /\ f \in Seq(PairType) /\ DOMAIN f = DOMAIN fds
        /\ f[i] = q /\ \A j \in DOMAIN fds : j # i => f[j] = fds[j]
    BY <2>1 DEF FakeInv, FakeTypes
  <2> HIDE DEF f
  <2> DEFINE o == [f[k].open EXCEPT ![1] = TRUE]
             r == [f[k] EXCEPT !.open = o]
  <2>4. f[k] \in PairType
    BY <1>1, <2>3
  <2>5. o \in [Fake!End -> BOOLEAN]
    BY <2>4 DEF PairType
  <2>6. fds' = [f EXCEPT ![k] = r]
    BY <2>2, <2>3, <2>4, <1>1
  <2> HIDE DEF o
  <2>7. r \in PairType /\ r.fresh = f[k].fresh /\ r.listening = f[k].listening /\ r.connecting = f[k].connecting
    BY <2>4, <2>5 DEF PairType
  <2> HIDE DEF r
  <2>8. /\ fds' \in Seq(PairType) /\ DOMAIN fds' = DOMAIN fds
        /\ fds'[k] = r /\ \A j \in DOMAIN fds : j # k => fds'[j] = f[j]
    BY <1>1, <2>3, <2>6, <2>7
  <2> QED BY <1>1, <2>1, <2>3, <2>7, <2>8
<1>4. /\ owner' \in Seq([Fake!End -> User]) /\ DOMAIN owner' = DOMAIN owner
  <2>1. owner' = [owner EXCEPT ![k] = [owner[k] EXCEPT ![1] = t]]
    BY <1>1 DEF Fake!TakeConnection, k
  <2>2. k \in DOMAIN owner /\ owner[k] \in [Fake!End -> User]
    BY <1>1 DEF FakeInv, FakeTypes
  <2>3. [owner[k] EXCEPT ![1] = t] \in [Fake!End -> User]
    BY <2>2
  <2> QED BY <2>1, <2>2, <2>3 DEF FakeInv, FakeTypes
<1>5. call' = [Fake!NotifyAll EXCEPT ![t] = Fake!Idle]
  BY DEF Fake!TakeConnection
<1>6. FakeTypes'
  BY <1>3, <1>4, <1>5, Notified, IdleType DEF FakeInv, FakeTypes
<1>7. FreshIsClosed'
  <2> SUFFICES ASSUME NEW j \in DOMAIN fds
               PROVE  /\ fds'[j].fresh => ~fds'[j].open[1] /\ ~fds'[j].listening
                      /\ fds'[j].connecting # 0 => fds'[j].connecting \in DOMAIN fds /\ ~fds'[fds'[j].connecting].fresh
    BY <1>3 DEF FreshIsClosed
  <2>1. /\ fds[j].fresh => ~fds[j].open[1] /\ ~fds[j].listening
        /\ fds[j].connecting # 0 => fds[j].connecting \in DOMAIN fds /\ ~fds[fds[j].connecting].fresh
    BY DEF FakeInv, FreshIsClosed
  <2>2. fds'[j].fresh = fds[j].fresh /\ fds'[j].listening = fds[j].listening /\ (j # k => fds'[j].open = fds[j].open)
    BY <1>3
  <2>3. fds'[j].fresh => ~fds'[j].open[1] /\ ~fds'[j].listening
    BY <1>1, <2>1, <2>2
  <2>4. ASSUME fds'[j].connecting # 0 PROVE fds'[j].connecting \in DOMAIN fds /\ ~fds'[fds'[j].connecting].fresh
    <3>1. fds'[j].connecting = fds[j].connecting
      BY <1>3, <2>4
    <3> QED BY <1>3, <2>1, <2>4, <3>1
  <2> QED BY <2>3, <2>4
<1>8. CallsKnowTheirPair'
  BY <1>3, <1>5, Notified, IdleType DEF FakeInv, CallsKnowTheirPair
<1> QED BY <1>5, <1>6, <1>7, <1>8, Notified, IdleType DEF FakeInv, NobodySleepsOnWork, Fake!NobodySleepsOnWork

LEMMA AcceptKeeps ==
  ASSUME FakeInv, NEW t \in User, NEW i \in DOMAIN fds, Fake!Accept4(t, i) PROVE FakeInv'
<1> DEFINE c == [op |-> "accept", pair |-> i, asleep |-> TRUE]
<1>1. CASE Fake!PendingAccept(i) /\ Fake!TakeConnection(t, i)
  BY <1>1, TakeConnectionKeeps DEF Fake!Accept4, Fake!PendingAccept, Fake!None
<1>2. CASE ~Fake!PendingAccept(i) /\ call' = [call EXCEPT ![t] = c] /\ UNCHANGED <<fds, owner>>
  <2>1. fds[i].connecting = 0
    BY <1>2 DEF Fake!PendingAccept, Fake!Accept4, Fake!None
  <2>2. c \in CallType /\ c.op = "accept" /\ c.pair = i
    BY DEF CallType, FakeInv, FakeTypes
  <2>3. call'[t] = c /\ UNCHANGED <<fds, owner, written>>
    BY <1>2 DEF FakeInv, FakeTypes, Fake!Accept4
  <2> HIDE DEF c
  <2>4. ~Fake!WaitIsOver(t)'
    BY <2>1, <2>2, <2>3 DEF Fake!WaitIsOver, Fake!None
  <2> QED BY <1>2, <2>2, <2>3, <2>4, OnlyCallKeeps
<1> QED BY <1>1, <1>2 DEF Fake!Accept4
-----------------------------------------------------------------------------
(* A call on one end changes its pair, and neither who is connected nor what  *)
(* was open.                                                                  *)
LEMMA OnePairChanges ==
  ASSUME FakeInv, NEW i \in DOMAIN fds, NEW q \in PairType, fds' = [fds EXCEPT ![i] = q],
         q.connecting = fds[i].connecting, q.fresh = fds[i].fresh, q.listening = fds[i].listening,
         q.open[1] => fds[i].open[1],
         call' \in [User -> CallType], owner' = owner, written' \in Nat
  PROVE  /\ FakeTypes' /\ FreshIsClosed' /\ DOMAIN fds' = DOMAIN fds
         /\ fds'[i] = q /\ \A j \in DOMAIN fds : j # i => fds'[j] = fds[j]
<1>1. /\ FakeTypes' /\ DOMAIN fds' = DOMAIN fds
      /\ fds'[i] = q /\ \A j \in DOMAIN fds : j # i => fds'[j] = fds[j]
  BY DEF FakeInv, FakeTypes
<1>2. FreshIsClosed'
  BY <1>1 DEF FakeInv, FreshIsClosed
<1> QED BY <1>1, <1>2

LEMMA ReadKeeps ==
  ASSUME FakeInv, NEW t \in User, NEW i \in DOMAIN fds, NEW e \in Fake!End, Fake!Read(t, i, e) PROVE FakeInv'
<1> DEFINE p == fds[i]
           rest == IF p.buffer[e] = 0 THEN 0 ELSE p.buffer[e] - 1
           b == (~p.open[Fake!Peer(e)] \/ p.shutdown[Fake!Peer(e)]) \/ rest > 0
           q == [p EXCEPT !.buffer = [p.buffer EXCEPT ![e] = rest], !.readable = [p.readable EXCEPT ![e] = b]]
<1>1. p \in PairType /\ p.readable[e]
  BY PairIs DEF Fake!Read
<1>2. p.buffer[e] \in Nat
  BY <1>1 DEF PairType
<1>3. rest \in Nat /\ (rest > 0 => p.buffer[e] > 0)
  BY <1>2
<1>4. fds' = [fds EXCEPT ![i] = q] /\ UNCHANGED <<call, owner, written>>
  BY DEF Fake!Read
<1>5. b \in BOOLEAN
  OBVIOUS
<1> HIDE DEF p, rest, b
<1>6. /\ q \in PairType /\ q.connecting = p.connecting /\ q.fresh = p.fresh /\ q.listening = p.listening
      /\ q.open = p.open /\ q.shutdown = p.shutdown /\ q.eofDetected = p.eofDetected
      /\ q.buffer = [p.buffer EXCEPT ![e] = rest] /\ q.readable = [p.readable EXCEPT ![e] = b]
  <2>1. [p.buffer EXCEPT ![e] = rest] \in [Fake!End -> Nat] /\ [p.readable EXCEPT ![e] = b] \in [Fake!End -> BOOLEAN]
    BY <1>1, <1>3, <1>5 DEF PairType
  <2> QED BY <1>1, <2>1 DEF PairType
<1> HIDE DEF q
<1>7. \A d \in Fake!End : (q.readable[d] => p.readable[d]) /\ (q.buffer[d] > 0 => p.buffer[d] > 0)
  <2> SUFFICES ASSUME NEW d \in Fake!End
               PROVE (q.readable[d] => p.readable[d]) /\ (q.buffer[d] > 0 => p.buffer[d] > 0)
    OBVIOUS
  <2>1. CASE d = e
    BY <1>1, <1>3, <1>6, <2>1 DEF PairType
  <2>2. CASE d # e
    BY <1>1, <1>6, <2>2 DEF PairType
  <2> QED BY <2>1, <2>2
<1>8. /\ FakeTypes' /\ FreshIsClosed' /\ DOMAIN fds' = DOMAIN fds
      /\ fds'[i] = q /\ \A j \in DOMAIN fds : j # i => fds'[j] = fds[j]
  BY <1>4, <1>6, OnePairChanges DEF FakeInv, FakeTypes, p
<1>9. Less
  BY <1>4, <1>6, <1>7, <1>8 DEF Less, p
<1> QED BY <1>4, <1>8, <1>9, LessKeeps

LEMMA WriteKeeps ==
  ASSUME FakeInv, NEW t \in User, NEW i \in DOMAIN fds, NEW e \in Fake!End, Fake!Write(t, i, e) PROVE FakeInv'
<1> DEFINE p == fds[i]
           d == Fake!Peer(e)
           q == [p EXCEPT !.buffer = [p.buffer EXCEPT ![d] = p.buffer[d] + 1], !.readable = [p.readable EXCEPT ![d] = TRUE]]
<1>1. p \in PairType /\ d \in Fake!End
  BY PairIs DEF Fake!Peer, Fake!End
<1>2. p.buffer[d] + 1 \in Nat
  BY <1>1 DEF PairType
<1>3. fds' = [fds EXCEPT ![i] = q] /\ call' = Fake!NotifyAll /\ owner' = owner /\ written' \in Nat
  <2>1. fds' = [fds EXCEPT ![i].buffer[d] = p.buffer[d] + 1, ![i].readable[d] = TRUE]
    BY DEF Fake!Write
  <2>2. written' \in Nat
    BY DEF Fake!Write, FakeInv, FakeTypes
  <2> QED BY <2>1, <2>2 DEF Fake!Write
<1> HIDE DEF p, d
<1>4. /\ q \in PairType /\ q.connecting = p.connecting /\ q.fresh = p.fresh /\ q.listening = p.listening
      /\ q.open = p.open
  <2>1. [p.buffer EXCEPT ![d] = p.buffer[d] + 1] \in [Fake!End -> Nat] /\ [p.readable EXCEPT ![d] = TRUE] \in [Fake!End -> BOOLEAN]
    BY <1>1, <1>2 DEF PairType
  <2> QED BY <1>1, <2>1 DEF PairType
<1> HIDE DEF q
<1> QED BY <1>3, <1>4, OnePairChanges, NotifiedAll, NotifyKeeps DEF p

LEMMA ShutdownKeeps ==
  ASSUME FakeInv, NEW t \in User, NEW i \in DOMAIN fds, NEW e \in Fake!End, Fake!Shutdown(t, i, e) PROVE FakeInv'
<1> DEFINE p == fds[i]
           d == Fake!Peer(e)
           q == [p EXCEPT !.shutdown = [p.shutdown EXCEPT ![e] = TRUE], !.readable = [p.readable EXCEPT ![d] = TRUE]]
<1>1. p \in PairType /\ d \in Fake!End
  BY PairIs DEF Fake!Peer, Fake!End
<1>2. fds' = [fds EXCEPT ![i] = q] /\ call' = Fake!NotifyAll /\ owner' = owner /\ written' \in Nat
  BY DEF Fake!Shutdown, FakeInv, FakeTypes
<1> HIDE DEF p, d
<1>3. /\ q \in PairType /\ q.connecting = p.connecting /\ q.fresh = p.fresh /\ q.listening = p.listening
      /\ q.open = p.open
  <2>1. [p.shutdown EXCEPT ![e] = TRUE] \in [Fake!End -> BOOLEAN] /\ [p.readable EXCEPT ![d] = TRUE] \in [Fake!End -> BOOLEAN]
    BY <1>1 DEF PairType
  <2> QED BY <1>1, <2>1 DEF PairType
<1> HIDE DEF q
<1> QED BY <1>2, <1>3, OnePairChanges, NotifiedAll, NotifyKeeps DEF p

LEMMA CloseEndKeeps ==
  ASSUME FakeInv, NEW t \in User, NEW i \in DOMAIN fds, NEW e \in Fake!End, Fake!Close(t, i, e) PROVE FakeInv'
<1> DEFINE p == fds[i]
           d == Fake!Peer(e)
           q == [p EXCEPT !.open = [p.open EXCEPT ![e] = FALSE], !.buffer = [p.buffer EXCEPT ![e] = 0],
                          !.readable = [p.readable EXCEPT ![d] = TRUE]]
<1>1. p \in PairType /\ d \in Fake!End /\ 0 \in Nat /\ 1 \in Fake!End
  BY PairIs DEF Fake!Peer, Fake!End
<1>2. fds' = [fds EXCEPT ![i] = q] /\ call' = Fake!NotifyAll /\ owner' = owner /\ written' \in Nat
  BY DEF Fake!Close, FakeInv, FakeTypes
<1> HIDE DEF p, d
<1>3. /\ q \in PairType /\ q.connecting = p.connecting /\ q.fresh = p.fresh /\ q.listening = p.listening
      /\ q.open = [p.open EXCEPT ![e] = FALSE]
  <2>1. /\ [p.open EXCEPT ![e] = FALSE] \in [Fake!End -> BOOLEAN] /\ [p.buffer EXCEPT ![e] = 0] \in [Fake!End -> Nat]
        /\ [p.readable EXCEPT ![d] = TRUE] \in [Fake!End -> BOOLEAN]
    BY <1>1 DEF PairType
  <2> QED BY <1>1, <2>1 DEF PairType
<1> HIDE DEF q
<1>4. q.open[1] => p.open[1]
  BY <1>1, <1>3 DEF PairType
<1> QED BY <1>2, <1>3, <1>4, OnePairChanges, NotifiedAll, NotifyKeeps DEF p
-----------------------------------------------------------------------------
(* A thread that has found nothing goes to sleep.                             *)
LEMMA WaitKeeps ==
  ASSUME FakeInv, NEW t \in User, NEW op \in {"poll", "waitAny"}, Fake!Wait(t, op),
         UNCHANGED <<fds, owner, written>>,
         op = "poll" => ~Fake!PollReady(t), op = "waitAny" => ~Fake!HasAnyPendingActivityGlobal
  PROVE  FakeInv'
<1> DEFINE c == [op |-> op, pair |-> 0, asleep |-> TRUE]
<1>1. c \in CallType /\ c.op = op /\ call' = [call EXCEPT ![t] = c]
  BY DEF CallType, Fake!Wait, Fake!None
<1> HIDE DEF c
<1>2. call'[t] = c
  BY <1>1 DEF FakeInv, FakeTypes
<1>3. /\ Fake!PollReady(t)' <=> Fake!PollReady(t)
      /\ Fake!HasAnyPendingActivityGlobal' <=> Fake!HasAnyPendingActivityGlobal
  BY DEF Fake!PollReady, Fake!HasAnyPendingActivityGlobal, Fake!Pair, Fake!Owns, Fake!PendingAccept,
         Fake!HasRecordOrConnection, Fake!UnseenEof
<1>4. ~Fake!WaitIsOver(t)'
  BY <1>1, <1>2, <1>3 DEF Fake!WaitIsOver
<1> QED BY <1>1, <1>4, OnlyCallKeeps

LEMMA PollKeeps == ASSUME FakeInv, NEW t \in User, Fake!Poll(t) PROVE FakeInv'
BY WaitKeeps DEF Fake!Poll

(* The scan marks ends of streams as seen, and nothing else.                  *)
LEMMA ScanKeeps ==
  ASSUME FakeInv, fds' = Fake!AfterScan, owner' = owner, written' = written,
         call' \in [User -> CallType],
         \A u \in User : call'[u] = call[u] \/ (~call'[u].asleep /\ call'[u].op = "none")
  PROVE  FakeInv'
<1> DEFINE seen(i) == [e \in Fake!End |-> fds[i].eofDetected[e] \/ (Fake!FirstThatCounts(i, e) /\ ~Fake!HasRecordOrConnection(i, e))]
<1>1. fds' = [i \in DOMAIN fds |-> [fds[i] EXCEPT !.eofDetected = seen(i)]]
  BY DEF Fake!AfterScan, Fake!Pair
<1>2. \A i : seen(i) \in [Fake!End -> BOOLEAN] /\ \A e \in Fake!End : fds[i].eofDetected[e] => seen(i)[e]
  OBVIOUS
<1> HIDE DEF seen
<1>3. ASSUME NEW i \in DOMAIN fds
      PROVE  /\ fds'[i] \in PairType /\ fds'[i].eofDetected = seen(i)
             /\ fds'[i].open = fds[i].open /\ fds'[i].shutdown = fds[i].shutdown
             /\ fds'[i].listening = fds[i].listening /\ fds'[i].connecting = fds[i].connecting
             /\ fds'[i].readable = fds[i].readable /\ fds'[i].buffer = fds[i].buffer /\ fds'[i].fresh = fds[i].fresh
  <2>1. fds[i] \in PairType
    BY PairIs
  <2>2. fds'[i] = [fds[i] EXCEPT !.eofDetected = seen(i)]
    BY <1>1
  <2> QED BY <1>2, <2>1, <2>2 DEF PairType
<1>4. DOMAIN fds' = DOMAIN fds /\ fds' \in Seq(PairType)
  <2>1. DOMAIN fds' = DOMAIN fds /\ DOMAIN fds = 1..Len(fds) /\ Len(fds) \in Nat
    BY <1>1 DEF FakeInv, FakeTypes
  <2>2. fds' \in [1..Len(fds) -> PairType]
    BY <1>1, <1>3, <2>1
  <2> QED BY <2>1, <2>2
<1>5. FakeTypes'
  BY <1>4 DEF FakeInv, FakeTypes
<1>6. FreshIsClosed'
  BY <1>3, <1>4 DEF FakeInv, FreshIsClosed
<1>7. Less
  BY <1>2, <1>3, <1>4 DEF Less
<1> QED BY <1>5, <1>6, <1>7, LessKeeps

LEMMA WaitAnyKeeps == ASSUME FakeInv, NEW t \in User, Fake!WaitAny(t) PROVE FakeInv'
<1>1. CASE Fake!HasAnyPendingActivityGlobal /\ fds' = Fake!AfterScan /\ UNCHANGED call
  BY <1>1, ScanKeeps DEF Fake!WaitAny, FakeInv, FakeTypes
<1>2. CASE ~Fake!HasAnyPendingActivityGlobal /\ Fake!Wait(t, "waitAny") /\ UNCHANGED fds
  BY <1>2, WaitKeeps DEF Fake!WaitAny
<1> QED BY <1>1, <1>2 DEF Fake!WaitAny

(* A thread that leaves its call, or is woken, or goes back to sleep.         *)
LEMMA ReturnKeeps ==
  ASSUME FakeInv, NEW t \in User, call' = [call EXCEPT ![t] = Fake!Idle], UNCHANGED <<fds, owner, written>>
  PROVE  FakeInv'
BY IdleType, OnlyCallKeeps

LEMMA SleepOrWakeKeeps ==
  ASSUME FakeInv, NEW t \in User, NEW b \in BOOLEAN, call' = [call EXCEPT ![t].asleep = b],
         b => ~Fake!WaitIsOver(t), UNCHANGED <<fds, owner, written>>
  PROVE  FakeInv'
<1> DEFINE c == [call[t] EXCEPT !.asleep = b]
<1>1. c \in CallType /\ c.op = call[t].op /\ c.pair = call[t].pair /\ (c.asleep <=> b) /\ call' = [call EXCEPT ![t] = c]
  BY DEF FakeInv, FakeTypes, CallType
<1> HIDE DEF c
<1>2. call'[t] = c
  BY <1>1 DEF FakeInv, FakeTypes
<1>3. Fake!WaitIsOver(t)' <=> Fake!WaitIsOver(t)
  <2>1. /\ Fake!PollReady(t)' <=> Fake!PollReady(t)
        /\ Fake!HasAnyPendingActivityGlobal' <=> Fake!HasAnyPendingActivityGlobal
    BY DEF Fake!PollReady, Fake!HasAnyPendingActivityGlobal, Fake!Pair, Fake!Owns, Fake!PendingAccept,
           Fake!HasRecordOrConnection, Fake!UnseenEof
  <2> QED BY <1>1, <1>2, <2>1 DEF Fake!WaitIsOver, FakeInv, FakeTypes, CallType
<1>4. c.op \in {"connect", "accept"} => c.pair \in DOMAIN fds
  BY <1>1 DEF FakeInv, CallsKnowTheirPair
<1> QED BY <1>1, <1>3, <1>4, OnlyCallKeeps

LEMMA GoOnKeeps == ASSUME FakeInv, NEW t \in User, Fake!GoOn(t) PROVE FakeInv'
<1>1. CASE ~Fake!WaitIsOver(t) /\ call' = [call EXCEPT ![t].asleep = TRUE] /\ UNCHANGED <<fds, owner>>
  BY <1>1, SleepOrWakeKeeps DEF Fake!GoOn
<1>2. CASE Fake!WaitIsOver(t) /\ call[t].op = "accept" /\ Fake!TakeConnection(t, call[t].pair)
  <2>1. call[t].pair \in DOMAIN fds /\ fds[call[t].pair].connecting # 0
    BY <1>2 DEF FakeInv, CallsKnowTheirPair, Fake!WaitIsOver, Fake!None
  <2> QED BY <1>2, <2>1, TakeConnectionKeeps DEF Fake!GoOn
<1>3. CASE /\ Fake!WaitIsOver(t) /\ call[t].op # "accept"
           /\ fds' = IF call[t].op = "waitAny" THEN Fake!AfterScan ELSE fds
           /\ call' = [call EXCEPT ![t] = Fake!Idle] /\ UNCHANGED owner
  <2>1. CASE call[t].op = "waitAny"
    <3>1. call' \in [User -> CallType]
          /\ \A u \in User : call'[u] = call[u] \/ (~call'[u].asleep /\ call'[u].op = "none")
      BY <1>3, IdleType DEF FakeInv, FakeTypes
    <3> QED BY <1>3, <2>1, <3>1, ScanKeeps DEF Fake!GoOn
  <2>2. CASE call[t].op # "waitAny"
    BY <1>3, <2>2, ReturnKeeps DEF Fake!GoOn
  <2> QED BY <2>1, <2>2
<1> QED BY <1>1, <1>2, <1>3 DEF Fake!GoOn

LEMMA FakeStep == FakeInv /\ [Fake!Next]_Fake!fakeVars => FakeInv'
<1> SUFFICES ASSUME FakeInv, [Fake!Next]_Fake!fakeVars PROVE FakeInv'
  OBVIOUS
<1>1. CASE UNCHANGED Fake!fakeVars
  <2>1. Less /\ FakeTypes' /\ FreshIsClosed'
    BY <1>1 DEF Fake!fakeVars, FakeInv, FakeTypes, FreshIsClosed, Less
  <2> QED BY <1>1, <2>1, LessKeeps DEF Fake!fakeVars
<1>2. ASSUME NEW t \in User, Fake!Socket(t) \/ Fake!Pipe2(t) PROVE FakeInv'
  BY <1>2, AllocateKeeps DEF Fake!Socket, Fake!Pipe2
<1>3. ASSUME NEW t \in User, NEW i \in DOMAIN fds, Fake!Listen(t, i) \/ Fake!Accept4(t, i) PROVE FakeInv'
  BY <1>3, ListenKeeps, AcceptKeeps
<1>4. ASSUME NEW t \in User, NEW i \in DOMAIN fds, NEW j \in DOMAIN fds, Fake!Connect(t, i, j) PROVE FakeInv'
  BY <1>4, ConnectKeeps
<1>5. ASSUME NEW t \in User, NEW i \in DOMAIN fds, NEW e \in Fake!End,
             Fake!Read(t, i, e) \/ Fake!Write(t, i, e) \/ Fake!Shutdown(t, i, e) \/ Fake!Close(t, i, e)
      PROVE FakeInv'
  BY <1>5, ReadKeeps, WriteKeeps, ShutdownKeeps, CloseEndKeeps
<1>6. ASSUME NEW t \in User, Fake!Poll(t) \/ Fake!WaitAny(t) \/ Fake!GoOn(t) PROVE FakeInv'
  BY <1>6, PollKeeps, WaitAnyKeeps, GoOnKeeps
<1>7. ASSUME NEW t \in User, Fake!TimeOut(t) \/ Fake!SpuriousWakeup(t) PROVE FakeInv'
  <2>1. CASE Fake!TimeOut(t)
    BY <2>1, ReturnKeeps DEF Fake!TimeOut
  <2>2. CASE Fake!SpuriousWakeup(t)
    BY <2>2, SleepOrWakeKeeps DEF Fake!SpuriousWakeup
  <2> QED BY <1>7, <2>1, <2>2
<1> QED BY <1>1, <1>2, <1>3, <1>4, <1>5, <1>6, <1>7 DEF Fake!Next, Fake!Pair

(* A thread never sleeps on what it waits for (net/FakeSocket.cpp): the       *)
(* notifications that the calls make are enough, for any number of threads    *)
(* and sockets.                                                               *)
THEOREM NobodyOversleeps == Fake!FakeAssumption => (Fake!Spec => []NobodySleepsOnWork)
<1>1. Fake!FakeAssumption /\ Fake!Init => FakeInv
  BY FakeInit
<1>2. FakeInv /\ [Fake!Next]_Fake!fakeVars => FakeInv'
  BY FakeStep
<1>3. FakeInv => NobodySleepsOnWork
  BY DEF FakeInv
<1> QED BY <1>1, <1>2, <1>3, PTL DEF Fake!Spec
-----------------------------------------------------------------------------
(* A WebSocket: the sockets that a poll serves, two ends of one connection.   *)
(* What an end sends, reads and handles leaves its socket open (Alike), so it *)
(* closes in handlePoll alone, or by a hard shutdown. That its buffers are    *)
(* sequences and the wire is never above SendBuffer (Shaped) is what the      *)
(* writing of a part of the output needs.                                     *)

Cells(s) == \E S : s \in Seq(S)

LEMMA CellsJoin ==
  ASSUME NEW s, NEW t, Cells(s), Cells(t)
  PROVE  Cells(s \o t) /\ Len(s \o t) = Len(s) + Len(t)
<1>1. PICK S : s \in Seq(S)
  BY DEF Cells
<1>2. PICK T : t \in Seq(T)
  BY DEF Cells
<1>3. s \in Seq(S \cup T) /\ t \in Seq(S \cup T)
  BY <1>1, <1>2
<1>4. s \o t \in Seq(S \cup T) /\ Len(s \o t) = Len(s) + Len(t)
  BY <1>3
<1> QED BY <1>4 DEF Cells

LEMMA CellsCut ==
  ASSUME NEW s, Cells(s), NEW m \in Nat \ {0}, NEW n \in Nat, n <= Len(s), m <= n + 1
  PROVE  Cells(SubSeq(s, m, n)) /\ Len(SubSeq(s, m, n)) = n + 1 - m
<1>1. PICK S : s \in Seq(S)
  BY DEF Cells
<1>2. SubSeq(s, m, n) \in Seq(S) /\ Len(SubSeq(s, m, n)) = n + 1 - m
  BY <1>1
<1> QED BY <1>2 DEF Cells

(* What reads, handles and writes leaves the socket open or closed as it is.  *)
Shaped(c) ==
  /\ DOMAIN c = {"sock", "wire", "ws", "given", "close"}
  /\ DOMAIN c.sock = {"open", "signalled", "ignoring", "disconnected", "processing", "in", "out"}
  /\ Cells(c.sock.in) /\ Cells(c.sock.out) /\ Cells(c.wire) /\ Len(c.wire) <= SendBuffer
Alike(x, c) == Shaped(x) /\ x.sock.open = c.sock.open

LEMMA WritingIsAlike ==
  ASSUME SendBuffer \in Nat, NEW c, Shaped(c), NEW p
  PROVE  Alike(Web!WriteOutgoingData(c, p), c)
<1> DEFINE n == Web!Writable(c.sock, c.wire, p)
           wire == c.wire \o SubSeq(c.sock.out, 1, n)
           out == SubSeq(c.sock.out, n + 1, Len(c.sock.out))
           new == [c EXCEPT !.wire = wire, !.sock.out = out]
<1>1. Cells(c.sock.out) /\ Cells(c.wire) /\ Len(c.wire) <= SendBuffer
      /\ Len(c.wire) \in Nat /\ Len(c.sock.out) \in Nat
  BY DEF Shaped, Cells
<1>2. n \in Nat /\ n <= Len(c.sock.out) /\ n + Len(c.wire) <= SendBuffer
  <2> DEFINE o == Len(c.sock.out)
             w == Len(c.wire)
  <2>1. n = IF ~p THEN 0 ELSE IF o < SendBuffer - w THEN o ELSE SendBuffer - w
    BY DEF Web!Writable
  <2>2. n = 0 \/ (n = o /\ o < SendBuffer - w) \/ (n = SendBuffer - w /\ ~(o < SendBuffer - w))
    <3> HIDE DEF n, o, w
    <3> QED BY <2>1
  <2>3. o \in Nat /\ w \in Nat /\ w <= SendBuffer
    BY <1>1
  <2> HIDE DEF n, o, w
  <2>4. n \in Nat /\ n <= o /\ n + w <= SendBuffer
    BY <2>2, <2>3
  <2> QED BY <2>4 DEF o, w
<1>3. Cells(wire) /\ Len(wire) <= SendBuffer
  <2> HIDE DEF n
  <2>1. Cells(SubSeq(c.sock.out, 1, n)) /\ Len(SubSeq(c.sock.out, 1, n)) = n
    <3>1. n \in Nat /\ n <= Len(c.sock.out) /\ 1 <= n + 1 /\ 1 \in Nat \ {0}
      BY <1>2
    <3>2. Cells(SubSeq(c.sock.out, 1, n)) /\ Len(SubSeq(c.sock.out, 1, n)) = n + 1 - 1
      BY <1>1, <3>1, CellsCut
    <3> QED BY <3>1, <3>2
  <2>2. Cells(wire) /\ Len(wire) = Len(c.wire) + Len(SubSeq(c.sock.out, 1, n))
    BY <1>1, <2>1, CellsJoin
  <2> DEFINE w == Len(c.wire)
             k == Len(wire)
  <2>3. k = w + n /\ w \in Nat /\ n \in Nat /\ n + w <= SendBuffer
    BY <1>1, <1>2, <2>1, <2>2
  <2> HIDE DEF wire, w, k
  <2>4. k <= SendBuffer
    BY <2>3
  <2> QED BY <2>2, <2>4 DEF k
<1>4. Cells(out)
  <2> DEFINE l == Len(c.sock.out)
             m == n + 1
  <2>1. l \in Nat /\ m \in Nat \ {0} /\ l <= Len(c.sock.out) /\ m <= l + 1
    <3> HIDE DEF n
    <3> QED BY <1>1, <1>2
  <2> HIDE DEF l, m
  <2>2. Cells(SubSeq(c.sock.out, m, l))
    BY <1>1, <2>1, CellsCut
  <2> QED BY <2>2 DEF l, m
<1>5. Web!WriteOutgoingData(c, p) = new
  BY DEF Web!WriteOutgoingData
<1> HIDE DEF n, wire, out
<1>6. Alike(new, c)
  BY <1>3, <1>4 DEF Shaped, Alike
<1> HIDE DEF new
<1> QED BY <1>5, <1>6

LEMMA SendingIsAlike ==
  ASSUME SendBuffer \in Nat, NEW c, Shaped(c), NEW f, NEW flush, NEW p
  PROVE  Alike(Web!SendFrame(c, f, flush, p), c)
<1> DEFINE queued == [c EXCEPT !.sock.out = @ \o Web!BuildFrame(f)]
<1>1. Alike(queued, c)
  <2> DEFINE more == c.sock.out \o Web!BuildFrame(f)
  <2>1. Cells(Web!BuildFrame(f))
    <3> DEFINE a == [frame |-> f, half |-> 1]
               b == [frame |-> f, half |-> 2]
    <3>1. Web!BuildFrame(f) = <<a, b>>
      BY DEF Web!BuildFrame
    <3> HIDE DEF a, b
    <3>2. <<a, b>> \in Seq({a, b})
      OBVIOUS
    <3> QED BY <3>1, <3>2 DEF Cells
  <2>2. Cells(more)
    BY <2>1, CellsJoin DEF Shaped
  <2>3. queued = [c EXCEPT !.sock.out = more]
    BY DEF Shaped
  <2> HIDE DEF more, queued
  <2> QED BY <2>2, <2>3 DEF Shaped, Alike
<1>2. Web!SendFrame(c, f, flush, p) \in {c, queued, Web!WriteOutgoingData(queued, p)}
  BY DEF Web!SendFrame
<1> HIDE DEF queued
<1>3. Alike(Web!WriteOutgoingData(queued, p), c)
  BY <1>1, WritingIsAlike DEF Alike
<1> QED BY <1>1, <1>2, <1>3 DEF Alike

LEMMA ShutdownIsAlike ==
  ASSUME SendBuffer \in Nat, NEW c, Shaped(c), NEW p
  PROVE  Alike(Web!ShutdownImpl(c, FALSE, p), c)
<1> DEFINE telling == [c EXCEPT !.ws.shuttingDown = TRUE]
           told == IF c.ws.shuttingDown THEN c ELSE Web!SendCloseFrame(c, p)
           quiet == Web!IgnoreInput(Web!AsyncShutdown(told.sock))
           new == [told EXCEPT !.ws = Web!NewHandler, !.sock = quiet]
<1>1. Alike(telling, c)
  BY DEF Shaped, Alike
<1>2. told \in {c, Web!SendFrame(telling, Web!Control("close"), TRUE, p)}
  BY DEF Web!SendCloseFrame
<1> HIDE DEF telling
<1>3. Alike(told, c)
  <2> HIDE DEF told
  <2>1. Alike(Web!SendFrame(telling, Web!Control("close"), TRUE, p), c)
    <3>1. Shaped(telling)
      BY <1>1 DEF Alike
    <3>2. Alike(Web!SendFrame(telling, Web!Control("close"), TRUE, p), telling)
      BY <3>1, SendingIsAlike, Zenon
    <3> QED BY <1>1, <3>2 DEF Alike
  <2> QED BY <1>2, <2>1 DEF Alike
<1>4. Web!ShutdownImpl(c, FALSE, p) = new
  BY DEF Web!ShutdownImpl
<1> HIDE DEF told
<1>5. Alike(new, c)
  <2>1. Cells(<<>>)
    <3>1. <<>> \in Seq({})
      OBVIOUS
    <3> QED BY <3>1 DEF Cells
  <2> QED BY <1>3, <2>1 DEF Shaped, Alike, Web!IgnoreInput, Web!AsyncShutdown
<1> HIDE DEF new
<1> QED BY <1>4, <1>5

LEMMA FrameIsAlike ==
  ASSUME SendBuffer \in Nat, NEW c, Shaped(c), NEW p
  PROVE  Alike(Web!HandleTCPStream(c, p), c)
<1> DEFINE f == c.sock.in[1].frame
           rest == [c EXCEPT !.sock = Web!EraseFirstInputBytes(@, 2)]
           control == Web!HandleControlFrame(rest, f, p)
           data == Web!HandleDataFrame(rest, f)
<1> DEFINE short == ~c.sock.processing \/ Len(c.sock.in) < 2
<1>1. ASSUME ~short PROVE Alike(rest, c)
  <2> DEFINE left == SubSeq(c.sock.in, 3, Len(c.sock.in))
  <2>1. Len(c.sock.in) \in Nat
    BY DEF Shaped, Cells
  <2>2. Cells(left)
    BY <1>1, <2>1, CellsCut DEF Shaped
  <2>3. rest = [c EXCEPT !.sock = [c.sock EXCEPT !.in = left]]
    BY DEF Shaped, Web!EraseFirstInputBytes
  <2> HIDE DEF left, rest
  <2> QED BY <2>2, <2>3 DEF Shaped, Alike
<1>2. /\ short => Web!HandleTCPStream(c, p) = c
      /\ ~short /\ Web!IsControlFrame(f) => Web!HandleTCPStream(c, p) = control
      /\ ~short /\ ~Web!IsControlFrame(f) =>
           Web!HandleTCPStream(c, p) \in {Web!ShutdownImpl(c, FALSE, p), data}
  <2>1. Web!HandleTCPStream(c, p) =
          IF short THEN c
          ELSE IF Web!IsControlFrame(f) THEN control
          ELSE IF (f.op = "continuation") # c.ws.inFragmentBlock THEN Web!ShutdownImpl(c, FALSE, p)
          ELSE data
    BY DEF Web!HandleTCPStream
  <2> HIDE DEF control, data
  <2> QED BY <2>1
<1> HIDE DEF rest
<1>3. ASSUME ~short, f.op \in {"ping", "pong", "close"} PROVE Alike(control, c)
  <2>1. CASE f.op = "pong"
    BY <1>1, <1>3, <2>1 DEF Web!HandleControlFrame
  <2>2. CASE f.op = "ping"
    <3>1. control = Web!SendFrame(rest, Web!Control("pong"), FALSE, p)
      BY <2>2 DEF Web!HandleControlFrame
    <3>2. Alike(Web!SendFrame(rest, Web!Control("pong"), FALSE, p), rest)
      BY <1>1, <1>3, SendingIsAlike, Zenon DEF Alike
    <3> QED BY <1>1, <1>3, <3>1, <3>2 DEF Alike
  <2>3. CASE f.op = "close"
    <3> DEFINE down == Web!ShutdownImpl(rest, FALSE, p)
    <3>1. control = [down EXCEPT !.close = TRUE]
      BY <2>3 DEF Web!HandleControlFrame
    <3>2. Alike(down, c)
      BY <1>1, <1>3, ShutdownIsAlike DEF Alike
    <3> HIDE DEF down, control
    <3> QED BY <3>1, <3>2 DEF Alike, Shaped
  <2> QED BY <1>3, <2>1, <2>2, <2>3
<1>4. ASSUME ~short PROVE Alike(data, c) /\ Alike(Web!ShutdownImpl(c, FALSE, p), c)
  <2>1. Alike(rest, c)
    BY <1>1, <1>4
  <2>2. Alike(data, c)
    BY <2>1 DEF Alike, Shaped, Web!HandleDataFrame
  <2> QED BY <2>1, <2>2, ShutdownIsAlike DEF Alike
<1>5. Alike(c, c)
  BY DEF Alike
<1> HIDE DEF control, data, short
<1> QED BY <1>2, <1>3, <1>4, <1>5 DEF Web!IsControlFrame

(* A recursion along a sequence of any length has its values.                 *)
LEMMA MessagesAreAlike ==
  ASSUME SendBuffer \in Nat, NEW c, Shaped(c), NEW p
  PROVE  Alike(Web!HandleIncomingMessage(c, p), c)
<1> DEFINE L == Len(c.sock.in)
           N(x) == Web!HandleTCPStream(x, p)
           F(h, n) == [i \in 0 .. n |-> IF i = 0 THEN c ELSE N(h[i - 1])]
           P == {n \in 0 .. L : \E h : h = F(h, n)}
<1> HIDE DEF L, N
<1>1. L \in Nat
  BY DEF L, Shaped, Cells
<1>3. 0 \in P
  <2> DEFINE z == [i \in 0 .. 0 |-> c]
  <2>1. z = F(z, 0)
    OBVIOUS
  <2> HIDE DEF z
  <2>2. \E h : h = F(h, 0)
    BY <2>1
  <2> QED BY <1>1, <2>2
<1>4. ASSUME NEW n \in 1 .. L, n - 1 \in P PROVE n \in P
  <2>1. PICK h : h = F(h, n - 1)
    BY <1>4
  <2> DEFINE k == [i \in 0 .. n |-> IF i = n THEN N(h[n - 1]) ELSE h[i]]
  <2>2. ASSUME NEW i \in 0 .. n PROVE k[i] = IF i = 0 THEN c ELSE N(k[i - 1])
    <3>1. \A j \in 0 .. n - 1 : h[j] = IF j = 0 THEN c ELSE N(h[j - 1])
      BY <2>1
    <3>2. CASE i = n
      <4>1. k[n - 1] = h[n - 1] /\ k[n] = N(h[n - 1]) /\ n # 0
        BY <1>1
      <4> QED BY <3>2, <4>1
    <3>3. CASE i # n
      <4>1. i \in 0 .. n - 1 /\ k[i] = h[i] /\ (i # 0 => k[i - 1] = h[i - 1])
        BY <1>1, <3>3
      <4> QED BY <3>1, <4>1
    <3> QED BY <3>2, <3>3
  <2>3. k = F(k, n)
    BY <2>2
  <2> HIDE DEF k
  <2>4. \E g : g = F(g, n)
    BY <2>3
  <2> QED BY <2>4
<1> HIDE DEF P
<1>5. L \in P
  <2>1. \A n \in 0 .. L : n \in P
    BY <1>1, <1>3, <1>4, Stepwise
  <2> QED BY <1>1, <2>1
<1>6. \E h : h = F(h, L)
  BY <1>5 DEF P
<1>7. PICK h : h = F(h, L) /\ Web!HandleIncomingMessage(c, p) = h[L]
  BY <1>6 DEF Web!HandleIncomingMessage, L, N
<1> DEFINE T == {n \in 0 .. L : Alike(h[n], c)}
<1>8. h[0] = c /\ \A n \in 1 .. L : h[n] = N(h[n - 1])
  <2>1. \A n \in 0 .. L : h[n] = IF n = 0 THEN c ELSE N(h[n - 1])
    BY <1>7
  <2> QED BY <1>1, <2>1
<1>9. 0 \in T /\ \A n \in 1 .. L : n - 1 \in T => n \in T
  <2>1. \A x : Alike(x, c) => Alike(N(x), c)
    BY FrameIsAlike DEF Alike, N
  <2> QED BY <1>1, <1>8, <2>1 DEF Alike
<1> HIDE DEF T
<1>10. \A n \in 0 .. L : n \in T
  BY <1>1, <1>9, Stepwise
<1> QED BY <1>1, <1>7, <1>10 DEF T

IgnoresAlike(x, c) == x.sock.ignoring = c.sock.ignoring

LEMMA SendingIgnoresOrNot ==
  ASSUME NEW c, Shaped(c), NEW f, NEW flush, NEW p
  PROVE  IgnoresAlike(Web!SendFrame(c, f, flush, p), c)
<1> DEFINE queued == [c EXCEPT !.sock.out = @ \o Web!BuildFrame(f)]
<1>1. DOMAIN queued = DOMAIN c /\ DOMAIN queued.sock = DOMAIN c.sock
      /\ queued.sock.ignoring = c.sock.ignoring
  BY DEF Shaped
<1>2. Web!SendFrame(c, f, flush, p) \in {c, queued, Web!WriteOutgoingData(queued, p)}
  BY DEF Web!SendFrame
<1> HIDE DEF queued
<1>3. Web!WriteOutgoingData(queued, p).sock.ignoring = c.sock.ignoring
  BY <1>1 DEF Shaped, Web!WriteOutgoingData
<1> QED BY <1>1, <1>2, <1>3 DEF IgnoresAlike

(* A poll closes a socket when its output is written, when the peer is gone,  *)
(* or when reading shows that it is.                                          *)
LEMMA PollingCloses ==
  ASSUME SendBuffer \in Nat, NEW c, Shaped(c), NEW events, NEW incoming, Cells(incoming),
         NEW n \in 0 .. Len(incoming), NEW p, NEW d, d = Web!HandlePoll(c, events, n, incoming, p)
  PROVE  /\ Shaped(d)
         /\ \/ d.sock.open = c.sock.open
            \/ d.sock.out = <<>>
            \/ events.out /\ ~p
            \/ Web!ReadClosed(c.sock, events, n)
<1> DEFINE read == IF events.in THEN [c EXCEPT !.sock = Web!ReadIncomingData(@, incoming, n)] ELSE c
           handled == Web!HandleIncomingMessage(read, p)
           wrote == Web!PerformShutdown(handled, events, p)
           gone == Web!ReadClosed(c.sock, events, n)
<1>1. d = IF wrote.closed \/ gone THEN [wrote.c EXCEPT !.sock = Web!EnsureDisconnected(@)] ELSE wrote.c
  BY DEF Web!HandlePoll, Web!With
<1>2. Alike(read, c)
  <2> DEFINE in == c.sock.in \o SubSeq(incoming, 1, n)
  <2>1. Cells(in)
    <3>1. Cells(SubSeq(incoming, 1, n))
      <4>1. n \in Nat /\ n <= Len(incoming) /\ 1 <= n + 1 /\ 1 \in Nat \ {0}
        BY DEF Cells
      <4> QED BY <4>1, CellsCut
    <3> QED BY <3>1, CellsJoin DEF Shaped
  <2>2. read \in {c, [c EXCEPT !.sock = c.sock], [c EXCEPT !.sock = [c.sock EXCEPT !.in = in]]}
    BY DEF Web!ReadIncomingData, Shaped
  <2> HIDE DEF in, read
  <2> QED BY <2>1, <2>2 DEF Shaped, Alike
<1> HIDE DEF read
<1>3. Alike(handled, c)
  BY <1>2, MessagesAreAlike DEF Alike
<1> HIDE DEF handled
<1>4. /\ Alike(wrote.c, c)
      /\ wrote.closed => wrote.c.sock.out = <<>> \/ (events.out /\ ~p)
  <2> DEFINE flushed == IF events.out /\ handled.sock.out # <<>>
                        THEN Web!WriteOutgoingData(handled, p) ELSE handled
  <2>1. wrote = [c |-> flushed,
                 closed |-> \/ flushed.sock.signalled /\ flushed.sock.out = <<>>
                            \/ events.out /\ flushed.sock.out # <<>> /\ ~p]
    BY DEF Web!PerformShutdown
  <2>2. Alike(Web!WriteOutgoingData(handled, p), c)
    BY <1>3, WritingIsAlike DEF Alike
  <2>3. Alike(flushed, c)
    BY <1>3, <2>2
  <2> HIDE DEF flushed
  <2>4. wrote.c = flushed
    BY <2>1
  <2>5. ASSUME wrote.closed PROVE flushed.sock.out = <<>> \/ (events.out /\ ~p)
    <3>1. wrote.closed = (\/ flushed.sock.signalled /\ flushed.sock.out = <<>>
                          \/ events.out /\ flushed.sock.out # <<>> /\ ~p)
      BY <2>1
    <3> HIDE DEF wrote
    <3> QED BY <2>5, <3>1
  <2> HIDE DEF wrote
  <2> QED BY <2>3, <2>4, <2>5
<1> HIDE DEF wrote, gone
<1>5. CASE wrote.closed \/ gone
  <2>1. d = [wrote.c EXCEPT !.sock = Web!EnsureDisconnected(wrote.c.sock)]
    BY <1>1, <1>4, <1>5 DEF Alike, Shaped
  <2>2. Shaped(d) /\ d.sock.out = wrote.c.sock.out
    BY <1>4, <2>1 DEF Alike, Shaped, Web!EnsureDisconnected
  <2> QED BY <1>4, <1>5, <2>2 DEF gone
<1>6. CASE ~(wrote.closed \/ gone)
  BY <1>1, <1>4, <1>6 DEF Alike
<1> QED BY <1>5, <1>6
-----------------------------------------------------------------------------
(* Each step.                                                                 *)

WebInv ==
  /\ conn = [e \in Web!End |-> conn[e]]
  /\ \A e \in Web!End : Shaped(conn[e])
  /\ Web!FlushedBeforeClose

LEMMA Peers ==
  ASSUME NEW e \in Web!End
  PROVE  Web!Peer(e) \in Web!End /\ Web!Peer(e) # e /\ \A f \in Web!End : f = e \/ f = Web!Peer(e)
BY DEF Web!End, Web!Peer

(* An open end that stays open breaks nothing.                                *)
LEMMA OpenStays ==
  ASSUME WebInv, NEW e \in Web!End, conn[e].sock.open, NEW x, Alike(x, conn[e]),
         conn' = [conn EXCEPT ![e] = x], crossed' = crossed
  PROVE  WebInv'
<1>1. \A f \in Web!End : conn'[f] = IF f = e THEN x ELSE conn[f]
  BY DEF WebInv
<1>2. conn' = [f \in Web!End |-> conn'[f]] /\ \A f \in Web!End : Shaped(conn'[f])
  BY <1>1 DEF WebInv, Alike
<1>3. Web!FlushedBeforeClose'
  <2> SUFFICES ASSUME NEW f \in Web!End, ~conn'[f].sock.open
               PROVE  conn'[f].sock.out = <<>> \/ f \in crossed' \/ ~conn'[Web!Peer(f)].sock.open
    BY DEF Web!FlushedBeforeClose, Web!IsOpen
  <2>1. f # e /\ conn'[f] = conn[f]
    BY <1>1 DEF Alike
  <2>2. Web!Peer(f) = e
    BY <2>1, Peers
  <2>3. conn[f].sock.out = <<>> \/ f \in crossed
    BY <2>1, <2>2 DEF WebInv, Web!FlushedBeforeClose, Web!IsOpen
  <2> QED BY <2>1, <2>3
<1> QED BY <1>2, <1>3 DEF WebInv

LEMMA PollFlushes ==
  ASSUME SendBuffer \in Nat, WebInv, NEW e \in Web!End, NEW due \in BOOLEAN, NEW gone \in BOOLEAN,
         Web!Poll(e, due, gone)
  PROVE  WebInv'
<1> DEFINE other == Web!Peer(e)
           peer == conn[other]
           sock == conn[e].sock
           events == Web!PollEvents(sock, conn[e].wire, peer.wire, ~gone)
           start == Web!CheckTimeout(conn[e], due)
<1>1. other \in Web!End /\ other # e /\ \A f \in Web!End : f = e \/ f = other
  BY Peers
<1>2. /\ sock.open /\ (gone => ~peer.sock.open)
      /\ \E n \in IF sock.ignoring \/ peer.wire = <<>> THEN {0}
                  ELSE IF gone THEN {Len(peer.wire)} ELSE 1 .. Len(peer.wire) :
           \E d \in {Web!HandlePoll(start, events, n, peer.wire, ~gone)} : Web!Polled(e, d, n)
  BY DEF Web!Poll
<1>3. PICK n \in IF sock.ignoring \/ peer.wire = <<>> THEN {0}
                 ELSE IF gone THEN {Len(peer.wire)} ELSE 1 .. Len(peer.wire) :
           \E d \in {Web!HandlePoll(start, events, n, peer.wire, ~gone)} : Web!Polled(e, d, n)
  BY <1>2
<1>4. PICK d : d = Web!HandlePoll(start, events, n, peer.wire, ~gone) /\ Web!Polled(e, d, n)
  BY <1>3
<1>5. Shaped(conn[e]) /\ Shaped(peer) /\ Cells(peer.wire) /\ Len(peer.wire) \in Nat
      /\ Len(peer.wire) <= SendBuffer
  BY <1>1 DEF WebInv, Shaped, Cells
<1>6. n \in 0 .. Len(peer.wire) /\ (n = 0 => sock.ignoring \/ peer.wire = <<>>)
  <2>1. peer.wire # <<>> => Len(peer.wire) # 0
    BY <1>5 DEF Cells
  <2> HIDE DEF peer, sock
  <2> QED BY <1>5, <2>1
<1>7. Alike(start, conn[e]) /\ start.sock.ignoring = sock.ignoring
  <2>1. start = conn[e] \/ start = Web!SendFrame(conn[e], Web!Control("ping"), FALSE, TRUE)
    BY DEF Web!CheckTimeout
  <2>2. Alike(Web!SendFrame(conn[e], Web!Control("ping"), FALSE, TRUE), conn[e])
    BY <1>5, SendingIsAlike, Zenon
  <2>3. IgnoresAlike(Web!SendFrame(conn[e], Web!Control("ping"), FALSE, TRUE), conn[e])
    BY <1>5, SendingIgnoresOrNot, Zenon
  <2> HIDE DEF start
  <2> QED BY <1>5, <2>1, <2>2, <2>3 DEF Alike, IgnoresAlike
<1>8. /\ Shaped(d)
      /\ \/ d.sock.open = start.sock.open
         \/ d.sock.out = <<>>
         \/ events.out /\ ~~gone
         \/ Web!ReadClosed(start.sock, events, n)
  <2> HIDE DEF start, events, peer
  <2> QED BY <1>4, <1>5, <1>6, <1>7, PollingCloses DEF Alike
<1>9. /\ events.in = (peer.wire # <<>> \/ gone) /\ events.hup = gone
  BY DEF Web!PollEvents
<1>10. d.sock.open \/ d.sock.out = <<>> \/ gone \/ n < Len(peer.wire)
  <2>1. ASSUME Web!ReadClosed(start.sock, events, n), ~gone PROVE n < Len(peer.wire)
    <3>1. peer.wire # <<>> /\ (sock.ignoring \/ n = 0)
      <4> HIDE DEF start, events, peer, sock
      <4> QED BY <1>7, <1>9, <2>1 DEF Web!ReadClosed
    <3>2. n = 0 /\ Len(peer.wire) # 0
      <4>1. Len(peer.wire) # 0
        BY <1>5, <3>1 DEF Cells
      <4>2. n = 0
        BY <1>3, <3>1
      <4> QED BY <4>1, <4>2
    <3> QED BY <1>5, <3>2
  <2>2. start.sock.open = sock.open /\ sock.open
    BY <1>2, <1>7 DEF Alike
  <2> HIDE DEF start, events, peer, sock
  <2> QED BY <1>8, <2>1, <2>2
<1> DEFINE x == [d EXCEPT !.given = <<>>, !.close = FALSE]
           y == [peer EXCEPT !.wire = IF d.sock.open THEN SubSeq(@, n + 1, Len(@)) ELSE <<>>]
<1>11. conn' = [conn EXCEPT ![e] = x, ![other] = y] /\ crossed \subseteq crossed'
       /\ (~d.sock.open /\ n < Len(peer.wire) => e \in crossed')
  <2>1. conn' = [conn EXCEPT ![e] = x,
                   ![other].wire = IF d.sock.open THEN SubSeq(@, n + 1, Len(@)) ELSE <<>>]
        /\ crossed' = crossed \cup {z \in {e} : ~d.sock.open /\ n < Len(peer.wire)}
                              \cup {z \in {other} : ~d.sock.open /\ d.sock.in # <<>>}
    BY <1>4 DEF Web!Polled
  <2>2. conn' = [conn EXCEPT ![e] = x, ![other] = y]
    BY <1>1, <2>1 DEF WebInv
  <2> QED BY <2>1, <2>2
<1>12. Shaped(x) /\ x.sock = d.sock /\ Shaped(y) /\ y.sock = peer.sock
  <2>1. Shaped(x) /\ x.sock = d.sock
    BY <1>8 DEF Shaped
  <2> DEFINE w == IF d.sock.open THEN SubSeq(peer.wire, n + 1, Len(peer.wire)) ELSE <<>>
  <2>2. Cells(w) /\ Len(w) <= SendBuffer
    <3>1. Cells(SubSeq(peer.wire, n + 1, Len(peer.wire)))
          /\ Len(SubSeq(peer.wire, n + 1, Len(peer.wire))) <= SendBuffer
      <4> DEFINE l == Len(peer.wire)
                 m == n + 1
      <4>1. l \in Nat /\ m \in Nat \ {0} /\ l <= Len(peer.wire) /\ m <= l + 1
        BY <1>5, <1>6
      <4>2. l + 1 - m <= SendBuffer
        <5>1. l \in Nat /\ l <= SendBuffer /\ n \in Nat
          BY <1>5, <1>6
        <5> HIDE DEF l
        <5> QED BY <5>1
      <4> HIDE DEF l, m
      <4>3. Cells(SubSeq(peer.wire, m, l)) /\ Len(SubSeq(peer.wire, m, l)) = l + 1 - m
        <5> HIDE DEF peer
        <5> QED BY <1>5, <4>1, CellsCut
      <4> QED BY <4>2, <4>3 DEF l, m
    <3>2. Cells(<<>>) /\ Len(<<>>) = 0
      <4>1. <<>> \in Seq({})
        OBVIOUS
      <4> QED BY <4>1 DEF Cells
    <3> QED BY <3>1, <3>2
  <2>3. y = [peer EXCEPT !.wire = w]
    BY <1>5 DEF Shaped
  <2> HIDE DEF x, y, w, peer
  <2>4. Shaped(y) /\ y.sock = peer.sock
    BY <1>5, <2>2, <2>3 DEF Shaped
  <2> QED BY <2>1, <2>4
<1>13. conn'[e] = x /\ conn'[other] = y /\ conn' = [f \in Web!End |-> conn'[f]]
  <2> HIDE DEF x, y, other
  <2> QED BY <1>1, <1>11 DEF WebInv
<1>14. Web!FlushedBeforeClose'
  <2> HIDE DEF x, y
  <2>1. ASSUME ~conn'[e].sock.open
        PROVE  conn'[e].sock.out = <<>> \/ e \in crossed' \/ ~conn'[other].sock.open
    BY <1>2, <1>10, <1>11, <1>12, <1>13, <2>1
  <2>2. ASSUME ~conn'[other].sock.open
        PROVE  conn'[other].sock.out = <<>> \/ other \in crossed'
    <3>1. ~conn[other].sock.open /\ conn[Web!Peer(other)].sock.open
      <4>1. Web!Peer(other) = e
        BY <1>1, Peers
      <4> QED BY <1>2, <1>12, <1>13, <2>2, <4>1
    <3>2. conn[other].sock.out = <<>> \/ other \in crossed
      BY <1>1, <3>1 DEF WebInv, Web!FlushedBeforeClose, Web!IsOpen
    <3> QED BY <1>11, <1>12, <1>13, <3>2
  <2> QED BY <1>1, <2>1, <2>2 DEF Web!FlushedBeforeClose, Web!IsOpen
<1> QED BY <1>1, <1>12, <1>13, <1>14 DEF WebInv

LEMMA MessageFlushes ==
  ASSUME SendBuffer \in Nat, WebInv, NEW e \in Web!End, NEW flush \in BOOLEAN,
         Web!SendMessage(e, flush)
  PROVE  WebInv'
<1> DEFINE x == Web!SendFrame(conn[e], Web!Whole(sent[e] + 1), flush, Web!IsOpen(Web!Peer(e)))
<1>1. conn[e].sock.open /\ conn' = [conn EXCEPT ![e] = x] /\ crossed' = crossed
  BY DEF Web!SendMessage, Web!IsOpen
<1>2. Alike(x, conn[e])
  BY SendingIsAlike, Zenon DEF WebInv
<1> HIDE DEF x
<1> QED BY <1>1, <1>2, OpenStays

LEMMA FragmentFlushes ==
  ASSUME SendBuffer \in Nat, WebInv, Web!SendFragment \/ Web!SendMalformed
  PROVE  WebInv'
<1> DEFINE e == "client"
           x(f) == Web!SendFrame(conn[e], f, TRUE, Web!IsOpen("server"))
<1>1. /\ conn[e].sock.open /\ crossed' = crossed /\ e \in Web!End
      /\ \E f : conn' = [conn EXCEPT ![e] = x(f)]
  <2>1. CASE Web!SendFragment
    <3>1. conn' = [conn EXCEPT ![e] = x(Web!Fragment(sent["client"], 2))]
          \/ conn' = [conn EXCEPT ![e] = x(Web!Fragment(sent["client"] + 1, 1))]
      BY <2>1 DEF Web!SendFragment
    <3>2. conn[e].sock.open /\ crossed' = crossed /\ e \in Web!End
      BY <2>1 DEF Web!SendFragment, Web!IsOpen, Web!End
    <3> HIDE DEF x, e
    <3> QED BY <3>1, <3>2
  <2>2. CASE Web!SendMalformed
    <3>1. conn' = [conn EXCEPT ![e] = x(IF open1 THEN Web!Whole(sent["client"])
                                        ELSE Web!Fragment(sent["client"], 2))]
      BY <2>2 DEF Web!SendMalformed
    <3>2. conn[e].sock.open /\ crossed' = crossed /\ e \in Web!End
      BY <2>2 DEF Web!SendMalformed, Web!IsOpen, Web!End
    <3> HIDE DEF x, e
    <3> QED BY <3>1, <3>2
  <2> QED BY <2>1, <2>2
<1>2. PICK f : conn' = [conn EXCEPT ![e] = x(f)]
  BY <1>1
<1>3. Shaped(conn[e])
  BY <1>1 DEF WebInv
<1>4. Alike(x(f), conn[e])
  BY <1>3, SendingIsAlike, Zenon
<1> HIDE DEF x, e
<1> QED BY <1>1, <1>2, <1>4, OpenStays

(* A hard shutdown cuts the connection, and its end is crossed.               *)
LEMMA ShutdownFlushes ==
  ASSUME SendBuffer \in Nat, WebInv, NEW e \in Web!End, NEW hard \in BOOLEAN, Web!Shutdown(e, hard)
  PROVE  WebInv'
<1> DEFINE p == Web!IsOpen(Web!Peer(e))
           x == Web!ShutdownImpl(conn[e], hard, p)
           soft == Web!ShutdownImpl(conn[e], FALSE, p)
<1>1. conn[e].sock.open /\ conn' = [conn EXCEPT ![e] = x]
      /\ crossed' = IF hard THEN crossed \cup {e} ELSE crossed
  BY DEF Web!Shutdown, Web!IsOpen
<1>2. Alike(soft, conn[e])
  BY ShutdownIsAlike, Zenon DEF WebInv
<1>3. CASE ~hard
  <2>1. x = soft
    BY <1>3
  <2> HIDE DEF x, soft
  <2> QED BY <1>1, <1>2, <1>3, <2>1, OpenStays
<1>4. CASE hard
  <2> DEFINE told == IF conn[e].ws.shuttingDown THEN conn[e] ELSE Web!SendCloseFrame(conn[e], p)
             quiet == Web!IgnoreInput(Web!AsyncShutdown(told.sock))
  <2>1. x = [told EXCEPT !.ws = Web!NewHandler, !.sock = Web!ShutdownConnection(quiet)]
    BY <1>4 DEF Web!ShutdownImpl
  <2>2. soft = [told EXCEPT !.ws = Web!NewHandler, !.sock = quiet]
    BY DEF Web!ShutdownImpl
  <2>3. DOMAIN told = DOMAIN soft
    <3> HIDE DEF soft, told, quiet
    <3> QED BY <2>2
  <2>4. Shaped(x)
    <3> HIDE DEF soft, told, quiet, x
    <3>1. DOMAIN told = {"sock", "wire", "ws", "given", "close"}
      BY <1>2, <2>3 DEF Alike, Shaped
    <3>2. soft.sock = quiet /\ soft.wire = told.wire
      BY <2>2, <3>1
    <3>3. x.sock = [quiet EXCEPT !.open = FALSE] /\ x.wire = told.wire /\ DOMAIN x = DOMAIN told
      BY <2>1, <3>1 DEF Web!ShutdownConnection
    <3>4. Shaped(soft)
      BY <1>2 DEF Alike
    <3> QED BY <3>1, <3>2, <3>3, <3>4 DEF Shaped
  <2> HIDE DEF x
  <2>5. \A f \in Web!End : conn'[f] = IF f = e THEN x ELSE conn[f]
    BY <1>1 DEF WebInv
  <2>6. conn' = [f \in Web!End |-> conn'[f]] /\ \A f \in Web!End : Shaped(conn'[f])
    BY <1>1, <2>4, <2>5 DEF WebInv
  <2>7. Web!FlushedBeforeClose'
    <3> SUFFICES ASSUME NEW f \in Web!End, ~conn'[f].sock.open, f # e
                 PROVE  conn'[f].sock.out = <<>> \/ f \in crossed' \/ ~conn'[Web!Peer(f)].sock.open
      BY <1>1, <1>4 DEF Web!FlushedBeforeClose, Web!IsOpen
    <3>1. Web!Peer(f) = e /\ conn'[f] = conn[f]
      BY <2>5, Peers
    <3>2. conn[f].sock.out = <<>> \/ f \in crossed
      BY <1>1, <3>1 DEF WebInv, Web!FlushedBeforeClose, Web!IsOpen
    <3> QED BY <1>1, <1>4, <3>1, <3>2
  <2> QED BY <2>6, <2>7 DEF WebInv
<1> QED BY <1>3, <1>4

(* What is taken from the wires, and a Kit that pauses.                       *)
LEMMA SocketStays ==
  ASSUME WebInv, crossed' = crossed, conn' = [f \in Web!End |-> conn'[f]],
         \A f \in Web!End : Shaped(conn'[f]) /\ conn'[f].sock.out = conn[f].sock.out
                            /\ conn'[f].sock.open = conn[f].sock.open
  PROVE  WebInv'
<1>1. Web!FlushedBeforeClose'
  BY Peers DEF WebInv, Web!FlushedBeforeClose, Web!IsOpen
<1> QED BY <1>1 DEF WebInv

LEMMA EmptyIsCells == Cells(<<>>) /\ Len(<<>>) = 0
<1>1. <<>> \in Seq({})
  OBVIOUS
<1> QED BY <1>1 DEF Cells

LEMMA RemovalFlushes ==
  ASSUME SendBuffer \in Nat, WebInv, NEW e \in Web!End, Web!RemoveSocket(e)
  PROVE  WebInv'
<1> DEFINE other == Web!Peer(e)
           x == [conn[e] EXCEPT !.sock = Web!EnsureDisconnected(conn[e].sock)]
           y == [conn[other] EXCEPT !.wire = <<>>]
<1>1. other \in Web!End /\ other # e /\ \A f \in Web!End : f = e \/ f = other
  BY Peers
<1>2. conn' = [conn EXCEPT ![e].sock = Web!EnsureDisconnected(@), ![other].wire = <<>>]
      /\ ~conn[e].sock.open /\ crossed' = crossed
  BY DEF Web!RemoveSocket, Web!IsOpen
<1>3. conn' = [f \in Web!End |-> IF f = e THEN x ELSE y]
  BY <1>1, <1>2 DEF WebInv
<1>4. Shaped(conn[e]) /\ Shaped(conn[other])
  BY <1>1 DEF WebInv
<1>5. Shaped(y) /\ y.sock = conn[other].sock
  BY <1>4, EmptyIsCells DEF Shaped
<1>6. Shaped(x) /\ x.sock.out = conn[e].sock.out /\ ~x.sock.open
  BY <1>4 DEF Shaped, Web!EnsureDisconnected
<1>7. Web!FlushedBeforeClose'
  <2> HIDE DEF x, y, other
  <2>1. conn'[e] = x /\ conn'[other] = y
    BY <1>1, <1>3
  <2>2. \A f \in Web!End : conn'[f].sock.out = conn[f].sock.out
                           /\ (conn'[f].sock.open <=> conn[f].sock.open)
    BY <1>1, <1>2, <1>5, <1>6, <2>1
  <2> QED BY <1>2, <2>2, Peers DEF WebInv, Web!FlushedBeforeClose, Web!IsOpen
<1>8. conn' = [f \in Web!End |-> conn'[f]] /\ \A f \in Web!End : Shaped(conn'[f])
  <2> HIDE DEF x, y, other
  <2> QED BY <1>1, <1>3, <1>5, <1>6
<1> QED BY <1>7, <1>8 DEF WebInv

LEMMA ResetFlushes ==
  ASSUME SendBuffer \in Nat, WebInv, NEW e \in Web!End, Web!Reset(e)
  PROVE  WebInv'
<1> DEFINE x == [conn[e] EXCEPT !.wire = <<>>]
<1>1. conn' = [conn EXCEPT ![e] = x] /\ crossed' = crossed
  BY DEF Web!Reset
<1>2. Shaped(x) /\ x.sock = conn[e].sock
  BY EmptyIsCells DEF WebInv, Shaped
<1>3. conn' = [f \in Web!End |-> conn'[f]] /\ \A f \in Web!End : conn'[f] = IF f = e THEN x ELSE conn[f]
  BY <1>1 DEF WebInv
<1> HIDE DEF x
<1>4. \A f \in Web!End : Shaped(conn'[f]) /\ conn'[f].sock = conn[f].sock
  BY <1>2, <1>3 DEF WebInv
<1> QED BY <1>1, <1>3, <1>4, SocketStays

LEMMA PauseFlushes ==
  ASSUME WebInv, Web!PauseInput \/ Web!ResumeInput
  PROVE  WebInv'
<1> DEFINE e == "client"
           x(b) == [conn[e] EXCEPT !.sock = Web!EnableProcessInput(conn[e].sock, b)]
<1>1. /\ conn[e].sock.open /\ crossed' = crossed /\ e \in Web!End
      /\ \E b \in BOOLEAN : conn' = [conn EXCEPT ![e] = x(b)]
  <2>1. e \in Web!End
    BY DEF Web!End
  <2>2. conn' = [conn EXCEPT ![e] = x(TRUE)] \/ conn' = [conn EXCEPT ![e] = x(FALSE)]
    BY <2>1 DEF Web!PauseInput, Web!ResumeInput, WebInv
  <2>3. conn[e].sock.open /\ crossed' = crossed
    BY DEF Web!PauseInput, Web!ResumeInput, Web!IsOpen
  <2> HIDE DEF x, e
  <2> QED BY <2>1, <2>2, <2>3, Zenon
<1>2. PICK b \in BOOLEAN : conn' = [conn EXCEPT ![e] = x(b)]
  BY <1>1
<1>3. Alike(x(b), conn[e])
  <2>1. Shaped(conn[e])
    BY <1>1 DEF WebInv
  <2> QED BY <2>1 DEF Shaped, Alike, Web!EnableProcessInput
<1> HIDE DEF x, e
<1> QED BY <1>1, <1>2, <1>3, OpenStays

(* FlushedBeforeClose: an end of a WebSocket that closes by its own shutdown  *)
(* has written all that it had to write (handlePoll), however many messages,  *)
(* fragments and calls of shutdown there are, and wherever the bytes are cut. *)
THEOREM ClosedWhenWritten == Web!Spec => []FlushedBeforeClose
<1> USE ConnectionAssumption
<1>1. Web!Init => WebInv
  <2> SUFFICES ASSUME Web!Init PROVE WebInv
    OBVIOUS
  <2>1. conn = [e \in Web!End |-> [sock |-> Web!NewSocket, wire |-> <<>>, ws |-> Web!NewHandler,
                                   given |-> <<>>, close |-> FALSE]]
    BY DEF Web!Init
  <2>2. \A e \in Web!End : Shaped(conn[e]) /\ conn[e].sock.open
    BY <2>1, EmptyIsCells DEF Shaped, Web!NewSocket
  <2> QED BY <2>1, <2>2 DEF WebInv, Web!FlushedBeforeClose, Web!IsOpen
<1>2. WebInv /\ [Web!Next]_Web!vars => WebInv'
  <2>1. ASSUME WebInv, UNCHANGED Web!vars PROVE WebInv'
    BY <2>1 DEF WebInv, Web!vars, Web!FlushedBeforeClose, Web!IsOpen
  <2> QED BY <2>1, PollFlushes, MessageFlushes, FragmentFlushes, ShutdownFlushes, RemovalFlushes,
             ResetFlushes, PauseFlushes DEF Web!Next
<1>3. WebInv => FlushedBeforeClose
  BY DEF WebInv, FlushedBeforeClose
<1> QED BY <1>1, <1>2, <1>3, PTL DEF Web!Spec
================================================================================
