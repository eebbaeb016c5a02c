--------------------------------- MODULE Server --------------------------------
(* The server process (wsd/COOLWSD.cpp) and those it depends on: the ForKit,  *)
(* which forks Kits on request (kit/ForKit.cpp), one more ForKit for each     *)
(* configuration that has its own, the spare Kits, and the brokers, each of   *)
(* which takes a Kit for its document.                                        *)
(*                                                                            *)
(* What the server does under NewChildrenMutex or DocBrokersMutex is one      *)
(* step. The spares, the requests that are outstanding and the ForKits are    *)
(* one record, pool, so that the functions that work on them can be composed. *)
EXTENDS Integers, Sequences, FiniteSets, FiniteSetsExt

CONSTANTS
  Config, Default,   \* configurations, and the one of the first ForKit
  Doc, ConfigOf,     \* documents, each with its configuration
  Broker, NoBroker,  \* DocumentBroker objects: each is used once
  Kit, NoKit,        \* places for Kit processes: fork() fails when all are taken
  NumPreSpawned,     \* num_prespawn_children
  MaxTries,          \* calls of getNewChild_Blocks before a broker gives up
  Faults,            \* what may go wrong
  MaxFaults

ASSUME ServerAssumption ==
  /\ Default \in Config /\ Doc # {} /\ ConfigOf \in [Doc -> Config]
  /\ IsFiniteSet(Kit)
  /\ NoBroker \notin Broker /\ NoKit \notin Kit
  /\ NumPreSpawned \in Nat \ {0} /\ MaxTries \in Nat \ {0} /\ MaxFaults \in Nat
  /\ Faults \subseteq {"kit", "forkit", "late", "fonts", "presets", "hurry"}

VARIABLES
  pool,      \* NewChildren, OutstandingForks and the ForKits
  kit,       \* the Kit processes
  broker,    \* the DocumentBroker objects
  docs,      \* DocBrokers: the broker that each document is registered with
  presets,   \* configurations whose settings are being fetched
  phase,     \* how far the server's main function is
  faults

vars == <<pool, kit, broker, docs, presets, phase, faults>>

NoForKit == [proc |-> "none", known |-> FALSE, inbox |-> <<>>, requests |-> {}, counter |-> 0]

NewBroker ==
  [pc |-> "unborn", doc |-> CHOOSE d \in Doc : TRUE, kit |-> NoKit,
   stop |-> FALSE, notified |-> FALSE, tries |-> 0, dirty |-> FALSE]
Ended == [NewBroker EXCEPT !.pc = "ended", !.stop = TRUE]

Init ==
  /\ pool = [spare |-> {}, outstanding |-> [c \in Config |-> 0],
             forkit |-> [c \in Config |-> NoForKit], queued |-> {}]
  /\ kit = [k \in Kit |-> [life |-> "gone", config |-> Default, conn |-> "none", told |-> FALSE]]
  /\ broker = [b \in Broker |-> NewBroker]
  /\ docs = [d \in Doc |-> NoBroker]
  /\ presets = {} /\ phase = "run" /\ faults = 0

Shutdown == phase # "run"
CanFail(f) == f \in Faults /\ faults < MaxFaults /\ phase = "run"
Fail(f) == CanFail(f) /\ faults' = faults + 1

ConfigOfBroker(b) == ConfigOf[broker[b].doc]

(* WSProcess::isAlive: kill(pid, 0), for which a zombie is alive.             *)
PidExists(k) == kit[k].life \in {"run", "zombie"}

Referenced(k) == k \in pool.spare \/ \E b \in Broker : broker[b].kit = k
-----------------------------------------------------------------------------
(* The functions of the pool.                                                 *)

SparesOf(p, c) == {k \in p.spare : kit[k].config = c}

(* What is really on its way from the ForKit of c.                            *)
UnderWay(p, c) ==
  \/ p.forkit[c].proc \in {"starting", "up"} /\ (p.forkit[c].inbox # <<>> \/ p.forkit[c].counter > 0)
  \/ p.forkit[c].proc = "starting"
  \/ \E k \in Kit : kit[k].config = c /\ kit[k].life = "run" /\ kit[k].conn = "none"

(* The request of c is too old: it was lost, or it takes longer than          *)
(* ChildSpawnTimeoutMs.                                                       *)
MayBeLate(p, c) == p.outstanding[c] # 0 /\ (~UnderWay(p, c) \/ CanFail("late"))
CountLate(p, c, late) == faults' = IF late /\ UnderWay(p, c) THEN faults + 1 ELSE faults

(* dropSubForKit: the ForKitProcess object kills its process when it goes.    *)
DropSubForKit(p, c) == [p EXCEPT !.outstanding[c] = 0, !.forkit[c] = NoForKit]

(* forkChildren: a request to the first ForKit is dropped when that is not    *)
(* connected, but counts as outstanding.                                      *)
ForkChildren(p, c, number) ==
  IF c = Default \/ p.forkit[c].known
  THEN [p EXCEPT !.outstanding[c] = @ + number,
                 !.forkit[c].inbox = IF p.forkit[c].known THEN Append(@, number) ELSE @]
  ELSE p

(* rebalanceChildren: the spares are counted before the dead ones are removed. *)
RebalanceChildren(p, c, target, late) ==
  LET alive == {k \in p.spare : PidExists(k)}
      outstanding == IF late THEN 0 ELSE p.outstanding[c]
      balance == target - Cardinality(SparesOf(p, c)) - outstanding
      q == [p EXCEPT !.spare = alive, !.outstanding[c] = outstanding]
  IN  IF balance > 0 /\ (alive # p.spare \/ outstanding = 0)
      THEN ForkChildren(q, c, balance) ELSE q

(* createForKit: it always spawns one Kit.                                    *)
CreateForKit(p, late) ==
  LET q == [p EXCEPT !.outstanding[Default] = @ + 1,
                     !.forkit[Default] = [NoForKit EXCEPT !.proc = "starting"]]
      balance == NumPreSpawned - q.outstanding[Default]
  IN  IF balance > 0 THEN RebalanceChildren(q, Default, balance, late) ELSE q

(* addNewChild, and one of the brokers that wait is notified.                 *)
AddNewChild(p, k) ==
  [p EXCEPT !.outstanding[kit[k].config] = IF @ > 0 THEN @ - 1 ELSE @, !.spare = @ \cup {k}]
-----------------------------------------------------------------------------
(* The ForKits. A process that dies takes its requests along.                 *)

(* The first Kit of a new ForKit is forked before it connects.                *)
ForkedKit(c) == [life |-> "run", config |-> c, conn |-> "none", told |-> FALSE]
FreePlaces == {k \in Kit : kit[k].life = "gone" /\ kit[k].conn # "server" /\ ~Referenced(k)}

(* PrisonPoll::setForKitProcess: the messages that were queued are sent.      *)
SendQueued(p) == [p EXCEPT !.forkit[Default].requests = @ \cup p.queued, !.queued = {}]

(* forkit_main: the Kit, and the connection to the server. A ForKit of a      *)
(* configuration is announced to the server, which asks it for spares.        *)
ForKitStarts(c) ==
  /\ pool.forkit[c].proc = "starting" /\ phase \in {"run", "wait", "join"}
  /\ FreePlaces # {}
  /\ kit' = [kit EXCEPT ![CHOOSE k \in FreePlaces : TRUE] = ForkedKit(c)]
  /\ LET up == [pool EXCEPT !.forkit[c].proc = "up", !.forkit[c].known = TRUE]
     IN  pool' = IF c = Default THEN SendQueued(up)
                 ELSE RebalanceChildren(up, c, NumPreSpawned, FALSE)
  /\ UNCHANGED <<broker, docs, presets, phase, faults>>

(* ServerWSHandler::handleMessage: the last of the m 'spawn' messages that    *)
(* are read sets the counter.                                                 *)
ForkCounter(f, m) == IF m = 0 THEN f.counter ELSE f.inbox[m]

(* A round of the loop of forkit_main: as many Kits are forked as there is    *)
(* room for; the others are tried in the next round.                          *)
ForkLibreOfficeKit(c) ==
  /\ pool.forkit[c].proc = "up" /\ FreePlaces # {}
  /\ \E m \in 0..Len(pool.forkit[c].inbox) :
       LET f == pool.forkit[c]
           counter == ForkCounter(f, m)
           n == Min({counter, Cardinality(FreePlaces)})
           new == CHOOSE s \in kSubset(n, FreePlaces) : TRUE
       IN  /\ counter > 0
           /\ kit' = [k \in Kit |-> IF k \in new THEN ForkedKit(c) ELSE kit[k]]
           /\ pool' = [pool EXCEPT !.forkit[c].counter = counter - n,
                                   !.forkit[c].inbox = SubSeq(@, m + 1, Len(@))]
  /\ UNCHANGED <<broker, docs, presets, phase, faults>>

(* 'addforkit'.                                                               *)
CreateSubForKit(c) ==
  /\ pool.forkit[Default].proc = "up" /\ c \in pool.forkit[Default].requests
  /\ pool' = [pool EXCEPT !.forkit[Default].requests = @ \ {c},
                          !.forkit[c].proc = IF @ = "up" THEN @ ELSE "starting"]
  /\ UNCHANGED <<kit, broker, docs, presets, phase, faults>>

(* A ForKit dies. Those of the configurations go with the first one.          *)
ForKitDies(c) ==
  /\ pool.forkit[c].proc = "up" /\ Fail("forkit")
  /\ pool' = [pool EXCEPT !.forkit =
                [x \in Config |-> IF pool.forkit[x].proc # "none" /\ (x = c \/ c = Default)
                                  THEN [NoForKit EXCEPT !.proc = "dead", !.known = pool.forkit[x].known]
                                  ELSE pool.forkit[x]]]
  /\ UNCHANGED <<kit, broker, docs, presets, phase>>
-----------------------------------------------------------------------------
(* The Kits.                                                                  *)

KitConnects(k) ==
  /\ kit[k].life = "run" /\ kit[k].conn = "none" /\ phase \in {"run", "wait", "join"}
  /\ kit' = [kit EXCEPT ![k].conn = "server"]
  /\ pool' = AddNewChild(pool, k)
  /\ LET waiting == {b \in Broker : broker[b].pc = "wait" /\ ~broker[b].notified}
     IN  \/ waiting = {} /\ UNCHANGED broker
         \/ \E b \in waiting : broker' = [broker EXCEPT ![b].notified = TRUE]
  /\ UNCHANGED <<docs, presets, phase, faults>>

(* Nobody asks whether a Kit is alive (kill) unless it is a spare, or about   *)
(* to be taken: only for these does it matter that it is a zombie.            *)
Dead(x) == [x EXCEPT !.life = IF x.conn = "server" THEN "zombie" ELSE "gone", !.told = FALSE]

KitDies(k) ==
  /\ kit[k].life = "run" /\ Fail("kit")
  /\ kit' = [kit EXCEPT ![k] = Dead(@)]
  /\ UNCHANGED <<pool, broker, docs, presets, phase>>

(* A Kit leaves when it is told to, or when the server has gone.              *)
KitExits(k) ==
  /\ kit[k].life = "run"
  /\ kit[k].told \/ phase = "end"
  /\ kit' = [kit EXCEPT ![k] = Dead(@)]
  /\ UNCHANGED <<pool, broker, docs, presets, phase, faults>>

(* cleanupChildren of the ForKit, or init once that is gone.                  *)
Reap(k) ==
  /\ kit[k].life = "zombie"
  /\ kit' = [kit EXCEPT ![k] = [life |-> "gone", config |-> IF k \in pool.spare THEN @.config ELSE Default,
                                conn |-> IF @.conn = "server" THEN @.conn ELSE "closed", told |-> FALSE]]
  /\ UNCHANGED <<pool, broker, docs, presets, phase, faults>>

(* PrisonerRequestDispatcher::onDisconnect, for a Kit whose socket is still   *)
(* in the server's own poll: the Kit is no spare any more, and is replaced.   *)
(* One that no list has any more is taken to have been of the first ForKit.   *)
PrisonerDisconnects(k) ==
  /\ kit[k].life # "run" /\ kit[k].conn = "server"
  /\ kit' = [kit EXCEPT ![k].conn = "closed"]
  /\ IF Shutdown THEN UNCHANGED <<pool, faults>>
     ELSE LET c == IF k \in pool.spare THEN kit[k].config ELSE Default
              p == [pool EXCEPT !.spare = @ \ {k}]
          IN  \E late \in {l \in BOOLEAN : l => MayBeLate(p, c)} :
                /\ pool' = RebalanceChildren(p, c, NumPreSpawned, late)
                /\ CountLate(p, c, late)
  /\ UNCHANGED <<broker, docs, presets, phase>>
-----------------------------------------------------------------------------
(* The poll of the server's prisoners: checkAndRestoreForKit, or prespawning. *)

RestoreForKit ==
  /\ phase = "run" /\ pool.forkit[Default].proc \in {"none", "dead"}
  /\ LET subs == {c \in Config \ {Default} : pool.forkit[c].known}
         dropped == [pool EXCEPT !.outstanding = [c \in Config |-> IF c \in subs THEN 0 ELSE @[c]],
                                 !.forkit = [c \in Config |-> IF c \in subs THEN NoForKit ELSE @[c]]]
     IN  \E late \in {l \in BOOLEAN : l => pool.outstanding[Default] # 0} :
           pool' = CreateForKit(dropped, late)
  /\ UNCHANGED <<kit, broker, docs, presets, phase, faults>>

PrespawnChildren(late) ==
  /\ phase \in {"run", "wait", "join"} /\ pool.forkit[Default].proc \in {"starting", "up"}
  /\ late => MayBeLate(pool, Default)
  /\ pool' = RebalanceChildren(pool, Default, NumPreSpawned, late)
  /\ pool' # pool
  /\ CountLate(pool, Default, late)
  /\ UNCHANGED <<kit, broker, docs, presets, phase>>

(* requestTerminateSpareKits, after a change of the fonts.                    *)
RequestTerminateSpareKits ==
  /\ Fail("fonts") /\ pool.spare # {}
  /\ kit' = [k \in Kit |-> IF k \in pool.spare THEN [kit[k] EXCEPT !.told = TRUE] ELSE kit[k]]
  /\ UNCHANGED <<pool, broker, docs, presets, phase>>

(* The settings of a configuration have arrived: ensureSubForKit. The request *)
(* waits for the first ForKit if need be.                                     *)
EnsureSubForKit(c) ==
  /\ c \in presets
  /\ presets' = presets \ {c}
  /\ \/ Fail("presets") /\ UNCHANGED pool
     \/ /\ UNCHANGED faults
        /\ pool' = IF pool.forkit[c].known THEN pool
                   ELSE IF pool.forkit[Default].known /\ pool.forkit[Default].proc # "dead"
                        THEN [pool EXCEPT !.forkit[Default].requests = @ \cup {c}]
                   ELSE IF pool.forkit[Default].known THEN pool
                   ELSE [pool EXCEPT !.queued = @ \cup {c}]
  /\ UNCHANGED <<kit, broker, docs, phase>>
-----------------------------------------------------------------------------
(* The documents.                                                             *)

ThreadRuns(b) == broker[b].pc \in {"get", "wait", "popped", "failed", "run", "ending"}

(* Mutant: a broker that is stopping counts as gone. *)
BrokerAliveUnlessStopped(b) == ~broker[b].stop

(* DocumentBroker::isAlive: a broker whose thread has not started is alive    *)
(* unless it was stopped.                                                     *)
BrokerAlive(b) == ~broker[b].stop \/ ThreadRuns(b)

(* cleanupDocBrokers.                                                         *)
CleanedUp(ds) == [d \in Doc |-> IF ds[d] # NoBroker /\ ~BrokerAlive(ds[d]) THEN NoBroker ELSE ds[d]]

(* ... which also drops the ForKits that no document uses.                    *)
CleanupDocBrokers ==
  /\ docs' = CleanedUp(docs) /\ docs' # docs
  /\ LET active == {ConfigOf[d] : d \in {x \in Doc : docs'[x] # NoBroker}}
         idle == {c \in Config \ ({Default} \cup active) : pool.forkit[c].known /\ pool.outstanding[c] = 0}
     IN  \E drop \in SUBSET idle :
           pool' = [pool EXCEPT !.forkit = [c \in Config |-> IF c \in drop THEN NoForKit ELSE @[c]]]
  /\ UNCHANGED <<kit, broker, presets, phase, faults>>

(* findOrCreateDocBroker, for a document that has no broker.                  *)
Open(d, b) ==
  /\ phase = "run" /\ broker[b].pc = "unborn" 
  /\ CleanedUp(docs)[d] = NoBroker
  /\ docs' = [CleanedUp(docs) EXCEPT ![d] = b]
  /\ broker' = [broker EXCEPT ![b].pc = "created", ![b].doc = d]
  /\ presets' = presets \cup ({ConfigOf[d]} \ {Default})
  /\ UNCHANGED <<pool, kit, phase, faults>>

(* The client's socket arrives, and starts the thread; or the client has      *)
(* gone, and the broker is stopped when it is not loaded in time.             *)
StartThread(b) ==
  /\ broker[b].pc = "created" /\ ~broker[b].stop /\ phase \in {"run", "wait"}
  /\ broker' = [broker EXCEPT ![b].pc = "get"]
  /\ UNCHANGED <<pool, kit, docs, presets, phase, faults>>

TimeoutNotLoaded(b) ==
  /\ broker[b].pc = "created" /\ ~broker[b].stop /\ docs[broker[b].doc] = b
  /\ broker' = [broker EXCEPT ![b].stop = TRUE]
  /\ UNCHANGED <<pool, kit, docs, presets, phase, faults>>
-----------------------------------------------------------------------------
(* getNewChild_Blocks.                                                        *)

Pop(p, b, k) ==
  /\ pool' = [p EXCEPT !.spare = @ \ {k}]
  /\ broker' = [broker EXCEPT ![b] = [@ EXCEPT !.pc = "popped", !.kit = k, !.notified = FALSE]]

(* The predicate of the wait: a spare of the configuration, or sleep on.      *)
PopOrWait(p, b) ==
  LET c == ConfigOfBroker(b)
  IN  \/ \E k \in SparesOf(p, c) : Pop(p, b, k)
      \/ /\ SparesOf(p, c) = {} /\ pool' = p
         /\ broker' = [broker EXCEPT ![b].pc = "wait", ![b].notified = FALSE]

(* Under the lock, up to the wait.                                            *)
GetNewChild(b) ==
  /\ broker[b].pc = "get"
  /\ LET c == ConfigOfBroker(b)
         ready == c = Default \/ pool.forkit[c].known
     IN  \E late \in {l \in BOOLEAN : l => ready /\ MayBeLate(pool, c)} :
           /\ PopOrWait(IF ready THEN RebalanceChildren(pool, c, NumPreSpawned + 1, late) ELSE pool, b)
           /\ CountLate(pool, c, late)
  /\ UNCHANGED <<kit, docs, presets, phase>>

Woken(b) ==
  /\ broker[b].pc = "wait" /\ broker[b].notified
  /\ PopOrWait(pool, b)
  /\ UNCHANGED <<kit, docs, presets, phase, faults>>

(* A failure makes the server drop the ForKit of the configuration.           *)
Failed(b) ==
  LET c == ConfigOfBroker(b)
  IN  /\ pool' = IF c # Default /\ pool.forkit[c].known THEN DropSubForKit(pool, c) ELSE pool
      /\ broker' = [broker EXCEPT ![b] = [@ EXCEPT !.pc = "failed", !.kit = NoKit, !.notified = FALSE]]

(* When the wait times out the predicate is tried once more.                  *)
WaitTimesOut(b) ==
  /\ broker[b].pc = "wait"
  /\ \/ \E k \in SparesOf(pool, ConfigOfBroker(b)) : Pop(pool, b, k)
     \/ SparesOf(pool, ConfigOfBroker(b)) = {} /\ Failed(b)
  /\ UNCHANGED <<kit, docs, presets, phase, faults>>

(* The Kit that was popped: a dead one is thrown away, and the socket of one  *)
(* that lives is taken from the poll of the server (SocketPoll::takeSocket,   *)
(* which waits for good when the socket has left it, unless it is stopped).   *)
PoppedDead(b) ==
  /\ broker[b].pc = "popped" /\ ~PidExists(broker[b].kit)
  /\ Failed(b)
  /\ UNCHANGED <<kit, docs, presets, phase, faults>>

TakeSocket(b) ==
  /\ broker[b].pc = "popped" /\ PidExists(broker[b].kit)
  /\ kit[broker[b].kit].conn = "server" \/ broker[b].stop
  /\ kit' = [kit EXCEPT ![broker[b].kit].conn = "broker"]
  /\ broker' = [broker EXCEPT ![b].pc = "run"]
  /\ UNCHANGED <<pool, docs, presets, phase, faults>>

(* pollThread: another try, unless it took too long or the server stops.      *)
Retry(b) ==
  /\ broker[b].pc = "failed" /\ broker[b].tries + 1 < MaxTries /\ ~Shutdown /\ ~broker[b].stop
  /\ broker' = [broker EXCEPT ![b].pc = "get", ![b].tries = @ + 1]
  /\ UNCHANGED <<pool, kit, docs, presets, phase, faults>>

(* Mutant: a broker without a Kit is not stopped. *)
GiveUpSilently(b) ==
  /\ broker[b].pc = "failed" /\ (broker[b].tries + 1 >= MaxTries \/ Shutdown \/ broker[b].stop)
  /\ UNCHANGED vars

GiveUp(b) ==
  /\ broker[b].pc = "failed" /\ (broker[b].tries + 1 >= MaxTries \/ Shutdown \/ broker[b].stop)
  /\ broker' = [broker EXCEPT ![b] = Ended]
  /\ UNCHANGED <<pool, kit, docs, presets, phase, faults>>
-----------------------------------------------------------------------------
(* A broker that has its Kit (module DocumentBroker has the details).         *)

Edit(b) ==
  /\ broker[b].pc = "run" /\ ~broker[b].dirty /\ ~broker[b].stop /\ ~Shutdown
  /\ kit[broker[b].kit].life = "run"
  /\ broker' = [broker EXCEPT ![b].dirty = TRUE]
  /\ UNCHANGED <<pool, kit, docs, presets, phase, faults>>

SaveAndUpload(b) ==
  /\ broker[b].pc = "run" /\ broker[b].dirty /\ ~broker[b].stop /\ kit[broker[b].kit].life = "run"
  /\ broker' = [broker EXCEPT ![b].dirty = FALSE]
  /\ UNCHANGED <<pool, kit, docs, presets, phase, faults>>

(* Mutant: the loop ends without a look at the changes. *)
UnloadAnyhow(b) ==
  /\ broker[b].pc = "run"
  /\ broker' = [broker EXCEPT ![b].pc = "ending", ![b].stop = TRUE]
  /\ UNCHANGED <<pool, kit, docs, presets, phase, faults>>

(* The loop ends when the document is unloaded, when the Kit has gone, or     *)
(* when it is stopped.                                                        *)
Unload(b) ==
  /\ broker[b].pc = "run"
  /\ ~broker[b].dirty \/ kit[broker[b].kit].life # "run" \/ broker[b].stop
  /\ broker' = [broker EXCEPT ![b].pc = "ending", ![b].stop = TRUE]
  /\ UNCHANGED <<pool, kit, docs, presets, phase, faults>>

(* terminateChild: the Kit is told to leave, and is let go.                   *)
EndThread(b) ==
  /\ broker[b].pc = "ending"
  /\ kit' = [kit EXCEPT ![broker[b].kit].told = @ \/ kit[broker[b].kit].life = "run"]
  /\ broker' = [broker EXCEPT ![b] = Ended]
  /\ UNCHANGED <<pool, docs, presets, phase, faults>>
-----------------------------------------------------------------------------
(* The end of innerMain.                                                      *)

RequestShutdown ==
  /\ phase = "run" /\ phase' = "wait"
  /\ UNCHANGED <<pool, kit, broker, docs, presets, faults>>

(* The documents are waited for, for thirty seconds ...                       *)
StopWaiting ==
  /\ phase = "wait"
  /\ \/ (\A d \in Doc : docs[d] = NoBroker) /\ UNCHANGED faults
     \/ "hurry" \in Faults /\ faults < MaxFaults /\ faults' = faults + 1
  /\ phase' = "join"
  /\ UNCHANGED <<pool, kit, broker, docs, presets>>

(* ... then their threads are joined, and SocketPoll::joinThread stops them   *)
(* first.                                                                     *)
JoinThread(d) ==
  /\ phase = "join" /\ docs[d] # NoBroker /\ ThreadRuns(docs[d]) /\ ~broker[docs[d]].stop
  /\ broker' = [broker EXCEPT ![docs[d]].stop = TRUE]
  /\ UNCHANGED <<pool, kit, docs, presets, phase, faults>>

(* The documents go, the ForKits are killed, and the spares with them.        *)
EndServer ==
  /\ phase = "join" /\ \A d \in Doc : docs[d] # NoBroker => ~ThreadRuns(docs[d])
  /\ phase' = "end"
  /\ docs' = [d \in Doc |-> NoBroker]
  /\ pool' = [spare |-> {}, outstanding |-> [c \in Config |-> 0],
              forkit |-> [c \in Config |-> NoForKit], queued |-> {}]
  /\ kit' = [k \in Kit |-> IF k \in pool.spare /\ kit[k].life = "run" THEN [kit[k] EXCEPT !.life = "gone"] ELSE kit[k]]
  /\ UNCHANGED <<broker, presets, faults>>
-----------------------------------------------------------------------------
ForKitStep(c) == ForKitStarts(c) \/ ForkLibreOfficeKit(c) \/ CreateSubForKit(c)
KitStep(k) == KitConnects(k) \/ KitExits(k) \/ Reap(k) \/ PrisonerDisconnects(k)
BrokerStep(b) ==
  \/ StartThread(b) \/ TimeoutNotLoaded(b)
  \/ GetNewChild(b) \/ Woken(b) \/ WaitTimesOut(b) \/ PoppedDead(b) \/ TakeSocket(b)
  \/ Retry(b) \/ GiveUp(b) \/ SaveAndUpload(b) \/ EndThread(b)

(* PrisonPoll::wakeupHook.                                                    *)
WakeupHook == RestoreForKit \/ \E late \in BOOLEAN : PrespawnChildren(late)
MainStep == StopWaiting \/ EndServer \/ \E d \in Doc : JoinThread(d)

Next ==
  \/ \E c \in Config : ForKitStep(c) \/ ForKitDies(c) \/ EnsureSubForKit(c)
  \/ \E k \in Kit : KitStep(k) \/ KitDies(k)
  \/ \E b \in Broker : BrokerStep(b) \/ Edit(b) \/ Unload(b)
  \/ \E d \in Doc, b \in Broker : Open(d, b)
  \/ WakeupHook \/ CleanupDocBrokers \/ MainStep
  \/ RequestTerminateSpareKits \/ RequestShutdown

Spec == Init /\ [][Next]_vars

(* The processes and threads run, and the main thread wakes the prisoners'    *)
(* poll for good. A document may stay open for ever, but not once the server  *)
(* ends.                                                                      *)
FairSpec ==
  /\ Spec
  /\ \A c \in Config : WF_vars(ForKitStep(c))
  /\ \A k \in Kit : WF_vars(KitStep(k))
  /\ \A b \in Broker : WF_vars(BrokerStep(b)) /\ WF_vars(Shutdown /\ Unload(b))
  /\ WF_vars(WakeupHook) /\ WF_vars(CleanupDocBrokers) /\ WF_vars(MainStep)
-----------------------------------------------------------------------------
TypeOK ==
  /\ pool.spare \subseteq Kit /\ \A c \in Config : pool.outstanding[c] \in Nat
  /\ \A c \in Config : pool.forkit[c].proc \in {"none", "starting", "up", "dead"}
  /\ \A k \in pool.spare : kit[k].conn \in {"server", "closed"}
  /\ \A b \in Broker : broker[b].pc \in {"popped", "run", "ending"} <=> broker[b].kit # NoKit

(* A Kit edits one document in its life: it is a spare, or one broker has it, *)
(* whatever order the brokers, the time-outs and the deaths of Kits come in.  *)
NoKitIsShared ==
  \A k \in Kit :
    Cardinality({b \in Broker : broker[b].kit = k}) + (IF k \in pool.spare THEN 1 ELSE 0) <= 1

(* A document is never served by two threads: one that is opened again while  *)
(* it is being unloaded must wait, or both upload.                            *)
OneBrokerPerDoc ==
  \A b, x \in Broker : b # x /\ ThreadRuns(b) /\ ThreadRuns(x) => broker[b].doc # broker[x].doc

(* Whatever dies and whatever request is lost, there are spare Kits again, as *)
(* long as there is room for one more process.                                *)
LiveSpares == {k \in SparesOf(pool, Default) : kit[k].life = "run"}
SparesRecover == []<>(Cardinality(LiveSpares) >= NumPreSpawned \/ FreePlaces = {} \/ Shutdown)

(* A broker that asks for a Kit gets one or ends. (One whose Kit dies between *)
(* the check and the transfer waits for good: see module SocketPoll.)         *)
BrokerGetsKitOrEnds ==
  \A b \in Broker :
    (broker[b].pc = "get") ~>
      \/ broker[b].pc \in {"run", "ending", "ended"}
      \/ broker[b].pc = "popped" /\ kit[broker[b].kit].conn = "closed"

(* The server that is asked to stop does, and leaves no Kit behind.           *)
ShutdownEnds == Shutdown ~> (phase = "end" /\ \A k \in Kit : kit[k].life # "run")

(* "Do not stop them! Otherwise they might not save/upload the document"      *)
(* (innerMain): a broker whose Kit lives does not end with changes, until the *)
(* thirty seconds are over that the server waits.                             *)
DocumentsAreSaved ==
  [][\A b \in Broker :
       broker[b].pc = "run" /\ broker'[b].pc = "ending" /\ kit[broker[b].kit].life = "run" /\ phase # "join"
       => ~broker[b].dirty]_vars

(* addNewChild notifies one broker, but the brokers wait for different        *)
(* configurations: none sleeps on while there is a Kit for it.                *)
NoMissedKit ==
  \A b \in Broker :
    broker[b].pc = "wait" /\ (\A x \in Broker : ~broker[x].notified) => SparesOf(pool, ConfigOfBroker(b)) = {}
=============================================================================
