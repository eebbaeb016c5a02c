------------------------------ MODULE ServerProofs -----------------------------
(* No document has two brokers that work at a time, and no Kit has two        *)
(* brokers, or a broker while it is still a spare. The proofs hold for any    *)
(* documents, brokers, Kits, configurations and faults.                       *)
(*                                                                            *)
(* Neither is inductive. A broker may open a document again because the one   *)
(* before it is no longer registered or not alive, so what has to be kept is  *)
(* that a broker that works is the registered one (Registered). A Kit cannot  *)
(* get a second broker because it becomes a spare once, when it connects:     *)
(* so a Kit that has not connected yet must be unknown to all (KitsAreHeld).  *)
EXTENDS Server, FiniteSetTheorems, TLAPS

BrokerType ==
  [pc : {"unborn", "created", "get", "wait", "popped", "failed", "run", "ending", "ended"},
   doc : Doc, kit : Kit \cup {NoKit}, stop : BOOLEAN, notified : BOOLEAN, tries : Nat, dirty : BOOLEAN]

KitType ==
  [life : {"run", "zombie", "gone"}, config : Config, conn : {"none", "server", "broker", "closed"},
   told : BOOLEAN]

ForKitType ==
  [proc : {"none", "starting", "up", "dead"}, known : BOOLEAN, inbox : Seq(Nat),
   requests : SUBSET Config, counter : Nat]

PoolType ==
  [spare : SUBSET Kit, outstanding : [Config -> Nat], forkit : [Config -> ForKitType],
   queued : SUBSET Config]

Types ==
  /\ pool \in PoolType
  /\ kit \in [Kit -> KitType]
  /\ broker \in [Broker -> BrokerType]
  /\ docs \in [Doc -> Broker \cup {NoBroker}]

(* A broker that works, or that still may, is the one its document has.       *)
MayWork(b) == broker[b].pc = "created" /\ ~broker[b].stop /\ phase # "end"
Registered == \A b \in Broker : ThreadRuns(b) \/ MayWork(b) => docs[broker[b].doc] = b

HasKit(b) == broker[b].pc \in {"popped", "run", "ending"}
NewKit(k) == kit[k].life = "run" /\ kit[k].conn = "none"

KitsAreHeld ==
  /\ \A b \in Broker : HasKit(b) <=> broker[b].kit # NoKit
  /\ \A b, x \in Broker : b # x /\ broker[b].kit = broker[x].kit => broker[b].kit = NoKit
  /\ \A b \in Broker : broker[b].kit \notin pool.spare
  /\ \A k \in Kit : NewKit(k) => k \notin pool.spare /\ \A b \in Broker : broker[b].kit # k

Inv == Types /\ Registered /\ KitsAreHeld
-----------------------------------------------------------------------------
(* The functions of the pool.                                                 *)

(* A finite set has a subset of every size up to its own.                     *)
LEMMA SubsetOfSize ==
  ASSUME NEW S, IsFiniteSet(S), NEW n \in 0..Cardinality(S)
  PROVE  kSubset(n, S) # {}
<1> DEFINE m == Cardinality(S)
<1>1. m \in Nat /\ ExistsBijection(1..m, S)
  BY FS_CardinalityType
<1>2. PICK f \in Bijection(1..m, S) : TRUE
  BY <1>1 DEF ExistsBijection
<1>3. f \in [1..m -> S] /\ \A x, y \in 1..m : f[x] = f[y] => x = y
  BY <1>2 DEF Bijection, Injection, IsInjective
<1> DEFINE T == {f[i] : i \in 1..n}  g == [i \in 1..n |-> f[i]]
<1>4. n \in Nat /\ 1..n \subseteq 1..m
  BY <1>1
<1>5. T \subseteq S
  BY <1>3, <1>4
<1>6. g \in Bijection(1..n, T)
  BY <1>3, <1>4 DEF Bijection, Injection, Surjection, IsInjective
<1>7. Cardinality(T) = n
  BY <1>4, <1>6, FS_CountingElements DEF ExistsBijection
<1> QED BY <1>5, <1>7 DEF kSubset

(* The smaller of two numbers.                                                *)
LEMMA MinOfTwo ==
  ASSUME NEW a \in Nat, NEW b \in Nat
  PROVE  Min({a, b}) \in Nat /\ Min({a, b}) <= a /\ Min({a, b}) <= b
<1>1. \E x \in {a, b} : \A y \in {a, b} : x <= y
  <2>1. CASE a <= b
    BY <2>1
  <2>2. CASE b <= a
    BY <2>2
  <2> QED BY <2>1, <2>2
<1>2. Min({a, b}) \in {a, b} /\ \A y \in {a, b} : Min({a, b}) <= y
  BY <1>1 DEF Min
<1> QED BY <1>2

(* What is left of a ForKit's pipe is again numbers.                          *)
LEMMA RestOfInbox ==
  ASSUME NEW s \in Seq(Nat), NEW m \in 0..Len(s)
  PROVE  SubSeq(s, m + 1, Len(s)) \in Seq(Nat)
<1>1. Len(s) \in Nat /\ m \in Nat
  OBVIOUS
<1>2. \A i \in (m + 1)..Len(s) : s[i] \in Nat
  BY <1>1
<1> QED BY <1>1, <1>2, SMTT(30)

(* The number of spares of a configuration is a number.                       *)
LEMMA SparesAreCounted ==
  ASSUME Types, NEW p \in PoolType, NEW c \in Config
  PROVE  Cardinality(SparesOf(p, c)) \in Nat
<1>1. SparesOf(p, c) \in SUBSET Kit
  BY DEF SparesOf, PoolType
<1>2. IsFiniteSet(SparesOf(p, c))
  BY <1>1, FS_Subset, ServerAssumption
<1> QED BY <1>2, FS_CardinalityType

(* Asking for Kits changes the requests only.                                 *)
LEMMA ForkChildrenType ==
  ASSUME NEW p \in PoolType, NEW c \in Config, NEW n \in Nat
  PROVE  ForkChildren(p, c, n) \in PoolType /\ ForkChildren(p, c, n).spare = p.spare
<1> DEFINE f == p.forkit[c]
           box == IF f.known THEN Append(f.inbox, n) ELSE f.inbox
<1>1. f \in ForKitType /\ p.outstanding[c] + n \in Nat
  BY DEF PoolType
<1>2. box \in Seq(Nat)
  BY <1>1 DEF ForKitType
<1>3. [f EXCEPT !.inbox = box] \in ForKitType
  BY <1>1, <1>2 DEF ForKitType
<1>4. [p EXCEPT !.outstanding[c] = p.outstanding[c] + n,
                !.forkit[c] = [f EXCEPT !.inbox = box]] \in PoolType
  BY <1>1, <1>3 DEF PoolType
<1>5. [p EXCEPT !.outstanding[c] = @ + n, !.forkit[c].inbox = IF p.forkit[c].known THEN Append(@, n) ELSE @]
        = [p EXCEPT !.outstanding[c] = p.outstanding[c] + n, !.forkit[c] = [f EXCEPT !.inbox = box]]
  BY <1>1 DEF PoolType, ForKitType
<1> HIDE DEF box, f
<1> QED BY <1>4, <1>5 DEF ForkChildren, PoolType

(* Balancing only takes dead spares away.                                     *)
LEMMA RebalanceType ==
  ASSUME Types, NEW p \in PoolType, NEW c \in Config, NEW target \in Nat, NEW late
  PROVE  LET q == RebalanceChildren(p, c, target, late)
         IN  q \in PoolType /\ q.spare \subseteq p.spare
<1> DEFINE alive == {k \in p.spare : PidExists(k)}
           outstanding == IF late THEN 0 ELSE p.outstanding[c]
           balance == target - Cardinality(SparesOf(p, c)) - outstanding
           q == [p EXCEPT !.spare = alive, !.outstanding[c] = outstanding]
<1>1. outstanding \in Nat /\ alive \subseteq p.spare
  BY DEF PoolType
<1>2. q \in PoolType /\ q.spare = alive
  BY <1>1 DEF PoolType
<1>3. balance \in Int
  BY <1>1, SparesAreCounted
<1>4. RebalanceChildren(p, c, target, late)
        = IF balance > 0 /\ (alive # p.spare \/ outstanding = 0) THEN ForkChildren(q, c, balance) ELSE q
  BY DEF RebalanceChildren
<1> HIDE DEF balance, q, alive, outstanding
<1>5. CASE balance > 0
  <2>1. balance \in Nat
    BY <1>3, <1>5
  <2>2. ForkChildren(q, c, balance) \in PoolType /\ ForkChildren(q, c, balance).spare = q.spare
    BY <1>2, <2>1, ForkChildrenType
  <2> QED BY <1>1, <1>2, <1>4, <2>2
<1>6. CASE ~(balance > 0)
  BY <1>1, <1>2, <1>4, <1>6
<1> QED BY <1>5, <1>6

(* A ForKit that is not there, and one in any other state.                    *)
LEMMA NoForKitType == NoForKit \in ForKitType
<1>1. <<>> \in Seq(Nat) /\ {} \in SUBSET Config /\ 0 \in Nat
  OBVIOUS
<1> QED BY <1>1 DEF NoForKit, ForKitType

(* The process of a ForKit starts or ends. *)
LEMMA NewForKitType ==
  ASSUME NEW f \in ForKitType, NEW x \in {"none", "starting", "up", "dead"}
  PROVE  [f EXCEPT !.proc = x] \in ForKitType
BY DEF ForKitType

(* Starting the first ForKit does no more.                                    *)
LEMMA CreateForKitType ==
  ASSUME Types, NEW p \in PoolType, NEW late
  PROVE  CreateForKit(p, late) \in PoolType /\ CreateForKit(p, late).spare \subseteq p.spare
<1> DEFINE new == [NoForKit EXCEPT !.proc = "starting"]
           q == [p EXCEPT !.outstanding[Default] = @ + 1, !.forkit[Default] = new]
           balance == NumPreSpawned - q.outstanding[Default]
<1>1. Default \in Config /\ NumPreSpawned \in Nat
  BY ServerAssumption
<1>2. new \in ForKitType
  BY NoForKitType, NewForKitType
<1> HIDE DEF new
<1>3. q \in PoolType /\ q.spare = p.spare
  <2>1. p.outstanding[Default] + 1 \in Nat
    BY <1>1 DEF PoolType
  <2>2. [p.outstanding EXCEPT ![Default] = @ + 1] \in [Config -> Nat]
    BY <1>1, <2>1 DEF PoolType
  <2>3. [p.forkit EXCEPT ![Default] = new] \in [Config -> ForKitType]
    BY <1>1, <1>2 DEF PoolType
  <2> QED BY <2>2, <2>3 DEF PoolType
<1>4. CreateForKit(p, late) = IF balance > 0 THEN RebalanceChildren(q, Default, balance, late) ELSE q
  BY DEF CreateForKit, new
<1>5. balance \in Int
  BY <1>1, <1>3 DEF PoolType
<1> HIDE DEF balance, q
<1>6. CASE balance > 0
  <2>1. balance \in Nat
    BY <1>5, <1>6
  <2>2. LET r == RebalanceChildren(q, Default, balance, late)
        IN  r \in PoolType /\ r.spare \subseteq q.spare
    BY <1>1, <1>3, <2>1, RebalanceType
  <2> QED BY <1>3, <1>4, <1>6, <2>2
<1>7. CASE ~(balance > 0)
  BY <1>3, <1>4, <1>7
<1> QED BY <1>6, <1>7
-----------------------------------------------------------------------------
(* What keeps the invariant when the brokers are left alone ...               *)

NoNewKit == \A k \in Kit : NewKit(k)' => NewKit(k)

(* Steps that leave the brokers, the Kits in hand and the registry alone. *)
LEMMA BrokersAreKept ==
  ASSUME Inv, Types', UNCHANGED <<broker, docs, phase>>, pool'.spare \subseteq pool.spare, NoNewKit
  PROVE  Inv'
<1>1. Registered'
  BY DEF Inv, Registered, ThreadRuns, MayWork
<1>2. KitsAreHeld'
  BY DEF Inv, KitsAreHeld, HasKit, NoNewKit
<1> QED BY <1>1, <1>2 DEF Inv

(* ... and when one of them, b, becomes r, and has no Kit that it had not.    *)
LEMMA OneBrokerMoves ==
  ASSUME Inv, Types', NEW b \in Broker, NEW r \in BrokerType,
         broker' = [broker EXCEPT ![b] = r], UNCHANGED <<docs, phase>>,
         pool'.spare \subseteq pool.spare, NoNewKit,
         r.kit \in {broker[b].kit, NoKit}, r.pc \in {"popped", "run", "ending"} <=> r.kit # NoKit,
         \/ r.pc \in {"unborn", "ended"}
         \/ r.pc = "created" /\ r.stop
         \/ r.doc = broker[b].doc /\ (ThreadRuns(b) \/ MayWork(b))
  PROVE  Inv'
<1>1. broker'[b] = r /\ \A x \in Broker : x # b => broker'[x] = broker[x]
  BY DEF Inv, Types
<1>2. Registered'
  BY <1>1 DEF Inv, Registered, ThreadRuns, MayWork
<1>3. KitsAreHeld'
  <2>1. \A x \in Broker : HasKit(x)' <=> broker'[x].kit # NoKit
    BY <1>1 DEF Inv, KitsAreHeld, HasKit
  <2>2. \A x, y \in Broker : x # y /\ broker'[x].kit = broker'[y].kit => broker'[x].kit = NoKit
    BY <1>1 DEF Inv, KitsAreHeld
  <2>3. \A x \in Broker : broker'[x].kit \notin pool'.spare
    BY <1>1, ServerAssumption DEF Inv, KitsAreHeld, Types, PoolType
  <2>4. \A k \in Kit : NewKit(k)' => k \notin pool'.spare /\ \A x \in Broker : broker'[x].kit # k
    BY <1>1, ServerAssumption DEF Inv, KitsAreHeld, NoNewKit
  <2> QED BY <2>1, <2>2, <2>3, <2>4 DEF KitsAreHeld
<1> QED BY <1>2, <1>3 DEF Inv

(* A new broker.                                                              *)
LEMMA NewBrokerType == NewBroker \in BrokerType /\ Ended \in BrokerType /\ Ended.pc = "ended" /\ Ended.kit = NoKit
<1>1. (CHOOSE d \in Doc : TRUE) \in Doc
  BY ServerAssumption
<1>2. NewBroker \in BrokerType
  BY <1>1 DEF NewBroker, BrokerType
<1>3. Ended = [NewBroker EXCEPT !.pc = "ended", !.stop = TRUE]
  BY DEF Ended
<1>4. NewBroker.kit = NoKit
  BY DEF NewBroker
<1> HIDE DEF NewBroker
<1> QED BY <1>2, <1>3, <1>4 DEF BrokerType

(* The first state. *)
LEMMA Initially == Init => Inv
<1> SUFFICES ASSUME Init PROVE Inv
  OBVIOUS
<1>1. pool \in PoolType
  BY NoForKitType DEF Init, PoolType
<1>2. kit \in [Kit -> KitType]
  BY ServerAssumption DEF Init, KitType
<1>3. \A b \in Broker : broker[b].pc = "unborn" /\ broker[b].kit = NoKit
  BY DEF Init, NewBroker
<1>4. Types
  BY <1>1, <1>2, NewBrokerType DEF Init, Types
<1>5. Registered
  BY <1>3 DEF Registered, ThreadRuns, MayWork
<1>6. KitsAreHeld
  BY <1>3, ServerAssumption DEF Init, KitsAreHeld, HasKit, NewKit
<1> QED BY <1>4, <1>5, <1>6 DEF Inv
-----------------------------------------------------------------------------
(* The ForKits.                                                               *)

(* A ForKit that is replaced by another one.                                  *)
LEMMA SetForKitType ==
  ASSUME NEW p \in PoolType, NEW c \in Config, NEW f \in ForKitType
  PROVE  LET q == [p EXCEPT !.forkit[c] = f]
         IN  q \in PoolType /\ q.spare = p.spare
BY DEF PoolType

(* The places that a ForKit can fork a Kit into are nobody's.                 *)
LEMMA ForkIsFresh ==
  ASSUME Inv, NEW c \in Config, NEW new \in SUBSET FreePlaces,
         pool' \in PoolType, pool'.spare \subseteq pool.spare,
         kit' = [k \in Kit |-> IF k \in new THEN ForkedKit(c) ELSE kit[k]],
         UNCHANGED <<broker, docs, phase>>
  PROVE  Inv'
<1>1. ForkedKit(c) \in KitType
  BY DEF ForkedKit, KitType
<1>2. Types'
  BY <1>1 DEF Inv, Types
<1>3. Registered'
  BY DEF Inv, Registered, ThreadRuns, MayWork
<1>4. KitsAreHeld'
  <2>1. \A k \in new : k \in Kit /\ k \notin pool.spare /\ \A b \in Broker : broker[b].kit # k
    BY DEF FreePlaces, Referenced
  <2>2. \A k \in Kit : NewKit(k)' => k \in new \/ NewKit(k)
    BY DEF NewKit
  <2> QED BY <2>1, <2>2 DEF Inv, KitsAreHeld, HasKit
<1> QED BY <1>2, <1>3, <1>4 DEF Inv

(* A ForKit starts. *)
LEMMA ForKitStartsKeeps ==
  ASSUME Inv, NEW c \in Config, ForKitStarts(c)
  PROVE  Inv'
<1> DEFINE k0 == CHOOSE k \in FreePlaces : TRUE
           f == [pool.forkit[c] EXCEPT !.proc = "up", !.known = TRUE]
           up == [pool EXCEPT !.forkit[c].proc = "up", !.forkit[c].known = TRUE]
           sent == [f EXCEPT !.requests = @ \cup pool.queued]
<1>1. k0 \in FreePlaces
  BY DEF ForKitStarts
<1>2. pool \in PoolType /\ pool.forkit[c] \in ForKitType
  BY DEF Inv, Types, PoolType
<1>3. f \in ForKitType
  BY <1>2 DEF ForKitType
<1>4. up = [pool EXCEPT !.forkit[c] = f]
  BY <1>2 DEF PoolType, ForKitType
<1>5. up \in PoolType /\ up.spare = pool.spare
  BY <1>2, <1>3, <1>4, SetForKitType
<1>6. SendQueued(up) \in PoolType /\ SendQueued(up).spare = pool.spare
  <2>1. Default \in Config /\ up.forkit[Default] \in ForKitType /\ up.queued \in SUBSET Config
    BY <1>5, ServerAssumption DEF PoolType
  <2> HIDE DEF up
  <2> DEFINE g == [up.forkit[Default] EXCEPT !.requests = @ \cup up.queued]
  <2>2. g \in ForKitType
    BY <2>1 DEF ForKitType
  <2>3. SendQueued(up) = [[up EXCEPT !.forkit[Default] = g] EXCEPT !.queued = {}]
    BY <1>5, <2>1 DEF SendQueued, PoolType, ForKitType
  <2> HIDE DEF g
  <2>4. [up EXCEPT !.forkit[Default] = g] \in PoolType /\ [up EXCEPT !.forkit[Default] = g].spare = pool.spare
    BY <1>5, <2>1, <2>2, SetForKitType
  <2> QED BY <2>3, <2>4 DEF PoolType
<1>7. pool' = IF c = Default THEN SendQueued(up) ELSE RebalanceChildren(up, c, NumPreSpawned, FALSE)
  BY DEF ForKitStarts
<1>8. NumPreSpawned \in Nat
  BY ServerAssumption
<1> HIDE DEF up
<1>9. pool' \in PoolType /\ pool'.spare \subseteq pool.spare
  <2>1. LET q == RebalanceChildren(up, c, NumPreSpawned, FALSE) IN q \in PoolType /\ q.spare \subseteq up.spare
    BY <1>5, <1>8, RebalanceType DEF Inv
  <2> QED BY <1>5, <1>6, <1>7, <2>1
<1>10. kit' = [k \in Kit |-> IF k \in {k0} THEN ForkedKit(c) ELSE kit[k]]
  BY DEF ForKitStarts, Inv, Types
<1> QED BY <1>1, <1>9, <1>10, ForkIsFresh DEF ForKitStarts

(* A ForKit forks a Kit. *)
LEMMA ForkKeeps ==
  ASSUME Inv, NEW c \in Config, ForkLibreOfficeKit(c)
  PROVE  Inv'
<1> DEFINE f == pool.forkit[c]
<1>1. PICK m \in 0..Len(f.inbox) :
        LET counter == ForkCounter(f, m)
            n == Min({counter, Cardinality(FreePlaces)})
            new == CHOOSE s \in kSubset(n, FreePlaces) : TRUE
        IN  /\ kit' = [k \in Kit |-> IF k \in new THEN ForkedKit(c) ELSE kit[k]]
            /\ pool' = [pool EXCEPT !.forkit[c].counter = counter - n,
                                    !.forkit[c].inbox = SubSeq(@, m + 1, Len(@))]
  BY DEF ForkLibreOfficeKit
<1> DEFINE counter == ForkCounter(f, m)
           n == Min({counter, Cardinality(FreePlaces)})
           new == CHOOSE s \in kSubset(n, FreePlaces) : TRUE
           g == [f EXCEPT !.counter = counter - n, !.inbox = SubSeq(f.inbox, m + 1, Len(f.inbox))]
<1>2. pool \in PoolType /\ f \in ForKitType
  BY DEF Inv, Types, PoolType
<1>3. counter \in Nat
  <2>1. f.counter \in Nat /\ f.inbox \in Seq(Nat)
    BY <1>2 DEF ForKitType
  <2>2. CASE m = 0
    BY <2>1, <2>2 DEF ForkCounter
  <2>3. CASE m # 0
    <3>1. m \in 1..Len(f.inbox)
      BY <2>1, <2>3
    <3>2. f.inbox[m] \in Nat
      BY <2>1, <3>1
    <3> QED BY <2>3, <3>2 DEF ForkCounter
  <2> QED BY <2>2, <2>3
<1>4. IsFiniteSet(FreePlaces) /\ Cardinality(FreePlaces) \in Nat
  <2>1. FreePlaces \in SUBSET Kit
    BY DEF FreePlaces
  <2> QED BY <2>1, ServerAssumption, FS_Subset, FS_CardinalityType
<1>5. n \in 0..Cardinality(FreePlaces) /\ counter - n \in Nat
  BY <1>3, <1>4, MinOfTwo
<1> HIDE DEF counter, n
<1>6. new \in SUBSET FreePlaces
  <2>1. new \in kSubset(n, FreePlaces)
    BY <1>4, <1>5, SubsetOfSize
  <2> QED BY <2>1 DEF kSubset
<1>7. g \in ForKitType
  <2>1. SubSeq(f.inbox, m + 1, Len(f.inbox)) \in Seq(Nat)
    <3>1. f.inbox \in Seq(Nat)
      BY <1>2 DEF ForKitType
    <3> QED BY <3>1, RestOfInbox
  <2> QED BY <1>2, <1>5, <2>1 DEF ForKitType
<1>8. pool' = [pool EXCEPT !.forkit[c] = g]
  BY <1>1, <1>2 DEF PoolType, ForKitType, counter, n
<1>9. kit' = [k \in Kit |-> IF k \in new THEN ForkedKit(c) ELSE kit[k]]
  BY <1>1 DEF counter, n
<1> HIDE DEF new, g, f
<1>10. pool' \in PoolType /\ pool'.spare = pool.spare
  BY <1>2, <1>7, <1>8, SetForKitType
<1> QED BY <1>6, <1>9, <1>10, ForkIsFresh DEF ForkLibreOfficeKit

(* A ForKit for a configuration of its own is created. *)
LEMMA CreateSubForKitKeeps ==
  ASSUME Inv, NEW c \in Config, CreateSubForKit(c)
  PROVE  Inv'
<1> DEFINE f == [pool.forkit[Default] EXCEPT !.requests = @ \ {c}]
           p == [pool EXCEPT !.forkit[Default] = f]
           g == [p.forkit[c] EXCEPT !.proc = IF @ = "up" THEN @ ELSE "starting"]
<1>1. pool \in PoolType /\ Default \in Config /\ pool.forkit[Default] \in ForKitType
  BY ServerAssumption DEF Inv, Types, PoolType
<1>2. f \in ForKitType
  BY <1>1 DEF ForKitType
<1>3. p \in PoolType /\ p.spare = pool.spare /\ p.forkit[c] \in ForKitType
  BY <1>1, <1>2, SetForKitType DEF PoolType
<1>4. g \in ForKitType
  <2> HIDE DEF p
  <2> QED BY <1>3 DEF ForKitType
<1>5. pool' = [p EXCEPT !.forkit[c] = g]
  BY <1>1 DEF CreateSubForKit, PoolType, ForKitType
<1> HIDE DEF p, g
<1>6. pool' \in PoolType /\ pool'.spare = pool.spare
  BY <1>3, <1>4, <1>5, SetForKitType
<1>7. Types' /\ NoNewKit
  BY <1>6 DEF CreateSubForKit, Inv, Types, NoNewKit, NewKit
<1> QED BY <1>6, <1>7, BrokersAreKept DEF CreateSubForKit

(* A ForKit dies. *)
LEMMA ForKitDiesKeeps ==
  ASSUME Inv, NEW c \in Config, ForKitDies(c)
  PROVE  Inv'
<1>1. \A x \in Config : pool.forkit[x] \in ForKitType
  BY DEF Inv, Types, PoolType
<1>2. \A x \in Config : [NoForKit EXCEPT !.proc = "dead", !.known = pool.forkit[x].known] \in ForKitType
  BY <1>1, NoForKitType DEF ForKitType
<1>3. pool' \in PoolType /\ pool'.spare = pool.spare
  BY <1>1, <1>2 DEF ForKitDies, Inv, Types, PoolType
<1>4. Types' /\ NoNewKit
  BY <1>3 DEF ForKitDies, Inv, Types, NoNewKit, NewKit
<1> QED BY <1>3, <1>4, BrokersAreKept DEF ForKitDies

(* A broker sees to it that its ForKit is there. *)
LEMMA EnsureSubForKitKeeps ==
  ASSUME Inv, NEW c \in Config, EnsureSubForKit(c)
  PROVE  Inv'
<1> DEFINE f == [pool.forkit[Default] EXCEPT !.requests = @ \cup {c}]
<1>1. pool \in PoolType /\ Default \in Config /\ pool.forkit[Default] \in ForKitType
  BY ServerAssumption DEF Inv, Types, PoolType
<1>2. f \in ForKitType
  BY <1>1 DEF ForKitType
<1>3. \/ pool' = pool
      \/ pool' = [pool EXCEPT !.forkit[Default] = f]
      \/ pool' = [pool EXCEPT !.queued = @ \cup {c}]
  BY <1>1 DEF EnsureSubForKit, PoolType, ForKitType
<1>4. [pool EXCEPT !.queued = @ \cup {c}] \in PoolType /\ [pool EXCEPT !.queued = @ \cup {c}].spare = pool.spare
  BY <1>1 DEF PoolType
<1>5. pool' \in PoolType /\ pool'.spare = pool.spare
  <2> HIDE DEF f
  <2>1. LET q == [pool EXCEPT !.forkit[Default] = f] IN q \in PoolType /\ q.spare = pool.spare
    BY <1>1, <1>2, SetForKitType
  <2> QED BY <1>1, <1>3, <1>4, <2>1
<1>6. Types' /\ NoNewKit
  BY <1>5 DEF EnsureSubForKit, Inv, Types, NoNewKit, NewKit
<1> QED BY <1>5, <1>6, BrokersAreKept DEF EnsureSubForKit
-----------------------------------------------------------------------------
(* The Kits, and the server's own poll.                                       *)

(* A Kit that has connected and is not one of the new any more.               *)
LEMMA KitConnectsKeeps ==
  ASSUME Inv, NEW k \in Kit, KitConnects(k)
  PROVE  Inv'
<1> DEFINE c == kit[k].config
           count == IF pool.outstanding[c] > 0 THEN pool.outstanding[c] - 1 ELSE pool.outstanding[c]
<1>1. pool \in PoolType /\ c \in Config /\ kit \in [Kit -> KitType] /\ broker \in [Broker -> BrokerType]
  BY DEF Inv, Types, KitType
<1>2. count \in Nat
  BY <1>1 DEF PoolType
<1>3. pool' = [pool EXCEPT !.outstanding[c] = count, !.spare = @ \cup {k}]
  BY <1>1 DEF KitConnects, AddNewChild, PoolType
<1> HIDE DEF count, c
<1>4. pool' \in PoolType /\ pool'.spare = pool.spare \cup {k}
  BY <1>1, <1>2, <1>3 DEF PoolType
<1>5. kit' \in [Kit -> KitType] /\ NewKit(k) /\ ~NewKit(k)' /\ \A x \in Kit : x # k => kit'[x] = kit[x]
  BY <1>1 DEF KitConnects, KitType, NewKit
<1>6. broker' \in [Broker -> BrokerType] /\ docs' = docs /\ phase' = phase
  BY <1>1 DEF KitConnects, BrokerType
<1>7. \A b \in Broker : broker'[b].pc = broker[b].pc /\ broker'[b].kit = broker[b].kit
                        /\ broker'[b].doc = broker[b].doc /\ (broker'[b].stop <=> broker[b].stop)
  BY <1>1 DEF KitConnects, BrokerType
<1>8. Types'
  BY <1>4, <1>5, <1>6 DEF Inv, Types
<1>9. Registered'
  BY <1>6, <1>7 DEF Inv, Registered, ThreadRuns, MayWork
<1>10. KitsAreHeld'
  BY <1>4, <1>5, <1>7 DEF Inv, KitsAreHeld, HasKit, NewKit
<1> QED BY <1>8, <1>9, <1>10 DEF Inv

(* A Kit ends. *)
LEMMA KitEndsKeeps ==
  ASSUME Inv, NEW k \in Kit, KitDies(k) \/ KitExits(k) \/ Reap(k)
  PROVE  Inv'
<1>1. kit \in [Kit -> KitType] /\ Default \in Config
  BY ServerAssumption DEF Inv, Types
<1>2. Dead(kit[k]) \in KitType /\ Dead(kit[k]).life # "run"
  BY <1>1 DEF Dead, KitType
<1>3. /\ kit'[k] \in KitType /\ kit'[k].life # "run"
      /\ kit' = [kit EXCEPT ![k] = kit'[k]]
      /\ UNCHANGED <<pool, broker, docs, phase>>
  <2>1. CASE KitDies(k) \/ KitExits(k)
    BY <1>1, <1>2, <2>1 DEF KitDies, KitExits
  <2>2. CASE Reap(k)
    <3> DEFINE r == [life |-> "gone", config |-> IF k \in pool.spare THEN kit[k].config ELSE Default,
                     conn |-> IF kit[k].conn = "server" THEN kit[k].conn ELSE "closed", told |-> FALSE]
    <3>1. r \in KitType /\ r.life # "run"
      BY <1>1 DEF KitType
    <3>2. kit' = [kit EXCEPT ![k] = r]
      BY <2>2 DEF Reap
    <3> HIDE DEF r
    <3> QED BY <1>1, <2>2, <3>1, <3>2 DEF Reap
  <2> QED BY <2>1, <2>2
<1>4. Types' /\ NoNewKit
  BY <1>1, <1>3 DEF Inv, Types, NoNewKit, NewKit
<1> QED BY <1>3, <1>4, BrokersAreKept

(* A Kit's socket is closed. *)
LEMMA PrisonerDisconnectsKeeps ==
  ASSUME Inv, NEW k \in Kit, PrisonerDisconnects(k)
  PROVE  Inv'
<1> DEFINE c == IF k \in pool.spare THEN kit[k].config ELSE Default
           p == [pool EXCEPT !.spare = @ \ {k}]
<1>1. pool \in PoolType /\ kit \in [Kit -> KitType] /\ NumPreSpawned \in Nat /\ Types
  BY ServerAssumption DEF Inv, Types
<1>2. c \in Config
  BY <1>1, ServerAssumption DEF KitType
<1>3. p \in PoolType /\ p.spare \subseteq pool.spare
  BY <1>1 DEF PoolType
<1>4. pool' = pool \/ \E late : pool' = RebalanceChildren(p, c, NumPreSpawned, late)
  BY DEF PrisonerDisconnects
<1> HIDE DEF p, c
<1>5. pool' \in PoolType /\ pool'.spare \subseteq pool.spare
  <2>1. \A late : LET q == RebalanceChildren(p, c, NumPreSpawned, late) IN q \in PoolType /\ q.spare \subseteq p.spare
    BY <1>1, <1>2, <1>3, RebalanceType
  <2> QED BY <1>1, <1>3, <1>4, <2>1
<1>6. Types' /\ NoNewKit
  BY <1>1, <1>5 DEF PrisonerDisconnects, Types, NoNewKit, NewKit, KitType
<1> QED BY <1>5, <1>6, BrokersAreKept DEF PrisonerDisconnects

(* The ForKit is started again. *)
LEMMA RestoreForKitKeeps ==
  ASSUME Inv, RestoreForKit
  PROVE  Inv'
<1> DEFINE subs == {c \in Config \ {Default} : pool.forkit[c].known}
           dropped == [pool EXCEPT !.outstanding = [c \in Config |-> IF c \in subs THEN 0 ELSE @[c]],
                                   !.forkit = [c \in Config |-> IF c \in subs THEN NoForKit ELSE @[c]]]
<1>1. Types /\ pool \in PoolType
  BY DEF Inv, Types
<1>2. dropped \in PoolType /\ dropped.spare = pool.spare
  <2> HIDE DEF subs
  <2> QED BY <1>1, NoForKitType DEF PoolType
<1>3. \E late : pool' = CreateForKit(dropped, late)
  BY DEF RestoreForKit
<1> HIDE DEF dropped
<1>4. pool' \in PoolType /\ pool'.spare \subseteq pool.spare
  BY <1>1, <1>2, <1>3, CreateForKitType
<1>5. Types' /\ NoNewKit
  BY <1>1, <1>4 DEF RestoreForKit, Types, NoNewKit, NewKit
<1> QED BY <1>4, <1>5, BrokersAreKept DEF RestoreForKit

(* Spare Kits are asked for. *)
LEMMA PrespawnChildrenKeeps ==
  ASSUME Inv, NEW late, PrespawnChildren(late)
  PROVE  Inv'
<1>1. Types /\ pool \in PoolType /\ NumPreSpawned \in Nat /\ Default \in Config
  BY ServerAssumption DEF Inv, Types
<1>2. pool' \in PoolType /\ pool'.spare \subseteq pool.spare
  BY <1>1, RebalanceType DEF PrespawnChildren
<1>3. Types' /\ NoNewKit
  BY <1>1, <1>2 DEF PrespawnChildren, Types, NoNewKit, NewKit
<1> QED BY <1>2, <1>3, BrokersAreKept DEF PrespawnChildren

(* Spare Kits that are too many are ended. *)
LEMMA TerminateSparesKeeps ==
  ASSUME Inv, RequestTerminateSpareKits
  PROVE  Inv'
<1>1. kit \in [Kit -> KitType]
  BY DEF Inv, Types
<1>2. kit' \in [Kit -> KitType]
  BY <1>1 DEF RequestTerminateSpareKits, KitType
<1>3. Types'
  BY <1>2 DEF RequestTerminateSpareKits, Inv, Types
<1>4. NoNewKit
  BY <1>1 DEF RequestTerminateSpareKits, NoNewKit, NewKit, KitType
<1> QED BY <1>3, <1>4, BrokersAreKept DEF RequestTerminateSpareKits
-----------------------------------------------------------------------------
(* The documents.                                                             *)

(* A document whose broker works stays registered.                            *)
LEMMA CleanedUpKeeps ==
  ASSUME Types, NEW b \in Broker, docs[broker[b].doc] = b, BrokerAlive(b)
  PROVE  CleanedUp(docs)[broker[b].doc] = b
BY ServerAssumption DEF CleanedUp, Types, BrokerType

(* The brokers that are left after a cleanup. *)
LEMMA CleanedUpType ==
  ASSUME Types
  PROVE  CleanedUp(docs) \in [Doc -> Broker \cup {NoBroker}]
BY DEF Types, CleanedUp

(* A broker that may work is alive. *)
LEMMA WorkingIsAlive ==
  ASSUME NEW b \in Broker, ThreadRuns(b) \/ MayWork(b)
  PROVE  BrokerAlive(b)
BY DEF BrokerAlive, MayWork

(* Brokers that are done are removed from the registry. *)
LEMMA CleanupDocBrokersKeeps ==
  ASSUME Inv, CleanupDocBrokers
  PROVE  Inv'
<1>1. Types
  BY DEF Inv
<1>2. pool' \in PoolType /\ pool'.spare = pool.spare
  <2>1. PICK drop : pool' = [pool EXCEPT !.forkit = [c \in Config |-> IF c \in drop THEN NoForKit ELSE @[c]]]
    BY DEF CleanupDocBrokers
  <2> QED BY <1>1, <2>1, NoForKitType DEF Types, PoolType
<1>3. Types'
  BY <1>1, <1>2, CleanedUpType DEF CleanupDocBrokers, Types
<1>4. Registered'
  <2> SUFFICES ASSUME NEW b \in Broker, ThreadRuns(b) \/ MayWork(b)
               PROVE  docs'[broker[b].doc] = b
    BY DEF CleanupDocBrokers, Registered, ThreadRuns, MayWork
  <2>1. docs[broker[b].doc] = b
    BY DEF Inv, Registered
  <2> QED BY <1>1, <2>1, WorkingIsAlive, CleanedUpKeeps DEF CleanupDocBrokers
<1>5. KitsAreHeld'
  BY <1>2 DEF CleanupDocBrokers, Inv, KitsAreHeld, HasKit, NewKit
<1> QED BY <1>3, <1>4, <1>5 DEF Inv

(* Nobody works on a document that is free to be opened.                      *)
LEMMA OpenKeeps ==
  ASSUME Inv, NEW d \in Doc, NEW b \in Broker, Open(d, b)
  PROVE  Inv'
<1>1. Types /\ broker \in [Broker -> BrokerType] /\ broker[b].pc = "unborn"
  BY DEF Inv, Types, Open
<1>2. broker' \in [Broker -> BrokerType] /\ docs' \in [Doc -> Broker \cup {NoBroker}]
  <2> DEFINE r == [broker[b] EXCEPT !.pc = "created", !.doc = d]
  <2>1. r \in BrokerType
    BY <1>1 DEF BrokerType
  <2>2. broker' = [broker EXCEPT ![b] = r]
    BY <1>1 DEF Open, BrokerType
  <2>3. docs' = [CleanedUp(docs) EXCEPT ![d] = b]
    BY DEF Open
  <2> HIDE DEF r
  <2> QED BY <1>1, <2>1, <2>2, <2>3, CleanedUpType
<1>3. Types'
  BY <1>1, <1>2 DEF Open, Types
<1>4. \A x \in Broker : /\ x # b => broker'[x] = broker[x]
                        /\ broker'[b].pc = "created" /\ broker'[b].doc = d /\ broker'[b].kit = broker[b].kit
  BY <1>1 DEF Open, BrokerType
<1>5. Registered'
  <2> SUFFICES ASSUME NEW x \in Broker, ThreadRuns(x)' \/ MayWork(x)'
               PROVE  docs'[broker'[x].doc] = x
    BY DEF Registered
  <2>1. CASE x = b
    BY <1>1, <1>4, <2>1, CleanedUpType DEF Open
  <2>2. CASE x # b
    <3>1. broker'[x] = broker[x] /\ (ThreadRuns(x) \/ MayWork(x))
      BY <1>4, <2>2 DEF ThreadRuns, MayWork, Open
    <3>2. docs[broker[x].doc] = x
      BY <3>1 DEF Inv, Registered
    <3>3. CleanedUp(docs)[broker[x].doc] = x
      BY <1>1, <3>1, <3>2, WorkingIsAlive, CleanedUpKeeps
    <3>4. broker[x].doc # d
      BY <3>3, ServerAssumption DEF Open
    <3>5. broker[x].doc \in Doc
      BY <1>1 DEF BrokerType
    <3> QED BY <1>1, <3>1, <3>3, <3>4, <3>5, CleanedUpType DEF Open
  <2> QED BY <2>1, <2>2
<1>6. KitsAreHeld'
  <2>1. \A x \in Broker : broker'[x].kit = broker[x].kit /\ (HasKit(x)' <=> HasKit(x))
    BY <1>1, <1>4 DEF HasKit
  <2>2. UNCHANGED <<pool, kit>>
    BY DEF Open
  <2> QED BY <2>1, <2>2 DEF Inv, KitsAreHeld, NewKit
<1> QED BY <1>3, <1>5, <1>6 DEF Inv

(* The steps of a broker that leave the Kits and the pool alone.              *)
LEMMA BrokerAloneKeeps ==
  ASSUME Inv, NEW b \in Broker,
         \/ StartThread(b) \/ TimeoutNotLoaded(b) \/ Retry(b) \/ GiveUp(b)
         \/ Edit(b) \/ SaveAndUpload(b) \/ Unload(b)
  PROVE  Inv'
<1>1. broker[b] \in BrokerType /\ broker \in [Broker -> BrokerType] /\ UNCHANGED <<pool, kit, docs, phase>>
  BY DEF Inv, Types, StartThread, TimeoutNotLoaded, Retry, GiveUp, Edit, SaveAndUpload, Unload
<1>2. NoNewKit
  BY <1>1 DEF NoNewKit, NewKit
<1>3. broker[b].kit # NoKit <=> HasKit(b)
  BY DEF Inv, KitsAreHeld
<1>4. ASSUME NEW r \in BrokerType, broker' = [broker EXCEPT ![b] = r],
             r.kit \in {broker[b].kit, NoKit}, r.pc \in {"popped", "run", "ending"} <=> r.kit # NoKit,
             \/ r.pc \in {"unborn", "ended"}
             \/ r.pc = "created" /\ r.stop
             \/ r.doc = broker[b].doc /\ (ThreadRuns(b) \/ MayWork(b))
      PROVE  Inv'
  <2>1. Types'
    BY <1>1, <1>4 DEF Inv, Types
  <2> QED BY <1>1, <1>2, <1>4, <2>1, OneBrokerMoves
<1>5. CASE StartThread(b)
  <2> DEFINE r == [broker[b] EXCEPT !.pc = "get"]
  <2>1. r \in BrokerType /\ r.pc = "get" /\ r.kit = broker[b].kit /\ r.doc = broker[b].doc
    BY <1>1 DEF BrokerType
  <2>2. MayWork(b) /\ broker' = [broker EXCEPT ![b] = r] /\ broker[b].pc = "created"
    BY <1>5 DEF StartThread, MayWork
  <2> HIDE DEF r
  <2> QED BY <1>3, <1>4, <2>1, <2>2 DEF HasKit
<1>6. CASE TimeoutNotLoaded(b)
  <2> DEFINE r == [broker[b] EXCEPT !.stop = TRUE]
  <2>1. r \in BrokerType /\ r.stop /\ r.pc = "created" /\ r.kit = broker[b].kit
    BY <1>1, <1>6 DEF BrokerType, TimeoutNotLoaded
  <2>2. broker' = [broker EXCEPT ![b] = r] /\ broker[b].pc = "created"
    BY <1>6 DEF TimeoutNotLoaded
  <2> HIDE DEF r
  <2> QED BY <1>3, <1>4, <2>1, <2>2 DEF HasKit
<1>7. CASE Retry(b)
  <2> DEFINE r == [broker[b] EXCEPT !.pc = "get", !.tries = @ + 1]
  <2>1. r \in BrokerType /\ r.pc = "get" /\ r.kit = broker[b].kit /\ r.doc = broker[b].doc
    <3>1. broker[b].tries + 1 \in Nat
      BY <1>1 DEF BrokerType
    <3> QED BY <1>1, <3>1 DEF BrokerType
  <2>2. broker' = [broker EXCEPT ![b] = r] /\ broker[b].pc = "failed"
    BY <1>7 DEF Retry
  <2> HIDE DEF r
  <2> QED BY <1>3, <1>4, <2>1, <2>2 DEF HasKit, ThreadRuns
<1>8. CASE GiveUp(b)
  <2>1. broker' = [broker EXCEPT ![b] = Ended]
    BY <1>8 DEF GiveUp
  <2> QED BY <1>4, <2>1, NewBrokerType
<1>9. CASE Edit(b)
  <2> DEFINE r == [broker[b] EXCEPT !.dirty = TRUE]
  <2>1. r \in BrokerType /\ r.pc = broker[b].pc /\ r.kit = broker[b].kit /\ r.doc = broker[b].doc
    BY <1>1 DEF BrokerType
  <2>2. broker' = [broker EXCEPT ![b] = r] /\ broker[b].pc = "run"
    BY <1>9 DEF Edit
  <2> HIDE DEF r
  <2> QED BY <1>3, <1>4, <2>1, <2>2 DEF HasKit, ThreadRuns
<1>10. CASE SaveAndUpload(b)
  <2> DEFINE r == [broker[b] EXCEPT !.dirty = FALSE]
  <2>1. r \in BrokerType /\ r.pc = broker[b].pc /\ r.kit = broker[b].kit /\ r.doc = broker[b].doc
    BY <1>1 DEF BrokerType
  <2>2. broker' = [broker EXCEPT ![b] = r] /\ broker[b].pc = "run"
    BY <1>10 DEF SaveAndUpload
  <2> HIDE DEF r
  <2> QED BY <1>3, <1>4, <2>1, <2>2 DEF HasKit, ThreadRuns
<1>11. CASE Unload(b)
  <2> DEFINE r == [broker[b] EXCEPT !.pc = "ending", !.stop = TRUE]
  <2>1. r \in BrokerType /\ r.pc = "ending" /\ r.kit = broker[b].kit /\ r.doc = broker[b].doc
    BY <1>1 DEF BrokerType
  <2>2. broker' = [broker EXCEPT ![b] = r] /\ broker[b].pc = "run"
    BY <1>11 DEF Unload
  <2> HIDE DEF r
  <2> QED BY <1>3, <1>4, <2>1, <2>2 DEF HasKit, ThreadRuns
<1> QED BY <1>5, <1>6, <1>7, <1>8, <1>9, <1>10, <1>11
-----------------------------------------------------------------------------
(* getNewChild_Blocks.                                                        *)

(* The Kit that is popped is a spare of before, and so nobody else's.         *)
LEMMA PopKeeps ==
  ASSUME Inv, NEW b \in Broker, broker[b].pc \in {"get", "wait"},
         NEW p \in PoolType, p.spare \subseteq pool.spare, NEW k \in p.spare,
         Pop(p, b, k), UNCHANGED <<kit, docs, phase>>
  PROVE  Inv'
<1> DEFINE r == [broker[b] EXCEPT !.pc = "popped", !.kit = k, !.notified = FALSE]
<1>1. broker \in [Broker -> BrokerType] /\ k \in pool.spare /\ k \in Kit /\ k # NoKit
  BY ServerAssumption DEF Inv, Types, PoolType
<1>2. r \in BrokerType /\ r.pc = "popped" /\ r.kit = k /\ r.doc = broker[b].doc
  BY <1>1 DEF BrokerType
<1>3. broker' = [broker EXCEPT ![b] = r]
  BY DEF Pop
<1> HIDE DEF r
<1>4. pool' \in PoolType /\ pool'.spare = p.spare \ {k}
  BY DEF Pop, PoolType
<1>5. broker'[b] = r /\ \A x \in Broker : x # b => broker'[x] = broker[x]
  BY <1>1, <1>3
<1>6. Types'
  BY <1>1, <1>2, <1>3, <1>4 DEF Inv, Types
<1>7. Registered'
  BY <1>2, <1>5 DEF Inv, Registered, ThreadRuns, MayWork
<1>8. KitsAreHeld'
  <2>1. \A x \in Broker : broker[x].kit # k /\ (x # b => broker'[x].kit \notin pool'.spare)
    BY <1>1, <1>4, <1>5 DEF Inv, KitsAreHeld
  <2>2. \A x \in Broker : HasKit(x)' <=> broker'[x].kit # NoKit
    BY <1>1, <1>2, <1>5 DEF Inv, KitsAreHeld, HasKit
  <2>3. \A x, y \in Broker : x # y /\ broker'[x].kit = broker'[y].kit => broker'[x].kit = NoKit
    BY <1>2, <1>5, <2>1 DEF Inv, KitsAreHeld
  <2>4. \A x \in Broker : broker'[x].kit \notin pool'.spare
    BY <1>2, <1>4, <1>5, <2>1
  <2>5. \A x \in Kit : NewKit(x)' => x \notin pool'.spare /\ \A y \in Broker : broker'[y].kit # x
    BY <1>1, <1>2, <1>4, <1>5 DEF Inv, KitsAreHeld, NewKit
  <2> QED BY <2>2, <2>3, <2>4, <2>5 DEF KitsAreHeld
<1> QED BY <1>6, <1>7, <1>8 DEF Inv

(* A broker takes a spare Kit, or waits for one. *)
LEMMA PopOrWaitKeeps ==
  ASSUME Inv, NEW b \in Broker, broker[b].pc \in {"get", "wait"},
         NEW p \in PoolType, p.spare \subseteq pool.spare,
         PopOrWait(p, b), UNCHANGED <<kit, docs, phase>>
  PROVE  Inv'
<1> DEFINE c == ConfigOfBroker(b)
           r == [broker[b] EXCEPT !.pc = "wait", !.notified = FALSE]
<1>1. CASE \E k \in SparesOf(p, c) : Pop(p, b, k)
  BY <1>1, PopKeeps DEF SparesOf
<1>2. CASE pool' = p /\ broker' = [broker EXCEPT ![b].pc = "wait", ![b].notified = FALSE]
  <2>1. broker \in [Broker -> BrokerType]
    BY DEF Inv, Types
  <2>2. r \in BrokerType /\ r.pc = "wait" /\ r.kit = broker[b].kit /\ r.doc = broker[b].doc
    BY <2>1 DEF BrokerType
  <2>3. broker' = [broker EXCEPT ![b] = r]
    BY <1>2, <2>1 DEF BrokerType
  <2> HIDE DEF r
  <2>4. Types' /\ NoNewKit
    BY <1>2, <2>1, <2>2, <2>3 DEF Inv, Types, NoNewKit, NewKit
  <2>5. broker[b].kit = NoKit /\ ThreadRuns(b)
    BY DEF Inv, KitsAreHeld, HasKit, ThreadRuns
  <2> QED BY <1>2, <2>2, <2>3, <2>4, <2>5, OneBrokerMoves
<1> QED BY <1>1, <1>2 DEF PopOrWait

(* A broker's thread wants a Kit. *)
LEMMA GetNewChildKeeps ==
  ASSUME Inv, NEW b \in Broker, GetNewChild(b) \/ Woken(b)
  PROVE  Inv'
<1> DEFINE c == ConfigOfBroker(b)
<1>1. Types /\ pool \in PoolType /\ c \in Config /\ NumPreSpawned + 1 \in Nat
  BY ServerAssumption DEF Inv, Types, BrokerType, ConfigOfBroker
<1>2. CASE GetNewChild(b)
  <2>1. PICK ready, late : PopOrWait(IF ready THEN RebalanceChildren(pool, c, NumPreSpawned + 1, late) ELSE pool, b)
    BY <1>2 DEF GetNewChild
  <2> DEFINE p == IF ready THEN RebalanceChildren(pool, c, NumPreSpawned + 1, late) ELSE pool
  <2>2. LET q == RebalanceChildren(pool, c, NumPreSpawned + 1, late) IN q \in PoolType /\ q.spare \subseteq pool.spare
    BY <1>1, RebalanceType
  <2>3. p \in PoolType /\ p.spare \subseteq pool.spare
    BY <1>1, <2>2
  <2>4. PopOrWait(p, b)
    BY <2>1
  <2> HIDE DEF p
  <2> QED BY <1>2, <2>3, <2>4, PopOrWaitKeeps DEF GetNewChild
<1>3. CASE Woken(b)
  BY <1>1, <1>3, PopOrWaitKeeps DEF Woken
<1> QED BY <1>2, <1>3

(* A Kit that could not be had is forgotten.                                  *)
LEMMA FailedKeeps ==
  ASSUME Inv, NEW b \in Broker, broker[b].pc \in {"wait", "popped"}, Failed(b), UNCHANGED <<kit, docs, phase>>
  PROVE  Inv'
<1> DEFINE c == ConfigOfBroker(b)
           r == [broker[b] EXCEPT !.pc = "failed", !.kit = NoKit, !.notified = FALSE]
<1>1. broker \in [Broker -> BrokerType] /\ pool \in PoolType /\ c \in Config
  BY ServerAssumption DEF Inv, Types, BrokerType, ConfigOfBroker
<1>2. r \in BrokerType /\ r.pc = "failed" /\ r.kit = NoKit /\ r.doc = broker[b].doc
  BY <1>1 DEF BrokerType
<1>3. broker' = [broker EXCEPT ![b] = r]
  BY DEF Failed
<1> HIDE DEF r
<1>4. pool' = pool \/ pool' = DropSubForKit(pool, c)
  BY DEF Failed
<1> HIDE DEF c
<1>5. pool' \in PoolType /\ pool'.spare = pool.spare
  <2> DEFINE out == [pool.outstanding EXCEPT ![c] = 0]  forkits == [pool.forkit EXCEPT ![c] = NoForKit]
  <2>1. out \in [Config -> Nat] /\ forkits \in [Config -> ForKitType]
    BY <1>1, NoForKitType DEF PoolType
  <2>2. DropSubForKit(pool, c) = [pool EXCEPT !.outstanding = out, !.forkit = forkits]
    BY <1>1 DEF DropSubForKit, PoolType
  <2> HIDE DEF out, forkits
  <2> QED BY <1>1, <1>4, <2>1, <2>2 DEF PoolType
<1>6. Types' /\ NoNewKit /\ ThreadRuns(b)
  BY <1>1, <1>2, <1>3, <1>5 DEF Inv, Types, NoNewKit, NewKit, ThreadRuns
<1> QED BY <1>2, <1>3, <1>5, <1>6, OneBrokerMoves

(* A wait for a Kit ends without one. *)
LEMMA WaitTimesOutKeeps ==
  ASSUME Inv, NEW b \in Broker, WaitTimesOut(b) \/ PoppedDead(b)
  PROVE  Inv'
<1>1. CASE WaitTimesOut(b) /\ \E k \in SparesOf(pool, ConfigOfBroker(b)) : Pop(pool, b, k)
  BY <1>1, PopKeeps DEF WaitTimesOut, SparesOf, Inv, Types
<1>2. CASE WaitTimesOut(b) /\ Failed(b)
  BY <1>2, FailedKeeps DEF WaitTimesOut
<1>3. CASE PoppedDead(b)
  BY <1>3, FailedKeeps DEF PoppedDead
<1> QED BY <1>1, <1>2, <1>3 DEF WaitTimesOut

(* A broker takes the socket of its Kit. *)
LEMMA TakeSocketKeeps ==
  ASSUME Inv, NEW b \in Broker, TakeSocket(b)
  PROVE  Inv'
<1> DEFINE r == [broker[b] EXCEPT !.pc = "run"]
           k == broker[b].kit
<1>1. broker \in [Broker -> BrokerType] /\ kit \in [Kit -> KitType] /\ HasKit(b) /\ ThreadRuns(b) /\ k # NoKit
  BY DEF Inv, Types, KitsAreHeld, TakeSocket, HasKit, ThreadRuns
<1>2. k \in Kit
  BY <1>1 DEF BrokerType
<1>3. r \in BrokerType /\ r.pc = "run" /\ r.kit = k /\ r.doc = broker[b].doc
  BY <1>1 DEF BrokerType
<1>4. broker' = [broker EXCEPT ![b] = r] /\ kit' = [kit EXCEPT ![k].conn = "broker"] /\ UNCHANGED <<pool, docs, phase>>
  BY DEF TakeSocket
<1>5. kit' \in [Kit -> KitType]
  BY <1>1, <1>2, <1>4 DEF KitType
<1>6. NoNewKit
  BY <1>1, <1>2, <1>4 DEF NoNewKit, NewKit, KitType
<1> HIDE DEF r, k
<1>7. Types'
  BY <1>1, <1>3, <1>4, <1>5 DEF Inv, Types
<1> QED BY <1>1, <1>3, <1>4, <1>6, <1>7, OneBrokerMoves DEF k

(* A broker's thread ends. *)
LEMMA EndThreadKeeps ==
  ASSUME Inv, NEW b \in Broker, EndThread(b)
  PROVE  Inv'
<1> DEFINE k == broker[b].kit
<1>1. broker \in [Broker -> BrokerType] /\ kit \in [Kit -> KitType]
  BY DEF Inv, Types
<1>2. UNCHANGED <<pool, docs, phase>> /\ broker' = [broker EXCEPT ![b] = Ended]
  BY DEF EndThread
<1>3. kit' \in [Kit -> KitType] /\ NoNewKit
  <2>1. k \in Kit
    BY <1>1 DEF Inv, KitsAreHeld, HasKit, EndThread, BrokerType
  <2> DEFINE x == [kit[k] EXCEPT !.told = @ \/ kit[k].life = "run"]
  <2>2. kit' = [kit EXCEPT ![k] = x]
    BY <1>1, <2>1 DEF EndThread, KitType
  <2>3. x \in KitType /\ x.life = kit[k].life /\ x.conn = kit[k].conn
    BY <1>1, <2>1 DEF KitType
  <2> HIDE DEF x
  <2> QED BY <1>1, <2>1, <2>2, <2>3 DEF NoNewKit, NewKit
<1>4. Types'
  BY <1>1, <1>2, <1>3, NewBrokerType DEF Inv, Types
<1> QED BY <1>2, <1>3, <1>4, NewBrokerType, OneBrokerMoves
-----------------------------------------------------------------------------
(* The end of the server.                                                     *)

(* The server goes on to the next phase of its end. *)
LEMMA PhaseKeeps ==
  ASSUME Inv, RequestShutdown \/ StopWaiting
  PROVE  Inv'
<1>1. UNCHANGED <<pool, kit, broker, docs>> /\ phase # "end" /\ phase' # "end"
  BY DEF RequestShutdown, StopWaiting
<1>2. Registered'
  BY <1>1 DEF Inv, Registered, ThreadRuns, MayWork
<1> QED BY <1>1, <1>2 DEF Inv, Types, KitsAreHeld, HasKit, NewKit

(* The server joins a broker's thread. *)
LEMMA JoinThreadKeeps ==
  ASSUME Inv, NEW d \in Doc, JoinThread(d)
  PROVE  Inv'
<1> DEFINE b == docs[d]
           r == [broker[b] EXCEPT !.stop = TRUE]
<1>1. broker \in [Broker -> BrokerType] /\ b \in Broker /\ ThreadRuns(b)
  BY DEF Inv, Types, JoinThread
<1>2. UNCHANGED <<pool, kit, docs, phase>> /\ broker' = [broker EXCEPT ![b] = r]
  BY DEF JoinThread
<1> HIDE DEF b
<1>3. r \in BrokerType /\ r.pc = broker[b].pc /\ r.kit = broker[b].kit /\ r.doc = broker[b].doc
  BY <1>1 DEF BrokerType
<1>4. broker[b].kit # NoKit <=> HasKit(b)
  BY <1>1 DEF Inv, KitsAreHeld
<1> HIDE DEF r
<1>5. Types' /\ NoNewKit
  BY <1>1, <1>2, <1>3 DEF Inv, Types, NoNewKit, NewKit
<1> QED BY <1>1, <1>2, <1>3, <1>4, <1>5, OneBrokerMoves DEF HasKit

(* Once all threads are joined, no broker works.                              *)
LEMMA EndServerKeeps ==
  ASSUME Inv, EndServer
  PROVE  Inv'
<1>1. kit \in [Kit -> KitType]
  BY DEF Inv, Types
<1>2. \A k \in Kit : kit'[k] \in KitType /\ (NewKit(k)' => NewKit(k))
  BY <1>1 DEF EndServer, KitType, NewKit
<1>3. kit' \in [Kit -> KitType]
  BY <1>2 DEF EndServer
<1>4. pool' \in PoolType /\ pool'.spare = {}
  BY NoForKitType DEF EndServer, PoolType
<1>5. Types'
  BY <1>3, <1>4 DEF EndServer, Inv, Types
<1>6. Registered'
  <2>1. \A b \in Broker : ~ThreadRuns(b)
    <3> SUFFICES ASSUME NEW b \in Broker, ThreadRuns(b)
                 PROVE  FALSE
      OBVIOUS
    <3>1. docs[broker[b].doc] = b /\ broker[b].doc \in Doc
      BY DEF Inv, Registered, Types, BrokerType
    <3> QED BY <3>1, ServerAssumption DEF EndServer
  <2> QED BY <2>1 DEF EndServer, Registered, ThreadRuns, MayWork
<1>7. KitsAreHeld'
  BY <1>2, <1>4 DEF EndServer, Inv, KitsAreHeld, HasKit
<1> QED BY <1>5, <1>6, <1>7 DEF Inv
-----------------------------------------------------------------------------
(* Every step keeps the invariant. *)
LEMMA Step == Inv /\ [Next]_vars => Inv'
<1> SUFFICES ASSUME Inv, [Next]_vars
             PROVE  Inv'
  OBVIOUS
<1>1. ASSUME NEW c \in Config, ForKitStep(c) \/ ForKitDies(c) \/ EnsureSubForKit(c)
      PROVE  Inv'
  BY <1>1, ForKitStartsKeeps, ForkKeeps, CreateSubForKitKeeps, ForKitDiesKeeps, EnsureSubForKitKeeps DEF ForKitStep
<1>2. ASSUME NEW k \in Kit, KitStep(k) \/ KitDies(k)
      PROVE  Inv'
  BY <1>2, KitConnectsKeeps, KitEndsKeeps, PrisonerDisconnectsKeeps DEF KitStep
<1>3. ASSUME NEW b \in Broker, BrokerStep(b) \/ Edit(b) \/ Unload(b)
      PROVE  Inv'
  BY <1>3, BrokerAloneKeeps, GetNewChildKeeps, WaitTimesOutKeeps, TakeSocketKeeps, EndThreadKeeps DEF BrokerStep
<1>4. ASSUME NEW d \in Doc, NEW b \in Broker, Open(d, b)
      PROVE  Inv'
  BY <1>4, OpenKeeps
<1>5. CASE WakeupHook \/ CleanupDocBrokers \/ RequestTerminateSpareKits
  BY <1>5, RestoreForKitKeeps, PrespawnChildrenKeeps, CleanupDocBrokersKeeps, TerminateSparesKeeps DEF WakeupHook
<1>6. CASE MainStep \/ RequestShutdown
  BY <1>6, PhaseKeeps, JoinThreadKeeps, EndServerKeeps DEF MainStep
<1>7. CASE UNCHANGED vars
  <2>1. Types' /\ NoNewKit
    BY <1>7 DEF vars, Inv, Types, NoNewKit, NewKit
  <2> QED BY <1>7, <2>1, BrokersAreKept DEF vars
<1> QED BY <1>1, <1>2, <1>3, <1>4, <1>5, <1>6, <1>7 DEF Next

(* The brokers, Kits and registrations are always as Inv says: what the       *)
(* server keeps whatever dies, is late or gives up.                           *)
THEOREM ServerInvariant == Spec => []Inv
<1>1. Init => Inv
  BY Initially
<1>2. Inv /\ [Next]_vars => Inv'
  BY Step
<1> QED BY <1>1, <1>2, PTL DEF Spec

(* A document is never served by two threads.                                 *)
THEOREM OneThreadServes == Spec => []OneBrokerPerDoc
<1>1. Inv => OneBrokerPerDoc
  BY DEF Inv, Registered, OneBrokerPerDoc
<1> QED BY <1>1, ServerInvariant, PTL

(* A Kit is a spare, or one broker has it, or nobody has.                     *)
THEOREM OneBrokerHasAKit == Spec => []NoKitIsShared
<1>1. ASSUME Inv, NEW k \in Kit
      PROVE  Cardinality({b \in Broker : broker[b].kit = k}) + (IF k \in pool.spare THEN 1 ELSE 0) <= 1
  <2> DEFINE S == {b \in Broker : broker[b].kit = k}
  <2>1. k # NoKit
    BY ServerAssumption
  <2>2. CASE S = {}
    <3>1. Cardinality(S) = 0
      BY <2>2, FS_EmptySet
    <3> QED BY <3>1
  <2>3. CASE S # {}
    <3>1. PICK b \in Broker : broker[b].kit = k
      BY <2>3
    <3>2. S = {b}
      BY <1>1, <2>1, <3>1 DEF Inv, KitsAreHeld
    <3>3. k \notin pool.spare
      BY <1>1, <3>1 DEF Inv, KitsAreHeld
    <3>4. Cardinality(S) = 1
      BY <3>2, FS_Singleton
    <3> QED BY <3>3, <3>4
  <2> QED BY <2>2, <2>3
<1>2. Inv => NoKitIsShared
  BY <1>1 DEF NoKitIsShared
<1> QED BY <1>2, ServerInvariant, PTL
=============================================================================
