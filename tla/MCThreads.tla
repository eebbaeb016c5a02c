------------------------------ MODULE MCThreads -------------------------------
(* The four places where threads of one process sleep until another one wakes *)
(* them: the pool of the Kit, the polls, the sockets of the mobile builds and *)
(* the resolver. They share no state; a behaviour is one of one of them.      *)
EXTENDS Threads, TLC

CONSTANTS
  w1, w2, w3,
  web, broker, client, kit,
  listener, app,
  a1, a2, a3, h1, h2

VARIABLES
  part,        \* the component that runs
  dns, lookups, active, exit, joining, asker, cache

(* Two sockets start in the poll of the web server; a broker takes one of     *)
(* them when it starts.                                                       *)
MCHomeOf == client :> web @@ kit :> web
MCTaken == web :> NoSocket @@ broker :> kit

Names == INSTANCE AsyncDNS WITH
  Asker <- {a1, a2, a3}, Host <- {h1, h2}, Asks <- (a1 :> h1 @@ a2 :> h1 @@ a3 :> h2)

ASSUME Polls!PollAssumption /\ Fake!FakeAssumption /\ Names!DnsAssumption

pollVars == <<poll, open, hungUp, done, tasks>>
fakeVars == <<fds, call, owner, written>>
dnsVars == <<dns, lookups, active, exit, joining, asker, cache>>
allVars == <<part, vars, pollVars, fakeVars, dnsVars>>

InitAll ==
  /\ part \in {"pool", "polls", "fake", "names"}
  /\ Init /\ Polls!Init /\ Fake!Init /\ Names!Init

PoolNext == part = "pool" /\ Next /\ UNCHANGED <<part, pollVars, fakeVars, dnsVars>>
PollsNext == part = "polls" /\ Polls!Next /\ UNCHANGED <<part, vars, fakeVars, dnsVars>>
FakeNext == part = "fake" /\ Fake!Next /\ UNCHANGED <<part, vars, pollVars, dnsVars>>
NamesNext == part = "names" /\ Names!Next /\ UNCHANGED <<part, vars, pollVars, fakeVars>>

NextAll == PoolNext \/ PollsNext \/ FakeNext \/ NamesNext

(* The fairness of the component that runs.                                   *)
AllThreads ==
  /\ InitAll /\ [][NextAll]_allVars
  /\ WF_vars(part = "pool" /\ MainFinishesOne) /\ WF_vars(part = "pool" /\ MainWakes)
  /\ WF_vars(part = "pool" /\ Joined)
  /\ \A t \in Worker : WF_vars(part = "pool" /\ WorkerStep(t))
  /\ \A p \in Poller : WF_pollVars(part = "polls" /\ Polls!ThreadStep(p))
  /\ \A t \in User : WF_fakeVars(part = "fake" /\ Fake!GoOn(t))
  /\ WF_dnsVars(part = "names" /\ Names!ThreadStep)
  /\ \A a \in {a1, a2, a3} : WF_dnsVars(part = "names" /\ Names!NotifyOne(a))
-----------------------------------------------------------------------------
(* fakeSocketConnect() returns once it was accepted (net/FakeSocket.cpp).     *)
ConnectReturns == Fake!ConnectReturns

(* A look-up is answered unless the server ends (net/NetUtil.cpp).            *)
LookupIsAnswered == Names!LookupIsAnswered
=============================================================================
