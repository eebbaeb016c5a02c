------------------------------- MODULE AsyncDNS -------------------------------
(* Look-ups of host names (net/NetUtil.cpp): a thread of its own answers the  *)
(* requests of the others in their order, from a cache of the last seconds or *)
(* by asking the resolver. asyncConnect() goes on in the callback,            *)
(* syncResolveDNS() waits for it.                                             *)
(*                                                                            *)
(* The thread holds _lock from its look at the queue until it waits or takes  *)
(* a look-up; joinThread() sets _exit without the lock.                       *)
EXTENDS Integers, Sequences

CONSTANTS
  Asker,       \* the calls of lookup(), each made once
  Host,        \* host names
  Asks         \* the host that a call asks for

DnsAssumption == Asks \in [Asker -> Host]

VARIABLES
  dns,         \* the thread: "check", "sleepy", "asleep", "resolve" or "gone"
  lookups,     \* _lookups
  active,      \* _activeLookup, as a sequence of at most one call
  exit,        \* _exit
  joining,     \* joinThread(): "no", "set" or "notified"
  asker,       \* each call: "new", "queued", "asked" or "answered"
  cache        \* _querycache: the hosts it holds, and whether they are too old

dnsVars == <<dns, lookups, active, exit, joining, asker, cache>>

Init ==
  /\ dns = "check" /\ lookups = <<>> /\ active = <<>>
  /\ exit = FALSE /\ joining = "no"
  /\ asker = [a \in Asker |-> "new"]
  /\ cache = [h \in {} |-> "young"]

LockIsFree == dns # "sleepy"
-----------------------------------------------------------------------------
(* The callers.                                                               *)

AddLookup(a) ==
  /\ asker[a] = "new" /\ LockIsFree /\ ~exit
  /\ lookups' = Append(lookups, a)
  /\ asker' = [asker EXCEPT ![a] = "queued"]
  /\ UNCHANGED <<dns, active, exit, joining, cache>>

(* Mutant: the thread is notified only of the first look-up in the queue. *)
NotifyOneIfEmpty(a) ==
  /\ asker[a] = "queued"
  /\ asker' = [asker EXCEPT ![a] = "asked"]
  /\ dns' = IF dns = "asleep" /\ Len(lookups) = 1 THEN "check" ELSE dns
  /\ UNCHANGED <<lookups, active, exit, joining, cache>>

NotifyOne(a) ==
  /\ asker[a] = "queued"
  /\ asker' = [asker EXCEPT ![a] = "asked"]
  /\ dns' = IF dns = "asleep" THEN "check" ELSE dns
  /\ UNCHANGED <<lookups, active, exit, joining, cache>>

(* stopAsyncDNS(), when the server ends.                                      *)
SetExit ==
  /\ ~exit /\ exit' = TRUE /\ joining' = "set"
  /\ UNCHANGED <<dns, lookups, active, asker, cache>>

NotifyExit ==
  /\ joining = "set" /\ joining' = "notified"
  /\ dns' = IF dns = "asleep" THEN "check" ELSE dns
  /\ UNCHANGED <<lookups, active, exit, asker, cache>>
-----------------------------------------------------------------------------
(* The thread.                                                                *)

CheckQueue ==
  /\ dns = "check"
  /\ \/ lookups = <<>> /\ ~exit /\ dns' = "sleepy" /\ UNCHANGED <<lookups, active>>
     \/ exit /\ dns' = "gone" /\ UNCHANGED <<lookups, active>>
     \/ /\ lookups # <<>> /\ ~exit
        /\ dns' = "resolve" /\ active' = <<Head(lookups)>> /\ lookups' = Tail(lookups)
  /\ UNCHANGED <<exit, joining, asker, cache>>

GoToSleep ==
  /\ dns = "sleepy" /\ dns' = "asleep"
  /\ UNCHANGED <<lookups, active, exit, joining, asker, cache>>

WakeForNoReason ==
  /\ dns = "asleep" /\ dns' = "check"
  /\ UNCHANGED <<lookups, active, exit, joining, asker, cache>>

CacheHit(h) == h \in DOMAIN cache /\ cache[h] = "young"

(* An entry that is too old goes, and with it all the others that are.        *)
AfterLookup(h) ==
  LET kept == {g \in DOMAIN cache : h \in DOMAIN cache => cache[g] = "young"}
  IN [g \in kept \cup {h} |-> IF g = h THEN "young" ELSE cache[g]]

(* resolveDNS() and the callback: asyncConnect() tries the addresses, and     *)
(* syncResolveDNS() wakes its caller.                                         *)
Resolve ==
  /\ dns = "resolve" /\ dns' = "check" /\ active' = <<>>
  /\ LET a == Head(active) h == Asks[a] IN
       /\ cache' = IF CacheHit(h) THEN cache ELSE AfterLookup(h)
       /\ asker' = [asker EXCEPT ![a] = "answered"]
  /\ UNCHANGED <<lookups, exit, joining>>

(* 20 seconds pass.                                                           *)
Age ==
  /\ \E h \in DOMAIN cache : cache[h] = "young"
  /\ cache' = [h \in DOMAIN cache |-> "old"]
  /\ UNCHANGED <<dns, lookups, active, exit, joining, asker>>
-----------------------------------------------------------------------------
ThreadStep == CheckQueue \/ GoToSleep \/ Resolve

Next ==
  \/ \E a \in Asker : AddLookup(a) \/ NotifyOne(a)
  \/ SetExit \/ NotifyExit
  \/ ThreadStep \/ WakeForNoReason
  \/ Age

(* The threads run; the resolver answers.                                     *)
Fairness == WF_dnsVars(ThreadStep) /\ \A a \in Asker : WF_dnsVars(NotifyOne(a))
FairSpec == Init /\ [][Next]_dnsVars /\ Fairness
-----------------------------------------------------------------------------
(* A look-up is answered, whenever it was queued, unless the server ends. A   *)
(* caller of syncResolveDNS() waits for it without a time-out.                *)
LookupIsAnswered ==
  \A a \in Asker : asker[a] # "new" ~> asker[a] = "answered" \/ exit
=============================================================================
