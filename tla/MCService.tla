------------------------------- MODULE MCService -------------------------------
(* The parts of the system around the saving of a document, each checked by   *)
(* itself: they share no state, and a behaviour is a behaviour of one of      *)
(* them.                                                                      *)
EXTENDS Services, TLC

CONSTANTS s1, s2, d1, c1, q1, q2

VARIABLES
  part,        \* the component that runs
  script, sent, input, again, handled, later, answers

(* The requests that a client sends on one connection. *)
Sent(route, body, chunked, post) ==
  [route |-> route, body |-> body, chunked |-> chunked, post |-> post, close |-> FALSE]
Get(route) == Sent(route, <<>>, FALSE, FALSE)
Post(route) == Sent(route, <<3>>, FALSE, TRUE)
Chunked(route) == Sent(route, <<2, 1>>, TRUE, TRUE)
Routes ==
  {"root", "static", "file", "capabilities", "check", "transfer", "post", "download", "silent", "bad"}

Requests == INSTANCE Requests WITH
  WholeChunks <- TRUE, TmpFails <- FALSE,
  Script <- {<<a, b, Get("static")>> :
    a \in {Get(x) : x \in Routes} \cup {Post(x) : x \in Routes} \cup {Chunked("static"), Chunked("file")},
    b \in {Get("file"), Post("check"), [Get("file") EXCEPT !.close = TRUE], Chunked("post")}}

(* What the storage may say of the user of the session with the rights.       *)
MCInfo ==
  [access : Access, readOnlyUrl : BOOLEAN, lockedUser : BOOLEAN, owner : BOOLEAN,
   disabled : {{}, {"copy"}}]

Lists(monitors, others) ==
  [section \in {"groups", "hosts", "translations", "origins"} |-> others] @@ ("monitors" :> monitors)
Served(lists, mode, allow, valid) ==
  lists @@ [option \in {"mode", "allow", "valid"} |->
    CASE option = "mode" -> mode [] option = "allow" -> allow [] OTHER -> valid]

MCXml == Lists(<<"m1">>, <<"e1", "e2">>)
MCJson ==
  {Served(Lists(m, l), "groups", l # <<>>, TRUE) :
     m \in {<<>>, <<"m2", "m1">>, <<"m2">>}, l \in {<<>>, <<"e3">>}}
  \cup {Served(Lists(<<>>, <<>>), "first", TRUE, FALSE)}

ASSUME
  /\ Requests!RequestsAssumption
  /\ RightsAssumption
  /\ Admin!AdminAssumption
  /\ Views!SessionAssumption
  /\ Quarantine!QuarantineAssumption
  /\ Remote!ConfigAssumption
  /\ Fonts!FontAssumption

requestVars == <<script, sent, input, again, handled, later, answers>>
adminVars ==
  <<brokers, undead, pids, bytes, callbacks, documents, recvTotal, consoles, migrating, stats>>
viewVars == <<isText, core, comments, altered, lokView, news, session, shown, told, did>>
quarantineVars == <<now, map, disk, pid, alive, jailed, stored, saved, settled, hist>>
remoteVars ==
  <<served, eTagValue, overlay, hostList, origins, connects, pending, entries, sockets, made, dropped>>
fontVars == <<list, version, eTag, fonts, toForKit, forKit, calm>>
allVars == <<part, requestVars, rightsVars, adminVars, viewVars,
    quarantineVars, remoteVars, fontVars>>

(* The parts that do not run start in one way only. *)
SomeScript == <<Get("static"), Get("file"), Get("static")>>
SomeInfo ==
  [access |-> "all", readOnlyUrl |-> FALSE, lockedUser |-> FALSE, owner |-> FALSE, disabled |-> {}]

InitAll ==
  /\ part \in {"requests", "rights", "admin", "views", "quarantine", "remote", "fonts"}
  /\ Requests!Init /\ (part # "requests" => script = SomeScript)
  /\ Init /\ (part # "rights" => info = [s \in {s1} |-> SomeInfo] /\ viewFile = FALSE)
  /\ Admin!Init
  /\ Views!Init /\ (part # "views" => isText)
  /\ Quarantine!Init
  /\ Remote!Init /\ (part # "remote" => served.json.monitors = <<"m2">> /\ served.json.groups = <<>>)
  /\ Fonts!Init /\ (part # "fonts" => \A f \in Font : list.how[f] = "absent")

RequestsNext ==
  /\ part = "requests" /\ Requests!Next
  /\ UNCHANGED <<part, rightsVars, adminVars, viewVars, quarantineVars,
    remoteVars, fontVars>>
RightsNext ==
  /\ part = "rights" /\ Next
  /\ UNCHANGED <<part, requestVars, adminVars, viewVars, quarantineVars,
    remoteVars, fontVars>>
AdminNext ==
  /\ part = "admin" /\ Admin!Next
  /\ UNCHANGED <<part, requestVars, rightsVars, viewVars,
    quarantineVars, remoteVars, fontVars>>
ViewsNext ==
  /\ part = "views" /\ Views!Next
  /\ UNCHANGED <<part, requestVars, rightsVars, adminVars,
    quarantineVars, remoteVars, fontVars>>
QuarantineNext ==
  /\ part = "quarantine" /\ Quarantine!Next
  /\ UNCHANGED <<part, requestVars, rightsVars, adminVars, viewVars,
    remoteVars, fontVars>>
RemoteNext ==
  /\ part = "remote" /\ Remote!Next
  /\ UNCHANGED <<part, requestVars, rightsVars, adminVars, viewVars,
    quarantineVars, fontVars>>
FontsNext ==
  /\ part = "fonts" /\ Fonts!Next
  /\ UNCHANGED <<part, requestVars, rightsVars, adminVars, viewVars,
    quarantineVars, remoteVars>>

NextAll ==
  \/ RequestsNext
  \/ RightsNext
  \/ AdminNext
  \/ ViewsNext
  \/ QuarantineNext
  \/ RemoteNext
  \/ FontsNext
AllServices == InitAll /\ [][NextAll]_allVars
-----------------------------------------------------------------------------
(* A request is handled once, with the whole of what was sent with it         *)
(* (net/Socket.cpp).                                                          *)
RequestsAreWhole == Requests!RequestsAreWhole

(* What was received is never counted down (wsd/DocumentBroker.cpp).          *)
TotalsGrow == Admin!TotalsGrow

(* A client that is active again has been told what it missed                 *)
(* (kit/ChildSession.cpp).                                                    *)
ActiveIsCurrent == Views!ActiveIsCurrent

(* The newest version of a document stays in the quarantine                   *)
(* (wsd/QuarantineUtil.cpp).                                                  *)
NewestIsKept == Quarantine!NewestIsKept
=============================================================================
