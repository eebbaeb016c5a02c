------------------------------ MODULE RemoteConfig -----------------------------
(* The remote configuration (wsd/RemoteConfig.cpp): a thread fetches a JSON   *)
(* file again and again and lays its lists over those of coolwsd.xml; and the *)
(* monitors, the servers that Admin (wsd/Admin.cpp) connects to because they  *)
(* are in such a list.                                                        *)
(*                                                                            *)
(* The Configuration is layered: a key has the value of the overlay, or that  *)
(* of the file. A list is a key for each of its places, and it ends with the  *)
(* first place that neither layer has; Blank is an entry that is there and    *)
(* empty. An entry that is a group of values (an alias group, a translation,  *)
(* a locked host) is one value.                                               *)
EXTENDS Integers, FiniteSets, SequencesExt

CONSTANTS
  Value,          \* what a list may contain
  File,           \* the lists of coolwsd.xml
  Json,           \* what may be served: its lists (<<>>: none), and the options
  MaxChanges,     \* how often something else is served
  MaxSockets,     \* connections that are ever made to monitors
  ConnectMayFail  \* wsRequest() may not get a socket

Section == {"groups", "hosts", "translations", "origins", "monitors"}
ConfigAssumption ==
  /\ DOMAIN File = Section /\ \A j \in Json : Section \cup {"mode", "allow", "valid"} = DOMAIN j
  /\ \A s \in Section : File[s] \in Seq(Value) /\ \A j \in Json : j[s] \in Seq(Value)
  /\ {MaxChanges, MaxSockets} \subseteq Nat /\ ConnectMayFail \in BOOLEAN

Blank == "blank"
NoTag == 0
NoSocket == 0

VARIABLES
  served,     \* the JSON of the remote server and its ETag
  eTagValue,  \* the one of the last JSON
  overlay,    \* _persistConfig
  hostList,   \* HostUtil: the WOPI hosts
  origins,    \* HostUtil: AllowedWSOriginList
  callbacks,  \* monitors in SocketPoll::_newCallbacks of Admin
  pending,    \* _pendingConnects
  entries,    \* _monitorSockets
  sockets,    \* the connections to monitors
  made,       \* how many there were
  dropped     \* monitors that were in the list and were taken out of it

configVars ==
  <<served, eTagValue, overlay, hostList, origins, callbacks, pending, entries, sockets, made, dropped>>
adminVars == <<pending, sockets, made>>

NoOverlay ==
  [groups |-> <<>>, mode |-> "none", hosts |-> <<>>, translations |-> <<>>, origins |-> <<>>,
   monitors |-> <<>>]

(* _conf: the places of the overlay before those of the file. *)
Conf(over, section) ==
  over[section] \o SubSeq(File[section], Len(over[section]) + 1, Len(File[section]))
Entries(list) ==
  LET kept[n \in 0 .. Len(list)] ==
        IF n = 0 THEN <<>>
        ELSE IF list[n] = Blank THEN kept[n - 1] ELSE Append(kept[n - 1], list[n])
  IN  kept[Len(list)]
Values(over, section) == ToSet(Entries(Conf(over, section)))
-----------------------------------------------------------------------------
(* The overlay that a JSON makes.                                             *)

(* The entries of the list, and blanks over those that the configuration has  *)
(* behind its end.                                                            *)
Override(over, section, list) ==
  IF list = <<>> THEN <<>>
  ELSE list \o [i \in 1 .. Len(Conf(over, section)) - Len(list) |-> Blank]

FetchAliasGroups(over, json) == Override(over, "groups", json.groups)
FetchMode(over, json) == IF json.groups = <<>> THEN "none" ELSE json.mode
FetchLockedHostPatterns(over, json) ==
  IF json.allow THEN Override(over, "hosts", json.hosts) ELSE <<>>
FetchLockedTranslations(over, json) == Override(over, "translations", json.translations)
FetchIndirectionEndpoint(over, json) == Override(over, "origins", json.origins)
FetchMonitors(over, json) == Override(over, "monitors", json.monitors)

NewAppConfig(over, json) ==
  [groups |-> FetchAliasGroups(over, json), mode |-> FetchMode(over, json),
   hosts |-> FetchLockedHostPatterns(over, json),
   translations |-> FetchLockedTranslations(over, json),
   origins |-> FetchIndirectionEndpoint(over, json), monitors |-> FetchMonitors(over, json)]

(* The hosts of the groups, unless the file has groups and the mode is first. *)
ParseAliases(over, old) ==
  IF File.groups # <<>> /\ over.mode \in {"none", "first"} THEN old ELSE Values(over, "groups")

(* Origins are added, and never taken away. *)
ParseAllowedWSOrigins(over, old) == old \cup Values(over, "origins")
-----------------------------------------------------------------------------
(* The monitors.                                                              *)

MonitorOrder(over) == Entries(Conf(over, "monitors"))
GetMonitorList(over) == ToSet(MonitorOrder(over))

StartMonitors(over) == callbacks' = callbacks \o MonitorOrder(over)

Connected(u) == u \in DOMAIN entries
Without(urls) == [u \in DOMAIN entries \ urls |-> entries[u]]
Closing(ids) == {IF s.id \in ids THEN [s EXCEPT !.open = FALSE] ELSE s : s \in sockets}

(* A monitor that is gone from the list: its socket is shut down and its      *)
(* entry erased; one that has no entry gets an empty one (operator[]).        *)
UpdateMonitors(old, over) ==
  LET gone == old \ GetMonitorList(over)
      served1 == {u \in gone : Connected(u) /\ entries[u] # NoSocket}
  IN  /\ entries' = [u \in (DOMAIN entries \cup gone) \ served1 |->
                       IF u \in gone THEN NoSocket ELSE entries[u]]
      /\ sockets' = Closing({entries[u] : u \in served1})
      /\ dropped' = dropped \cup gone
      /\ StartMonitors(over)

ScheduleMonitorConnect(u) == pending' = Append(pending, u)

(* pollingThread of Admin: one of the callbacks, one of the connections. *)
RunCallback ==
  /\ callbacks # <<>>
  /\ callbacks' = Tail(callbacks) /\ ScheduleMonitorConnect(Head(callbacks))
  /\ UNCHANGED <<served, eTagValue, overlay, hostList, origins, entries, sockets, made, dropped>>

ConnectToMonitorSync ==
  /\ pending # <<>> /\ pending' = Tail(pending)
  /\ LET u == Head(pending)
     IN  IF Connected(u) THEN UNCHANGED <<entries, sockets, made>>
         ELSE \E succeeds \in IF ConnectMayFail THEN BOOLEAN ELSE {TRUE} :
                /\ made < MaxSockets /\ made' = made + 1
                /\ entries' = [v \in DOMAIN entries \cup {u} |->
                                 IF v = u THEN made' ELSE entries[v]]
                /\ sockets' = IF succeeds
                              THEN sockets \cup {[uri |-> u, id |-> made', open |-> TRUE]}
                              ELSE sockets
  /\ UNCHANGED <<served, eTagValue, overlay, hostList, origins, callbacks, dropped>>

(* Mutant: the socket stays in the map. *)
DisconnectedKept(s) ==
  /\ s \in sockets /\ sockets' = sockets \ {s}
  /\ IF s.uri \in GetMonitorList(overlay)
     THEN ScheduleMonitorConnect(s.uri) ELSE UNCHANGED pending
  /\ UNCHANGED <<served, eTagValue, overlay, hostList, origins, callbacks, entries, made, dropped>>

(* MonitorSocketHandler::onDisconnect: the entry of the URI is erased, even   *)
(* when it is that of a later socket.                                         *)
Disconnected(s) ==
  /\ s \in sockets /\ sockets' = sockets \ {s}
  /\ IF s.uri \in GetMonitorList(overlay)
     THEN ScheduleMonitorConnect(s.uri) /\ entries' = Without({s.uri})
     ELSE UNCHANGED <<pending, entries>>
  /\ UNCHANGED <<served, eTagValue, overlay, hostList, origins, callbacks, made, dropped>>
-----------------------------------------------------------------------------
(* The poll (RemoteJSONPoll).                                                 *)

HandleJSON(json) ==
  /\ overlay' = NewAppConfig(overlay, json)
  /\ hostList' = ParseAliases(overlay', hostList)
  /\ origins' = ParseAllowedWSOrigins(overlay', origins)
  /\ UpdateMonitors(GetMonitorList(overlay), overlay')

(* The ETag is kept before the body is looked at: one that is not valid is    *)
(* not fetched again.                                                         *)
Fetch ==
  /\ eTagValue # served.tag /\ eTagValue' = served.tag
  /\ IF served.json.valid THEN HandleJSON(served.json)
     ELSE UNCHANGED <<overlay, hostList, origins, callbacks, entries, sockets, dropped>>
  /\ UNCHANGED <<served, pending, made>>

ServeAnother(json) ==
  /\ served.tag <= MaxChanges /\ json # served.json
  /\ served' = [tag |-> served.tag + 1, json |-> json]
  /\ UNCHANGED <<eTagValue, overlay, hostList, origins, callbacks, entries, dropped, adminVars>>

Init ==
  /\ served \in [tag : {1}, json : Json]
  /\ eTagValue = NoTag /\ overlay = NoOverlay
  /\ hostList = ParseAliases(NoOverlay, {}) /\ origins = ParseAllowedWSOrigins(NoOverlay, {})
  /\ callbacks = MonitorOrder(NoOverlay) /\ pending = <<>>
  /\ entries = [u \in {} |-> NoSocket] /\ sockets = {} /\ made = 0 /\ dropped = {}

Next ==
  \/ Fetch
  \/ \E j \in Json : ServeAnother(j)
  \/ RunCallback
  \/ ConnectToMonitorSync
  \/ \E s \in sockets : Disconnected(s)

Spec == Init /\ [][Next]_configVars
-----------------------------------------------------------------------------
TypeOK ==
  /\ eTagValue \in NoTag .. served.tag
  /\ \A s \in sockets : s.id \in 1 .. made
  /\ \A u \in DOMAIN entries : entries[u] \in NoSocket .. made

(* A monitor that has always been in the list is connected once when Admin    *)
(* has nothing left to do, however often it was disconnected and whatever was *)
(* added to or taken from the list.                                           *)
MonitorsAreServed ==
  callbacks = <<>> /\ pending = <<>> =>
    \A u \in GetMonitorList(overlay) \ dropped :
      \E s \in sockets : {x \in sockets : x.uri = u /\ x.open} = {s}

(* The same for every monitor of the list: one that was taken out and comes   *)
(* back may have an empty entry in the map, and is never connected; or two    *)
(* connections, when its first one ends only then.                            *)
EveryMonitorIsServed ==
  callbacks = <<>> /\ pending = <<>> /\ made < MaxSockets =>
    \A u \in GetMonitorList(overlay) :
      Cardinality({s \in sockets : s.uri = u /\ s.open}) = 1

(* What is in use is what is served, or what the file has when nothing is.    *)
ListsAreLatest ==
  eTagValue = served.tag /\ served.json.valid =>
    \A section \in Section :
      LET list == IF served.json[section] = <<>> THEN File[section] ELSE served.json[section]
          used == CASE section = "groups" -> hostList
                    [] section = "origins" -> origins
                    [] OTHER -> Values(overlay, section)
      IN  (section = "hosts" /\ ~served.json.allow) \/ used = ToSet(list)
=============================================================================
