-------------------------------- MODULE Services -------------------------------
(* Parts of the system beside the saving of a document, each by itself: the   *)
(* rights of a session (Rights), the admin console (Admin), the sessions in   *)
(* the Kit (ChildSession), the monitors of the remote configuration           *)
(* (RemoteConfig), its fonts (RemoteFonts), and the quarantine (Quarantine).  *)
(* They share no state.                                                       *)
EXTENDS Rights

CONSTANTS
  AdminDoc, AdminSession, Console, MaxPid, MaxCallbacks, MaxBytes, MaxStats, LateDestroy,
  Member, NoMember, MaxAltered,
  ConfigValue, XmlLists, Jsons, MaxServed, MaxSockets, ConnectMayFail,
  Font, MaxFontChanges, FontFaults,
  StoredDoc, FileSize, MaxSizeBytes, MaxAgeSecs, MaxVersions, MaxSaves, MaxTime, MaxLoads, SameSecond,
  DiskFaults

VARIABLES
  brokers, undead, pids, bytes, callbacks, documents, recvTotal, consoles, migrating, stats,
  isText, core, comments, altered, lokView, news, session, shown, told, did,
  served, eTagValue, overlay, hostList, origins, connects, pending, entries, sockets, made, dropped,
  list, version, eTag, fonts, toForKit, forKit, calm,
  now, map, disk, pid, alive, jailed, stored, saved, settled, hist

Admin == INSTANCE Admin WITH Doc <- AdminDoc, Session <- AdminSession

Views == INSTANCE ChildSession WITH
  Session <- Member, NoView <- NoMember, MaxChanges <- MaxAltered, changes <- altered

Remote == INSTANCE RemoteConfig WITH
  Value <- ConfigValue, File <- XmlLists, Json <- Jsons, MaxChanges <- MaxServed, callbacks <- connects

Fonts == INSTANCE RemoteFonts WITH
  MaxChanges <- MaxFontChanges, Faults <- FontFaults, eTagValue <- eTag

Quarantine == INSTANCE Quarantine WITH
  Doc <- StoredDoc, Size <- FileSize, Faults <- DiskFaults, files <- jailed, handled <- settled
-----------------------------------------------------------------------------
(* The overview of the admin console shows what there is                      *)
(* (wsd/AdminModel.cpp).                                                      *)
OverviewIsRight == Admin!OverviewIsRight

(* Core does what a client asks in the view of that client                    *)
(* (kit/ChildSession.cpp).                                                    *)
ActsInOwnView == Views!ActsInOwnView

(* A monitor that stays in the list is connected once (wsd/Admin.cpp).        *)
MonitorsAreServed == Remote!MonitorsAreServed

(* A quiet poll means that ForKit has the fonts that are listed               *)
(* (wsd/RemoteConfig.cpp).                                                    *)
FontsAreFed == Fonts!FontsAreFed

(* A broker that ends with a loss leaves what it had last                     *)
(* (wsd/DocumentBroker.cpp).                                                  *)
LossIsQuarantined == Quarantine!LossIsQuarantined
=============================================================================
