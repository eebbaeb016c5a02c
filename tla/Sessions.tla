------------------------------- MODULE Sessions -------------------------------
(* What a session may see: the way in from the page to a session (Front), the *)
(* document and its password (ClientSession), the presentation that the       *)
(* others follow (FollowMe), and the clipboards of the sessions (Clipboard).  *)
(* They share no state.                                                       *)
EXTENDS Front

CONSTANTS
  Session,                                 \* of ClientSession and Clipboard
  MaxTries, LoadMayFail,                   \* of ClientSession
  Audience, Leader, MaxSlides,             \* of FollowMe
  Broker, Request, BrokerOf, MayCopy, MaxKeys   \* of Clipboard

VARIABLES
  password, client, loads, kit,
  guest, follow, leader,
  views, ownerOf, toKit, fromKit, jail, cache, files, nextId, task, request

Entry == INSTANCE ClientSession WITH toKit <- loads
Follow == INSTANCE FollowMe WITH Session <- Audience
Clips == INSTANCE Clipboard
-----------------------------------------------------------------------------
(* Nobody is let in without the password that the document had then           *)
(* (kit/ChildSession.cpp).                                                    *)
OnlyWithPassword == Entry!OnlyWithPassword

(* Who follows a presentation sees what its leader shows                      *)
(* (wsd/ClientSession.cpp).                                                   *)
FollowersFollow == Follow!FollowersFollow

(* A client gets the clipboard whose key it has (wsd/ClientSession.cpp).      *)
OwnClipboard == Clips!OwnClipboard
=============================================================================
