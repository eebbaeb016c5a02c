------------------------------ MODULE MCSession -------------------------------
(* How sessions come in: from the page to a WebSocket that is let in, into    *)
(* the document, with its clipboards, its presentation and the lock on it,    *)
(* and the requests that load a document only to answer them. They share no   *)
(* state; a behaviour is one of one of them.                                  *)
EXTENDS Sessions, TLC

CONSTANTS s1, s2, s3, r1, b1, k1, k2

(* The page and the WebSocket of two clients, with a token each.              *)
MCKeyOf == s1 :> k1 @@ s2 :> k2

(* One document. *)
MCBrokerOf == s1 :> b1 @@ s2 :> b1

VARIABLES
  part,        \* the component that runs
  conv, converts, renders,
  lockView, ctx, refresh, http, wire, store, alive, joined

Conversions == INSTANCE Conversion WITH Request <- {r1}

(* Two editors and one who may only look.                                     *)
Lock == INSTANCE WopiLock WITH
  Session <- {1, 2, 3}, Kind <- <<"edit", "view", "edit">>, Owner <- {},
  Faults <- {"unauthorized", "expire", "other", "retry", "notsent", "noanswer", "noconnect"},
  view <- lockView, request <- refresh

ASSUME
  /\ Entry!EntryAssumption /\ FrontAssumption /\ Lock!LockAssumption
  /\ Follow!FollowAssumption /\ Clips!ClipAssumption

entryVars == <<password, client, loads, kit>>
followVars == <<guest, follow, leader>>
clipVars == <<views, ownerOf, toKit, fromKit, jail, cache, files, nextId, task, request>>
convVars == <<conv, converts, renders>>
lockVars == <<lockView, ctx, refresh, http, wire, store, alive, joined>>
allVars == <<part, entryVars, convVars, frontVars, lockVars, followVars, clipVars>>

InitAll ==
  /\ part \in {"entry", "conversions", "front", "lock", "follow", "clips"}
  /\ Entry!Init /\ Conversions!Init /\ Init /\ Lock!Init /\ Follow!Init /\ Clips!Init
  /\ part # "entry" => password = "first"

EntryNext ==
  /\ part = "entry" /\ Entry!Next
  /\ UNCHANGED <<part, convVars, frontVars, lockVars, followVars, clipVars>>
ConversionsNext ==
  /\ part = "conversions" /\ Conversions!Next
  /\ UNCHANGED <<part, entryVars, frontVars, lockVars, followVars, clipVars>>
FrontNext ==
  /\ part = "front" /\ Next
  /\ UNCHANGED <<part, entryVars, convVars, lockVars, followVars, clipVars>>
LockNext ==
  /\ part = "lock" /\ Lock!Next
  /\ UNCHANGED <<part, entryVars, convVars, frontVars, followVars, clipVars>>
FollowNext ==
  /\ part = "follow" /\ Follow!Next
  /\ UNCHANGED <<part, entryVars, convVars, frontVars, lockVars, clipVars>>
ClipsNext ==
  /\ part = "clips" /\ Clips!Next
  /\ UNCHANGED <<part, entryVars, convVars, frontVars, lockVars, followVars>>

NextAll == EntryNext \/ ConversionsNext \/ FrontNext \/ LockNext \/ FollowNext \/ ClipsNext

(* The fairness of the component that runs.                                   *)
AllSessions ==
  /\ InitAll /\ [][NextAll]_allVars
  /\ WF_entryVars(part = "entry" /\ Entry!KitLoads)
  /\ WF_convVars(part = "conversions" /\ Conversions!WsdStep(r1))
  /\ WF_convVars(part = "conversions" /\ Conversions!TimeLimit(r1))
  /\ \A c \in {s1, s2} :
       /\ WF_frontVars(part = "front" /\ \E answer \in Answer : CfiWithWs(c, answer))
       /\ WF_frontVars(part = "front" /\ \E success \in BOOLEAN : AddSession(c, success))
  /\ WF_frontVars(part = "front" /\ \E success \in BOOLEAN : InstallEnds(success))
  /\ WF_frontVars(part = "front" /\ (Attach \/ NoKit))
  /\ WF_frontVars(part = "front" /\ BrokerEnds)
  /\ WF_frontVars(part = "front" /\ NeverLoaded)
  /\ WF_frontVars(part = "front" /\ CloseAll)
  /\ WF_lockVars(part = "lock" /\ Lock!RefreshLock)
  /\ WF_lockVars(part = "lock" /\ (Lock!ConnectFails \/ Lock!Connects))
  /\ WF_lockVars(part = "lock" /\ Lock!SendRequest)
  /\ WF_lockVars(part = "lock" /\ (Lock!TimesOut \/ \E end \in {"last", "malformed"} : Lock!Answered(end)))
  /\ WF_lockVars(part = "lock" /\ Lock!StorageHandles)
  /\ WF_lockVars(part = "lock" /\ Lock!PeriodPasses)
  /\ \A s \in {1, 2, 3} : WF_lockVars(part = "lock" /\ Lock!AttemptLock(s))
-----------------------------------------------------------------------------
(* Whoever asks for the document is answered (wsd/ClientSession.cpp).         *)
LoadIsAnswered == Entry!LoadIsAnswered

(* A request that loads a document ends, and so does all it has made          *)
(* (wsd/SpecialBrokers.cpp).                                                  *)
ConversionEnds == Conversions!ConversionEnds

(* Who may edit gets the lock, and it is refreshed for as long as he is there *)
(* (wsd/DocumentBroker.cpp).                                                  *)
EditorGetsLock == Lock!EditorGetsLock
RefreshGoesOn == Lock!RefreshGoesOn
=============================================================================
