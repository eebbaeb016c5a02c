----------------------------- MODULE SessionProofs -----------------------------
(* What a session may see, for any clients, sessions, keys and limits: nobody *)
(* gets one that the storage has not let in, nor a view of the document       *)
(* without its password; who is in the document follows its presentation; and *)
(* a link to a clipboard gives the clipboard of its session. The components   *)
(* share no state, and each has its own invariant.                            *)
(*                                                                            *)
(* Front: SessionIsVetted is not inductive, since a WebSocket that finds a    *)
(* CheckFileInfo that has passed is let in by what the station says. What is  *)
(* kept is that no station says so of a key that the storage never passed.    *)
EXTENDS Sessions, Sequences, TLAPS
-----------------------------------------------------------------------------
(* The way in: page, CheckFileInfo and WebSocket.                             *)

StationType ==
  [cfi : {"none", "active", "pass", "unauthorized", "fail"}, redirects : Nat, installs : BOOLEAN]

Types ==
  /\ waiting \in [Key -> StationType] /\ station \in [Client -> StationType]
  /\ ws \in [Client -> {"none", "open", "moving", "session", "refused", "gone"}]

StationIsRight == \A k \in Key : waiting[k].cfi = "pass" => k \in vetted

Inv == Types /\ StationIsRight /\ SessionIsVetted
-----------------------------------------------------------------------------
(* The stations.                                                              *)

(* A station that nothing was asked for. *)
LEMMA NoStationType == NoStation \in StationType /\ NoStation.cfi = "none"
BY DEF NoStation, StationType

(* A station whose presets are asked for, or known. *)
LEMMA InstallsType ==
  ASSUME NEW s \in StationType, NEW x \in BOOLEAN
  PROVE  [s EXCEPT !.installs = x] \in StationType /\ [s EXCEPT !.installs = x].cfi = s.cfi
BY DEF StationType

(* One that asks the storage. *)
LEMMA CheckFileInfoType ==
  ASSUME FrontAssumption, NEW s \in StationType
  PROVE  CheckFileInfo(s) \in StationType /\ CheckFileInfo(s).cfi = "active"
<1>1. MaxRedirects \in Nat
  BY DEF FrontAssumption
<1> QED BY <1>1 DEF CheckFileInfo, StationType

(* Only the answer "pass" makes it pass. *)
LEMMA FinishedType ==
  ASSUME NEW s \in StationType, NEW answer \in Answer, s.cfi = "active"
  PROVE  Finished(s, answer) \in StationType /\ (Finished(s, answer).cfi = "pass" => answer = "pass")
<1>1. CASE answer = "redirect"
  <2>1. CASE s.redirects > 0
    <3>1. s.redirects - 1 \in Nat
      BY <2>1 DEF StationType
    <3> QED BY <1>1, <2>1, <3>1 DEF Finished, StationType
  <2>2. CASE ~(s.redirects > 0)
    BY <1>1, <2>2 DEF Finished, StationType
  <2> QED BY <2>1, <2>2
<1>2. CASE answer # "redirect"
  BY <1>2 DEF Finished, StationType, Answer
<1> QED BY <1>1, <1>2

(* Dropping old stations makes none pass. *)
LEMMA CleanupType ==
  ASSUME Inv, NEW old \in SUBSET Key
  PROVE  LET kept == CleanupStations(old)
         IN  /\ kept \in [Key -> StationType]
             /\ \A k \in Key : kept[k].cfi = "pass" => k \in vetted
<1>1. \A k \in Key : LET s == CleanupStations(old)[k] IN s = NoStation \/ s = waiting[k]
  BY DEF CleanupStations
<1>2. \A k \in Key : waiting[k] \in StationType /\ (waiting[k].cfi = "pass" => k \in vetted)
  BY DEF Inv, Types, StationIsRight
<1>3. CleanupStations(old) = [k \in Key |-> CleanupStations(old)[k]]
  BY DEF CleanupStations
<1> QED BY <1>1, <1>2, <1>3, NoStationType
-----------------------------------------------------------------------------
(* What a WebSocket becomes.                                                  *)

(* A client that the storage has let in goes on to the broker, or is refused. *)
LEMMA TransferWithWsKeeps ==
  ASSUME Inv, NEW c \in Client, NEW s \in StationType, TransferWithWs(c, s),
         vetted \subseteq vetted', KeyOf[c] \in vetted'
  PROVE  /\ station' \in [Client -> StationType]
         /\ ws' \in [Client -> {"none", "open", "moving", "session", "refused", "gone"}]
         /\ SessionIsVetted'
<1>1. ws' = [ws EXCEPT ![c] = "moving"] \/ ws' = [ws EXCEPT ![c] = "refused"]
  BY DEF TransferWithWs, CreateClientSession, Refuse
<1>2. PICK r \in StationType : station' = [station EXCEPT ![c] = r]
  <2>1. Installs \in BOOLEAN
    BY DEF Installs
  <2> QED BY <2>1, InstallsType DEF TransferWithWs
<1> QED BY <1>1, <1>2 DEF Inv, Types, SessionIsVetted

(* Any other client is refused, or waits for the storage. *)
LEMMA NotYetLetIn ==
  ASSUME Inv, NEW c \in Client, NEW s \in StationType, NEW x \in {"open", "refused"},
         ws' = [ws EXCEPT ![c] = x], station' = [station EXCEPT ![c] = s], vetted \subseteq vetted'
  PROVE  /\ station' \in [Client -> StationType]
         /\ ws' \in [Client -> {"none", "open", "moving", "session", "refused", "gone"}]
         /\ SessionIsVetted'
BY DEF Inv, Types, SessionIsVetted

(* Where no session is made, and no station changes its mind, nothing is lost. *)
LEMMA NobodyIsLetIn ==
  ASSUME Inv, waiting' = waiting, vetted' = vetted,
         station' = station \/ \E c \in Client : station' = [station EXCEPT ![c] = NoStation],
         ws' \in [Client -> {"none", "open", "moving", "session", "refused", "gone"}],
         \A c \in Client : ws'[c] \in {"moving", "session"} => ws[c] \in {"moving", "session"}
  PROVE  Inv'
<1>1. station' \in [Client -> StationType]
  BY NoStationType DEF Inv, Types
<1> QED BY <1>1 DEF Inv, Types, StationIsRight, SessionIsVetted
-----------------------------------------------------------------------------
(* The steps.                                                                 *)

(* At first nothing is known of anybody. *)
LEMMA Initially == Init => Inv
BY NoStationType DEF Init, Inv, Types, StationIsRight, SessionIsVetted

(* The page's CheckFileInfo ends. *)
LEMMA CfiWithoutWsKeeps ==
  ASSUME Inv, NEW k \in Key, NEW answer \in Answer, CfiWithoutWs(k, answer)
  PROVE  Inv'
<1> DEFINE s == Finished(waiting[k], answer)
<1>1. /\ waiting[k] \in StationType /\ waiting[k].cfi = "active"
      /\ vetted' = vetted \cup {l \in {k} : answer = "pass"} /\ UNCHANGED <<ws, station>>
  BY DEF CfiWithoutWs, Inv, Types
<1>2. s \in StationType /\ (s.cfi = "pass" => k \in vetted')
  BY <1>1, FinishedType
<1>3. PICK r \in StationType :
        waiting' = [waiting EXCEPT ![k] = r] /\ (r.cfi = "pass" => k \in vetted')
  <2>1. CASE ~shutdown /\ s.cfi = "pass"
    <3>1. TransferWithoutWs(k, s)
      BY <2>1 DEF CfiWithoutWs
    <3>2. Installs \in BOOLEAN
      BY DEF Installs
    <3> HIDE DEF s
    <3> QED BY <1>2, <3>1, <3>2, InstallsType DEF TransferWithoutWs
  <2>2. CASE ~(~shutdown /\ s.cfi = "pass")
    <3>1. waiting' = [waiting EXCEPT ![k] = IF shutdown THEN waiting[k] ELSE s]
      BY <2>2 DEF CfiWithoutWs
    <3> HIDE DEF s
    <3> QED BY <1>1, <1>2, <3>1
  <2> QED BY <2>1, <2>2
<1> QED BY <1>1, <1>3 DEF Inv, Types, StationIsRight, SessionIsVetted

(* That of a WebSocket ends. *)
LEMMA CfiWithWsKeeps ==
  ASSUME FrontAssumption, Inv, NEW c \in Client, NEW answer \in Answer, CfiWithWs(c, answer)
  PROVE  Inv'
<1> DEFINE s == Finished(station[c], answer)
<1>1. /\ station[c] \in StationType /\ station[c].cfi = "active" /\ ws[c] = "open" /\ waiting' = waiting
      /\ vetted' = vetted \cup {k \in {KeyOf[c]} : answer = "pass"}
  BY DEF CfiWithWs, Inv, Types
<1>2. s \in StationType /\ (s.cfi = "pass" => KeyOf[c] \in vetted')
  BY <1>1, FinishedType
<1>3. /\ s.cfi = "pass" => TransferWithWs(c, s)
      /\ s.cfi = "active" => station' = [station EXCEPT ![c] = s] /\ ws' = ws
      /\ s.cfi \notin {"pass", "active"} => station' = [station EXCEPT ![c] = s] /\ ws' = [ws EXCEPT ![c] = "refused"]
  BY Zenon DEF CfiWithWs, Refuse
<1> HIDE DEF s
<1>4. /\ station' \in [Client -> StationType]
      /\ ws' \in [Client -> {"none", "open", "moving", "session", "refused", "gone"}]
      /\ SessionIsVetted'
  <2>1. CASE s.cfi = "pass"
    BY <1>1, <1>2, <1>3, <2>1, TransferWithWsKeeps
  <2>2. CASE s.cfi = "active"
    BY <1>1, <1>2, <1>3, <2>2 DEF Inv, Types, SessionIsVetted
  <2>3. CASE s.cfi \notin {"pass", "active"}
    BY <1>1, <1>2, <1>3, <2>3, NotYetLetIn
  <2> QED BY <2>1, <2>2, <2>3
<1> QED BY <1>1, <1>4 DEF Inv, Types, StationIsRight

(* A page is served. *)
LEMMA ServePageKeeps ==
  ASSUME FrontAssumption, Inv, NEW c \in Client, NEW old \in SUBSET Key, ServePage(c, old)
  PROVE  Inv'
<1> DEFINE kept == CleanupStations(old)
<1>1. KeyOf[c] \in Key /\ UNCHANGED <<ws, station, vetted>>
  BY DEF FrontAssumption, ServePage
<1>2. kept \in [Key -> StationType] /\ \A k \in Key : kept[k].cfi = "pass" => k \in vetted
  BY CleanupType
<1>3. PICK r \in StationType :
        waiting' = [kept EXCEPT ![KeyOf[c]] = r] /\ (r = kept[KeyOf[c]] \/ r.cfi = "active")
  <2>1. waiting' = [kept EXCEPT ![KeyOf[c]] = kept[KeyOf[c]]]
          \/ waiting' = [kept EXCEPT ![KeyOf[c]] = CheckFileInfo(kept[KeyOf[c]])]
    BY DEF ServePage, HandlePageRequest
  <2> HIDE DEF kept
  <2>2. kept[KeyOf[c]] \in StationType
    BY <1>1, <1>2
  <2> QED BY <2>1, <2>2, CheckFileInfoType
<1> HIDE DEF kept
<1> QED BY <1>1, <1>2, <1>3 DEF Inv, Types, StationIsRight, SessionIsVetted

(* A WebSocket comes. *)
LEMMA UpgradeToWsKeeps ==
  ASSUME FrontAssumption, Inv, NEW c \in Client, NEW old \in SUBSET Key, UpgradeToWs(c, old)
  PROVE  Inv'
<1> DEFINE kept == CleanupStations(old)
           s == kept[KeyOf[c]]
<1>1. KeyOf[c] \in Key /\ vetted' = vetted
  BY DEF FrontAssumption, UpgradeToWs
<1>2. kept \in [Key -> StationType] /\ \A k \in Key : kept[k].cfi = "pass" => k \in vetted
  BY CleanupType
<1>3. HandleRequest(c, s) /\ waiting' = [kept EXCEPT ![KeyOf[c]] = NoStation]
  BY DEF UpgradeToWs
<1> HIDE DEF kept
<1>4. s \in StationType /\ (s.cfi = "pass" => KeyOf[c] \in vetted)
  BY <1>1, <1>2
<1>5. waiting' \in [Key -> StationType] /\ StationIsRight'
  BY <1>1, <1>2, <1>3, NoStationType DEF StationIsRight
<1> HIDE DEF s
<1>6. /\ s.cfi = "pass" => TransferWithWs(c, s)
      /\ s.cfi # "pass" => \E x \in {"open", "refused"}, r \in {s, CheckFileInfo(s)} :
           ws' = [ws EXCEPT ![c] = x] /\ station' = [station EXCEPT ![c] = r]
  BY <1>3 DEF HandleRequest, Refuse
<1>7. /\ station' \in [Client -> StationType]
      /\ ws' \in [Client -> {"none", "open", "moving", "session", "refused", "gone"}]
      /\ SessionIsVetted'
  <2>1. CASE s.cfi = "pass"
    BY <1>1, <1>4, <1>6, <2>1, TransferWithWsKeeps
  <2>2. CASE s.cfi # "pass"
    BY <1>1, <1>4, <1>6, <2>2, CheckFileInfoType, NotYetLetIn
  <2> QED BY <2>1, <2>2
<1> QED BY <1>5, <1>7 DEF Inv, Types

(* The presets are there, or cannot be had. *)
LEMMA InstallEndsKeeps ==
  ASSUME Inv, NEW success \in BOOLEAN, InstallEnds(success)
  PROVE  Inv'
<1>1. /\ \A c \in Client : station'[c] \in StationType
      /\ \A k \in Key : waiting'[k] \in StationType /\ waiting'[k].cfi = waiting[k].cfi
  BY InstallsType DEF Inv, Types, InstallEnds
<1>2. /\ station' = [c \in Client |-> station'[c]] /\ waiting' = [k \in Key |-> waiting'[k]]
      /\ ws' = [c \in Client |-> ws'[c]] /\ \A c \in Client : ws'[c] \in {ws[c], "refused"}
      /\ vetted' = vetted
  BY DEF InstallEnds
<1>3. Types'
  BY <1>1, <1>2 DEF Inv, Types
<1> QED BY <1>1, <1>2, <1>3 DEF Inv, StationIsRight, SessionIsVetted

(* The client's own steps, and the broker's. *)
LEMMA OthersKeep ==
  ASSUME Inv,
         \/ \E c \in Client : \/ UpgradeRefused(c) \/ ClientLeaves(c)
                              \/ \E success \in BOOLEAN : AddSession(c, success)
         \/ Attach \/ NoKit \/ Unload \/ BrokerEnds \/ NeverLoaded \/ Shutdown \/ CloseAll
  PROVE  Inv'
<1>1. ASSUME NEW c \in Client, UpgradeRefused(c) \/ ClientLeaves(c)
      PROVE  Inv'
  BY <1>1, NobodyIsLetIn DEF UpgradeRefused, Refuse, ClientLeaves, Inv, Types
<1>2. ASSUME NEW c \in Client, NEW success \in BOOLEAN, AddSession(c, success)
      PROVE  Inv'
  BY <1>2, NobodyIsLetIn DEF AddSession, Inv, Types
<1>3. CASE Attach \/ Unload \/ NeverLoaded \/ Shutdown
  BY <1>3 DEF Attach, Unload, NeverLoaded, Shutdown, Inv, Types, StationIsRight, SessionIsVetted
<1>4. CASE NoKit \/ BrokerEnds \/ CloseAll
  BY <1>4, NobodyIsLetIn DEF NoKit, BrokerEnds, CloseAll, Rejected, Inv, Types
<1> QED BY <1>1, <1>2, <1>3, <1>4

(* Every step keeps the invariant. *)
LEMMA Step == FrontAssumption /\ Inv /\ [Next]_frontVars => Inv'
<1> SUFFICES ASSUME FrontAssumption, Inv, [Next]_frontVars
             PROVE  Inv'
  OBVIOUS
<1>1. CASE CfiEnds
  BY <1>1, CfiWithoutWsKeeps, CfiWithWsKeeps DEF CfiEnds
<1>2. CASE UNCHANGED frontVars
  BY <1>2 DEF frontVars, Inv, Types, StationIsRight, SessionIsVetted
<1> QED BY <1>1, <1>2, ServePageKeeps, UpgradeToWsKeeps, InstallEndsKeeps, OthersKeep DEF Next

(* A client has a session, or is on its way to one, only if the storage has   *)
(* let it in (RequestVettingStation::handleRequest, checkFileInfo).           *)
THEOREM OnlyTheVetted == FrontAssumption => (Spec => []SessionIsVetted)
<1> SUFFICES ASSUME FrontAssumption
             PROVE  Spec => []SessionIsVetted
  OBVIOUS
<1>1. Init => Inv
  BY Initially
<1>2. Inv /\ [Next]_frontVars => Inv'
  BY Step
<1>3. Inv => SessionIsVetted
  BY DEF Inv
<1> QED BY <1>1, <1>2, <1>3, PTL DEF Spec
-----------------------------------------------------------------------------
(* The password of the document.                                              *)

Passwords == Entry!Password \cup {Entry!NoPassword}

ClientType ==
  [state : {"loading", "live", "gone"}, asked : BOOLEAN, tries : Int, waiting : BOOLEAN,
   password : Passwords, view : BOOLEAN, gave : Passwords, needed : Passwords]

EntryTypes ==
  /\ client \in [Session -> ClientType] /\ password \in Passwords
  /\ kit \in [state : {"empty", "loaded", "gone"}, protected : BOOLEAN, password : Passwords]
  /\ loads \in Seq([from : Session, password : Passwords])

(* The Kit knows the password of the document that it has loaded, also after  *)
(* a user has changed it.                                                     *)
PasswordIsKnown ==
  kit.state = "loaded" =>
    /\ kit.protected <=> password # Entry!NoPassword
    /\ kit.protected => kit.password = password

HasGiven(c) == c.view /\ c.needed # Entry!NoPassword => c.gave = c.needed

EntryInv ==
  EntryTypes /\ PasswordIsKnown /\ \A s \in Session : HasGiven(client[s])

(* Before anybody has asked. *)
LEMMA EntryInitially == Entry!Init => EntryInv
BY DEF Entry!Init, Entry!NewClient, Entry!NoPassword, Entry!Password, EntryInv, EntryTypes,
       ClientType, Passwords, PasswordIsKnown, HasGiven

(* A session alone changes, and has given what was needed. *)
LEMMA OneClient ==
  ASSUME EntryInv, NEW s \in Session, NEW c \in ClientType, HasGiven(c),
         client' = [client EXCEPT ![s] = c]
  PROVE  client' \in [Session -> ClientType] /\ \A u \in Session : HasGiven(client'[u])
BY DEF EntryInv, EntryTypes

(* A client asks for the document. *)
LEMMA RequestsKeeps ==
  ASSUME EntryInv, NEW s \in Session, NEW given \in Passwords, Entry!Requests(s, given)
  PROVE  EntryInv'
<1>1. client[s] \in ClientType /\ HasGiven(client[s]) /\ client \in [Session -> ClientType]
  BY DEF EntryInv, EntryTypes
<1>2. PICK p \in Passwords :
        /\ client' = [client EXCEPT ![s] = [client[s] EXCEPT
                        !.asked = TRUE, !.tries = client[s].tries + 1, !.waiting = TRUE, !.password = p]]
        /\ loads' = Append(loads, [from |-> s, password |-> p])
        /\ UNCHANGED <<password, kit>>
  <2>1. Entry!ParseDocOptions(s, given) \in Passwords
    BY <1>1 DEF Entry!ParseDocOptions, ClientType
  <2>2. /\ client' = [client EXCEPT ![s] = [client[s] EXCEPT
                        !.asked = TRUE, !.tries = client[s].tries + 1, !.waiting = TRUE,
                        !.password = Entry!ParseDocOptions(s, given)]]
        /\ loads' = Append(loads, [from |-> s, password |-> Entry!ParseDocOptions(s, given)])
        /\ UNCHANGED <<password, kit>>
    BY <1>1 DEF Entry!Requests
  <2> QED BY <2>1, <2>2
<1> DEFINE c == [client[s] EXCEPT !.asked = TRUE, !.tries = client[s].tries + 1,
                                  !.waiting = TRUE, !.password = p]
<1>3. client' = [client EXCEPT ![s] = c]
  BY <1>2
<1>4. c \in ClientType /\ HasGiven(c)
  <2>1. client[s].tries + 1 \in Int
    BY <1>1 DEF ClientType
  <2>2. c \in ClientType
    BY <1>1, <2>1 DEF ClientType
  <2>3. c.view = client[s].view /\ c.needed = client[s].needed /\ c.gave = client[s].gave
    BY <1>1 DEF ClientType
  <2> QED BY <1>1, <2>2, <2>3 DEF HasGiven
<1> HIDE DEF c
<1>5. loads' \in Seq([from : Session, password : Passwords])
  <2>1. [from |-> s, password |-> p] \in [from : Session, password : Passwords]
    OBVIOUS
  <2> QED BY <1>2, <2>1 DEF EntryInv, EntryTypes
<1> QED BY <1>2, <1>3, <1>4, <1>5, OneClient DEF EntryInv, EntryTypes, PasswordIsKnown

(* A session that gets a view has given the password, if there is one. *)
LEMMA EntersKeeps ==
  ASSUME EntryInv, NEW s \in Session, NEW given \in Passwords, Entry!Enters(s, given),
         password = Entry!NoPassword \/ given = password
  PROVE  client' \in [Session -> ClientType] /\ \A u \in Session : HasGiven(client'[u])
<1> DEFINE c == [client[s] EXCEPT !.waiting = FALSE, !.view = Entry!Here(s), !.gave = given,
                   !.needed = password, !.state = IF @ = "loading" THEN "live" ELSE @]
<1>1. client[s] \in ClientType /\ client \in [Session -> ClientType] /\ password \in Passwords
  BY DEF EntryInv, EntryTypes
<1>2. client' = [client EXCEPT ![s] = c]
  BY <1>1 DEF Entry!Enters, Entry!Answered, Entry!Here, ClientType
<1>3. c \in ClientType /\ HasGiven(c)
  BY <1>1 DEF ClientType, HasGiven, Entry!Here
<1> QED BY <1>2, <1>3, OneClient

(* One that is only answered has what it had. *)
LEMMA AnsweredKeeps ==
  ASSUME EntryInv, NEW s \in Session, client' = Entry!Answered(s)
  PROVE  client' \in [Session -> ClientType] /\ \A u \in Session : HasGiven(client'[u])
<1> DEFINE c == [client[s] EXCEPT !.waiting = FALSE]
<1>1. client[s] \in ClientType /\ HasGiven(client[s])
  BY DEF EntryInv, EntryTypes
<1>2. c \in ClientType /\ HasGiven(c) /\ client' = [client EXCEPT ![s] = c]
  BY <1>1 DEF ClientType, HasGiven, Entry!Answered
<1> QED BY <1>2, OneClient

(* The Kit loads the document, or a view of it. *)
LEMMA KitLoadsKeeps ==
  ASSUME EntryInv, Entry!KitLoads
  PROVE  EntryInv'
<1> DEFINE s == Head(loads).from
           given == Head(loads).password
<1>1. /\ loads # <<>> /\ loads' = Tail(loads) /\ UNCHANGED password
      /\ \/ client' = Entry!Answered(s) /\ UNCHANGED kit
         \/ Entry!FirstLoad(s, given) \/ Entry!Join(s, given)
  BY DEF Entry!KitLoads, Entry!AlreadyLoaded
<1>2. /\ s \in Session /\ given \in Passwords
      /\ loads' \in Seq([from : Session, password : Passwords])
  <2>1. loads \in Seq([from : Session, password : Passwords])
    BY DEF EntryInv, EntryTypes
  <2>2. /\ Head(loads) \in [from : Session, password : Passwords]
        /\ Tail(loads) \in Seq([from : Session, password : Passwords])
    <3> DEFINE Load == [from : Session, password : Passwords]
    <3>1. loads \in Seq(Load) /\ loads # <<>>
      BY <1>1, <2>1
    <3> HIDE DEF Load
    <3>2. Head(loads) \in Load /\ Tail(loads) \in Seq(Load)
      BY <3>1
    <3> QED BY <3>2 DEF Load
  <2> QED BY <1>1, <2>2
<1> HIDE DEF s, given
<1>3. CASE client' = Entry!Answered(s) /\ UNCHANGED kit
  BY <1>1, <1>2, <1>3, AnsweredKeeps DEF EntryInv, EntryTypes, PasswordIsKnown
<1>4. CASE Entry!FirstLoad(s, given)
  <2>1. /\ kit' = [state |-> IF Entry!CoreAccepts(given) THEN "loaded" ELSE "empty",
                   protected |-> password # Entry!NoPassword, password |-> given]
        /\ IF Entry!CoreAccepts(given) THEN Entry!Enters(s, given) ELSE client' = Entry!Answered(s)
    BY <1>4 DEF Entry!FirstLoad
  <2>2. client' \in [Session -> ClientType] /\ \A u \in Session : HasGiven(client'[u])
    BY <1>2, <2>1, EntersKeeps, AnsweredKeeps DEF Entry!CoreAccepts
  <2>3. kit' \in [state : {"empty", "loaded", "gone"}, protected : BOOLEAN, password : Passwords]
    BY <1>2, <2>1
  <2>4. PasswordIsKnown'
    BY <1>1, <2>1 DEF PasswordIsKnown, Entry!CoreAccepts
  <2> QED BY <1>1, <1>2, <2>2, <2>3, <2>4 DEF EntryInv, EntryTypes
<1>5. CASE Entry!Join(s, given)
  <2>1. /\ kit.state = "loaded" /\ UNCHANGED kit
        /\ IF kit.protected /\ given # kit.password THEN client' = Entry!Answered(s)
           ELSE Entry!Enters(s, given)
    BY <1>5 DEF Entry!Join
  <2>2. client' \in [Session -> ClientType] /\ \A u \in Session : HasGiven(client'[u])
    BY <1>2, <2>1, EntersKeeps, AnsweredKeeps DEF EntryInv, EntryTypes, PasswordIsKnown
  <2> QED BY <1>1, <1>2, <2>1, <2>2 DEF EntryInv, EntryTypes, PasswordIsKnown
<1> QED BY <1>1, <1>3, <1>4, <1>5

(* The document is broken; a user changes the password; a session leaves.     *)
LEMMA OthersInKeep ==
  ASSUME EntryInv,
         \/ Entry!KitFails
         \/ \E s \in Session : Entry!Leave(s) \/ \E new \in Passwords : Entry!ResetPassword(s, new)
  PROVE  EntryInv'
<1>1. CASE Entry!KitFails
  <2>1. /\ client' = [s \in Session |-> [client[s] EXCEPT !.state = "gone", !.waiting = FALSE]]
        /\ kit' = [kit EXCEPT !.state = "gone"] /\ loads' = <<>> /\ UNCHANGED password
    BY <1>1 DEF Entry!KitFails
  <2>2. \A s \in Session : client'[s] \in ClientType /\ HasGiven(client'[s])
    BY <2>1 DEF EntryInv, EntryTypes, ClientType, HasGiven
  <2>3. client' \in [Session -> ClientType]
    BY <2>1, <2>2
  <2>4. kit' \in [state : {"empty", "loaded", "gone"}, protected : BOOLEAN, password : Passwords]
        /\ kit'.state = "gone"
    BY <2>1 DEF EntryInv, EntryTypes
  <2>5. loads' \in Seq([from : Session, password : Passwords])
    <3>1. \A S : <<>> \in Seq(S)
      OBVIOUS
    <3> QED BY <2>1, <3>1
  <2>6. EntryTypes' /\ PasswordIsKnown'
    BY <2>1, <2>3, <2>4, <2>5 DEF EntryInv, EntryTypes, PasswordIsKnown
  <2> QED BY <2>2, <2>6 DEF EntryInv
<1>2. ASSUME NEW s \in Session, Entry!Leave(s)
      PROVE  EntryInv'
  <2> DEFINE c == [client[s] EXCEPT !.state = "gone", !.view = FALSE]
  <2>1. client[s] \in ClientType /\ client \in [Session -> ClientType]
    BY DEF EntryInv, EntryTypes
  <2>2. client' = [client EXCEPT ![s] = c] /\ UNCHANGED <<password, loads, kit>>
    BY <1>2, <2>1 DEF Entry!Leave
  <2>3. c \in ClientType /\ HasGiven(c)
    BY <2>1 DEF ClientType, HasGiven
  <2> HIDE DEF c
  <2> QED BY <2>2, <2>3, OneClient DEF EntryInv, EntryTypes, PasswordIsKnown
<1>3. ASSUME NEW s \in Session, NEW new \in Passwords, Entry!ResetPassword(s, new)
      PROVE  EntryInv'
  BY <1>3 DEF Entry!ResetPassword, EntryInv, EntryTypes, PasswordIsKnown
<1> QED BY <1>1, <1>2, <1>3

(* Whoever sees a protected document has given the password that it had when  *)
(* he came (ChildSession::loadDocument, Document::load).                      *)
THEOREM OnlyWithThePassword ==
  Entry!Init /\ [][Entry!Next]_Entry!entryVars => []OnlyWithPassword
<1>1. Entry!Init => EntryInv
  BY EntryInitially
<1>2. EntryInv /\ [Entry!Next]_Entry!entryVars => EntryInv'
  <2> SUFFICES ASSUME EntryInv, [Entry!Next]_Entry!entryVars
               PROVE  EntryInv'
    OBVIOUS
  <2>1. CASE UNCHANGED Entry!entryVars
    BY <2>1 DEF Entry!entryVars, EntryInv, EntryTypes, PasswordIsKnown
  <2>2. ASSUME NEW s \in Session, Entry!Load(s) \/ \E given \in Passwords : Entry!LoadWithPassword(s, given)
        PROVE  EntryInv'
    <3>1. Entry!NoPassword \in Passwords
      BY DEF Passwords
    <3> QED BY <2>2, <3>1, RequestsKeeps DEF Entry!Load, Entry!LoadWithPassword
  <2> QED BY <2>1, <2>2, KitLoadsKeeps, OthersInKeep DEF Entry!Next, Passwords
<1>3. EntryInv => OnlyWithPassword
  BY DEF EntryInv, HasGiven, OnlyWithPassword, Entry!OnlyWithPassword
<1> QED BY <1>1, <1>2, <1>3, PTL
-----------------------------------------------------------------------------
(* The presentation that is followed.                                         *)

GuestType == [state : {"in", "coming", "gone"}, follows : BOOLEAN, at : [slide : Int, effect : Int]]

(* Whoever is in the document follows, and the broker has what a session that *)
(* comes is told; of a presentation that shows no slide yet it may have the   *)
(* last one.                                                                  *)
FollowInv ==
  /\ guest \in [Audience -> GuestType]
  /\ follow \in [on : BOOLEAN, at : [slide : Int, effect : Int]]
  /\ leader \in [slide : Int, effect : Int]
  /\ follow.on /\ leader.slide # Follow!NoSlide => follow.at = leader
  /\ \A s \in Follow!Others :
       guest[s].state = "in" /\ follow.on =>
         guest[s].follows /\ (leader.slide # Follow!NoSlide => guest[s].at = leader)

(* What the others are told. *)
LEMMA BroadcastKeeps ==
  ASSUME guest \in [Audience -> GuestType], NEW told \in [Audience -> GuestType],
         \A s \in Audience : told[s].state = guest[s].state, Follow!Broadcast(told)
  PROVE  /\ guest' \in [Audience -> GuestType]
         /\ \A s \in Follow!Others : guest'[s].state = "in" => guest[s].state = "in" /\ guest'[s] = told[s]
BY DEF Follow!Broadcast, Follow!Others

(* Every step keeps it. *)
LEMMA FollowStep ==
  ASSUME Follow!FollowAssumption, FollowInv, [Follow!Next]_Follow!followVars
  PROVE  FollowInv'
<1> USE DEF Follow!NoSlide, Follow!NoEffect, Follow!Start, Follow!Slides
<1>1. CASE Follow!NewFollowMePresentation
  <2> DEFINE told == [s \in Audience |-> [guest[s] EXCEPT !.follows = TRUE]]
  <2>1. /\ follow' = [follow EXCEPT !.on = TRUE] /\ leader' = [slide |-> -1, effect |-> -1]
        /\ Follow!Broadcast(told)
    BY <1>1 DEF Follow!NewFollowMePresentation
  <2>2. told \in [Audience -> GuestType] /\ \A s \in Audience : told[s].state = guest[s].state /\ told[s].follows
    BY DEF FollowInv, GuestType
  <2> HIDE DEF told
  <2>3. /\ guest' \in [Audience -> GuestType]
        /\ \A s \in Follow!Others : guest'[s].state = "in" => guest'[s] = told[s]
    BY <2>1, <2>2, BroadcastKeeps DEF FollowInv
  <2>4. /\ follow' \in [on : BOOLEAN, at : [slide : Int, effect : Int]]
        /\ leader' \in [slide : Int, effect : Int] /\ leader'.slide = -1
    <3>1. follow' \in [on : BOOLEAN, at : [slide : Int, effect : Int]]
      BY <2>1 DEF FollowInv
    <3>2. leader' \in [slide : Int, effect : Int] /\ leader'.slide = -1
      BY <2>1
    <3> QED BY <3>1, <3>2
  <2>5. \A s \in Follow!Others : guest'[s].state = "in" => guest'[s].follows
    BY <2>2, <2>3 DEF Follow!Others
  <2> QED BY <2>3, <2>4, <2>5 DEF FollowInv
<1>2. CASE Follow!EndPresentation
  <2> DEFINE told == [s \in Audience |-> [guest[s] EXCEPT !.follows = FALSE]]
  <2>1. follow' = [follow EXCEPT !.on = FALSE] /\ leader' = leader /\ Follow!Broadcast(told)
    BY <1>2 DEF Follow!EndPresentation
  <2>2. told \in [Audience -> GuestType] /\ \A s \in Audience : told[s].state = guest[s].state
    BY DEF FollowInv, GuestType
  <2> HIDE DEF told
  <2>3. guest' \in [Audience -> GuestType]
    BY <2>1, <2>2, BroadcastKeeps DEF FollowInv
  <2>4. follow' \in [on : BOOLEAN, at : [slide : Int, effect : Int]] /\ ~follow'.on
    BY <2>1 DEF FollowInv
  <2> QED BY <2>1, <2>3, <2>4 DEF FollowInv
<1>3. ASSUME NEW n \in Follow!Slides, Follow!DisplaySlide(n)
      PROVE  FollowInv'
  <2> DEFINE told == [s \in Audience |-> [guest[s] EXCEPT !.at = leader']]
  <2>1. /\ leader' = [slide |-> n, effect |-> -1] /\ follow.on
        /\ follow' = [follow EXCEPT !.at = leader'] /\ Follow!Broadcast(told)
    BY <1>3 DEF Follow!DisplaySlide
  <2>2. leader' \in [slide : Int, effect : Int]
    BY <2>1 DEF Follow!FollowAssumption
  <2>3. /\ told \in [Audience -> GuestType]
        /\ \A s \in Audience : /\ told[s].state = guest[s].state /\ told[s].at = leader'
                               /\ told[s].follows = guest[s].follows
    BY <2>2 DEF FollowInv, GuestType
  <2> HIDE DEF told
  <2>4. /\ guest' \in [Audience -> GuestType]
        /\ \A s \in Follow!Others : guest'[s].state = "in" => guest[s].state = "in" /\ guest'[s] = told[s]
    BY <2>1, <2>3, BroadcastKeeps DEF FollowInv
  <2> QED BY <2>1, <2>2, <2>3, <2>4 DEF FollowInv, Follow!Others
<1>4. ASSUME NEW n \in Follow!Slides, Follow!Effect(n)
      PROVE  FollowInv'
  <2> DEFINE told == [s \in Audience |-> [guest[s] EXCEPT !.at.effect = n]]
  <2>1. /\ leader' = [leader EXCEPT !.effect = n] /\ follow.on /\ leader.slide # -1
        /\ follow' = [follow EXCEPT !.at.effect = n] /\ Follow!Broadcast(told)
    BY <1>4 DEF Follow!Effect
  <2>2. /\ leader' \in [slide : Int, effect : Int] /\ leader'.slide = leader.slide /\ n \in Int
        /\ follow' \in [on : BOOLEAN, at : [slide : Int, effect : Int]]
        /\ follow'.at = [follow.at EXCEPT !.effect = n]
    BY <2>1 DEF FollowInv
  <2>3. /\ told \in [Audience -> GuestType]
        /\ \A s \in Audience : /\ told[s].state = guest[s].state /\ told[s].follows = guest[s].follows
                               /\ told[s].at = [guest[s].at EXCEPT !.effect = n]
    BY <2>2 DEF FollowInv, GuestType
  <2> HIDE DEF told
  <2>4. /\ guest' \in [Audience -> GuestType]
        /\ \A s \in Follow!Others : guest'[s].state = "in" => guest[s].state = "in" /\ guest'[s] = told[s]
    BY <2>1, <2>3, BroadcastKeeps DEF FollowInv
  <2> QED BY <2>1, <2>2, <2>3, <2>4 DEF FollowInv, Follow!Others
<1>5. ASSUME NEW s \in Audience, Follow!Comes(s) \/ Follow!Leaves(s) \/ Follow!Connects(s)
      PROVE  FollowInv'
  <2>1. follow' = follow /\ leader' = leader
    BY <1>5 DEF Follow!Comes, Follow!Leaves, Follow!Connects
  <2>2. PICK g \in GuestType :
          /\ guest' = [guest EXCEPT ![s] = g]
          /\ g.state = "in" /\ follow.on => g.follows /\ g.at = follow.at
    <3>1. guest[s] \in GuestType /\ follow \in [on : BOOLEAN, at : [slide : Int, effect : Int]]
      BY DEF FollowInv
    <3> DEFINE joined == [state |-> "in", follows |-> TRUE, at |-> follow.at]
               ready == [guest[s] EXCEPT !.state = "in"]
               left == [guest[s] EXCEPT !.state = "gone"]
               back == [state |-> "coming", follows |-> FALSE, at |-> [slide |-> -1, effect |-> -1]]
    <3>2. joined \in GuestType /\ joined.follows /\ joined.at = follow.at
      BY <3>1 DEF GuestType
    <3>3. ready \in GuestType /\ left \in GuestType /\ left.state # "in"
      BY <3>1 DEF GuestType
    <3>4. back \in GuestType /\ back.state # "in"
      BY DEF GuestType
    <3>5. \/ follow.on /\ guest' = [guest EXCEPT ![s] = joined]
          \/ ~follow.on /\ guest' = [guest EXCEPT ![s] = ready]
          \/ guest' = [guest EXCEPT ![s] = left]
          \/ guest' = [guest EXCEPT ![s] = back]
      <4>1. CASE Follow!Comes(s) /\ follow.on
        BY <4>1 DEF Follow!Comes
      <4>2. CASE Follow!Comes(s) /\ ~follow.on
        BY <4>2 DEF Follow!Comes
      <4>3. CASE Follow!Leaves(s)
        BY <4>3 DEF Follow!Leaves
      <4>4. CASE Follow!Connects(s)
        BY <4>4 DEF Follow!Connects
      <4> QED BY <1>5, <4>1, <4>2, <4>3, <4>4
    <3> HIDE DEF joined, ready, left, back
    <3> QED BY <3>2, <3>3, <3>4, <3>5
  <2> QED BY <2>1, <2>2 DEF FollowInv, Follow!Others
<1>6. CASE UNCHANGED Follow!followVars
  BY <1>6 DEF Follow!followVars, FollowInv
<1> QED BY <1>1, <1>2, <1>3, <1>4, <1>5, <1>6 DEF Follow!Next

(* Once a presentation shows a slide, whoever is in the document follows it   *)
(* and shows what the leader shows (ClientSession::_handleInput, and          *)
(* ClientSession::loadDocument for whoever comes in the middle of it).        *)
THEOREM FollowersSeeTheSlide ==
  Follow!FollowAssumption => (Follow!Spec => []FollowersFollow)
<1> SUFFICES ASSUME Follow!FollowAssumption
             PROVE  Follow!Spec => []FollowersFollow
  OBVIOUS
<1>1. Follow!Init => FollowInv
  BY DEF Follow!FollowAssumption, Follow!Init, Follow!Start, Follow!NoSlide, Follow!NoEffect,
         Follow!Others, FollowInv, GuestType
<1>2. FollowInv /\ [Follow!Next]_Follow!followVars => FollowInv'
  BY FollowStep
<1>3. FollowInv => FollowersFollow
  BY DEF FollowInv, FollowersFollow, Follow!FollowersFollow
<1> QED BY <1>1, <1>2, <1>3, PTL DEF Follow!Spec
-----------------------------------------------------------------------------
(* Clipboards.                                                                *)

Given(s, k) == k \in 1..Len(ownerOf) /\ ownerOf[k] = s
GivenOrNone(s, k) == k # Clips!NoKey => Given(s, k)

KeysAreGiven == ownerOf \in Seq(Session) /\ Len(ownerOf) <= MaxKeys

ViewType ==
  [state : {"live", "leaving", "closing", "gone"}, keys : Nat \X Nat, clip : Session, waiting : SUBSET Request]

(* A session knows the keys that it was given, and Core has its clipboard. *)
ViewsAreOwn ==
  /\ views \in [Session -> ViewType]
  /\ \A s \in Session :
       /\ views[s].clip = s
       /\ GivenOrNone(s, views[s].keys[1]) /\ GivenOrNone(s, views[s].keys[2])

(* Those who wait for the Kit have asked with a key of the session. *)
WaitingIsOwn ==
  \A s \in Session : \A r \in views[s].waiting :
    s \in MayCopy /\ Given(s, request[r].key) /\ request[r].state # "idle"

RequestType ==
  [state : {"idle", "moving", "waiting", "answered"}, kind : {"get", "set"}, key : Nat, got : Session \cup {Clips!Nothing}]

GotIsOwn(r) ==
  r.got # Clips!Nothing => r.key \in 1..Len(ownerOf) /\ r.got = ownerOf[r.key] /\ r.got \in MayCopy

RequestsAreOwn ==
  /\ request \in [Request -> RequestType]
  /\ \A r \in Request :
       /\ request[r].state = "idle" => request[r].got = Clips!Nothing
       /\ request[r].state # "idle" => request[r].key \in 1..Len(ownerOf)
       /\ GotIsOwn(request[r])

Name == Clips!Keys \cup {Clips!Rescue}
ToKit(s) == [cmd : {"getclipboard"}, name : Name] \cup [cmd : {"setclipboard"}, of : {s}]
              \cup [cmd : {"disconnect"}]
FromKit == [cmd : {"clipboardcontent"}, name : Name] \cup [cmd : {"error", "disconnected"}]

(* What passes between a session and the Kit is of this session. *)
ToKitIsOwn ==
  DOMAIN toKit = Session /\ toKit = [s \in Session |-> toKit[s]] /\ \A s \in Session : toKit[s] \in Seq(ToKit(s))
FromKitIsOwn == fromKit \in [Session -> Seq(FromKit)]
JailIsOwn ==
  jail = [s \in Session |-> jail[s]] /\ \A s \in Session : jail[s] \in [Name -> {Clips!Nothing, s}]

Owned == Session \cup {Clips!Nothing}
FileType == [id : Int, of : Owned]

(* A file that something refers to has an old name, and what is in it is of   *)
(* the session that it was made for. *)
FileIsOf(f) ==
  f # Clips!NoFile => /\ f.of \in Session
                      /\ f.id \in DOMAIN files /\ f.id < nextId /\ files[f.id] \in {Clips!Nothing, f.of}

FilesType == nextId \in Nat /\ files \in [DOMAIN files -> Owned]

CacheIsOwn ==
  /\ cache \in [Clips!Keys -> FileType]
  /\ \A k \in Clips!Keys :
       /\ FileIsOf(cache[k])
       /\ cache[k] # Clips!NoFile =>
            cache[k].of \in MayCopy /\ (k # Clips!NoKey => Given(cache[k].of, k))

TaskType ==
  [step : {"process", "processing", "insert", "inserting", "answer"},
   of : Session, id : Int, content : Session, file : FileType]

TaskIsOwn(b, t) ==
  t # Clips!NoTask =>
    /\ t \in TaskType /\ t.content = t.of /\ BrokerOf[t.of] = b
    /\ FileIsOf(t.file) /\ (t.file # Clips!NoFile => t.file.of = t.of)
    /\ t.step \in {"insert", "inserting"} => t.of \in MayCopy
    /\ t.step \in {"processing", "inserting"} => t.id = nextId /\ t.id \in DOMAIN files

TasksAreOwn ==
  task = [b \in Broker |-> task[b]] /\ \A b \in Broker : TaskIsOwn(b, task[b])

ClipInv ==
  /\ KeysAreGiven /\ ViewsAreOwn /\ WaitingIsOwn /\ RequestsAreOwn
  /\ ToKitIsOwn /\ FromKitIsOwn /\ JailIsOwn /\ FilesType /\ CacheIsOwn /\ TasksAreOwn

(* One document: two take names for their files at once. *)
OneDocument == \A b, c \in Broker : b = c
-----------------------------------------------------------------------------
(* A document that handles none. *)
LEMMA NoTaskType == Clips!NoTask.step = "none"
BY DEF Clips!NoTask

(* At first no keys are given. *)
LEMMA ClipInitially ==
  ASSUME Clips!ClipAssumption, Clips!Init PROVE ClipInv
<1>1. KeysAreGiven
  BY DEF Clips!ClipAssumption, Clips!Init, KeysAreGiven
<1>2. ViewsAreOwn /\ WaitingIsOwn
  <2> DEFINE v(s) == [state |-> "live", keys |-> <<0, 0>>, clip |-> s, waiting |-> {}]
  <2>1. views = [s \in Session |-> v(s)]
    BY DEF Clips!Init, Clips!NewView, Clips!NoKey
  <2>2. \A s \in Session : v(s) \in ViewType /\ v(s).clip = s /\ v(s).keys = <<0, 0>> /\ v(s).waiting = {}
    BY DEF ViewType
  <2>3. <<0, 0>>[1] = 0 /\ <<0, 0>>[2] = 0
    OBVIOUS
  <2> HIDE DEF v
  <2> QED BY <2>1, <2>2, <2>3 DEF ViewsAreOwn, WaitingIsOwn, GivenOrNone, Clips!NoKey
<1>6. RequestsAreOwn
  <2> DEFINE r0 == [state |-> "idle", kind |-> "get", key |-> 0, got |-> Clips!Nothing]
  <2>1. r0 \in RequestType
    BY DEF RequestType
  <2>2. request = [r \in Request |-> r0]
    BY DEF Clips!Init, Clips!NoKey
  <2>3. r0.state = "idle" /\ r0.got = Clips!Nothing
    OBVIOUS
  <2> HIDE DEF r0
  <2> QED BY <2>1, <2>2, <2>3 DEF RequestsAreOwn, GotIsOwn
<1>3. ToKitIsOwn /\ FromKitIsOwn /\ JailIsOwn
  BY DEF Clips!Init, ToKitIsOwn, FromKitIsOwn, JailIsOwn, Clips!EmptyJail, Name
<1>4. FilesType /\ CacheIsOwn
  BY DEF Clips!Init, FilesType, Owned, CacheIsOwn, FileType, FileIsOf, Clips!NoFile
<1>5. TasksAreOwn
  BY DEF Clips!Init, TasksAreOwn, TaskIsOwn
<1> QED BY <1>1, <1>2, <1>3, <1>4, <1>5, <1>6 DEF ClipInv

(* What is left alone stays as it is. *)
LEMMA LeftAlone ==
  /\ KeysAreGiven /\ UNCHANGED ownerOf => KeysAreGiven'
  /\ ViewsAreOwn /\ UNCHANGED <<views, ownerOf>> => ViewsAreOwn'
  /\ WaitingIsOwn /\ UNCHANGED <<views, request, ownerOf>> => WaitingIsOwn'
  /\ RequestsAreOwn /\ UNCHANGED <<request, ownerOf>> => RequestsAreOwn'
  /\ ToKitIsOwn /\ UNCHANGED toKit => ToKitIsOwn'
  /\ FromKitIsOwn /\ UNCHANGED fromKit => FromKitIsOwn'
  /\ JailIsOwn /\ UNCHANGED jail => JailIsOwn'
  /\ FilesType /\ UNCHANGED <<files, nextId>> => FilesType'
  /\ CacheIsOwn /\ UNCHANGED <<cache, files, nextId, ownerOf>> => CacheIsOwn'
  /\ TasksAreOwn /\ UNCHANGED <<task, files, nextId>> => TasksAreOwn'
<1>1. KeysAreGiven /\ UNCHANGED ownerOf => KeysAreGiven'
  BY DEF KeysAreGiven
<1>2. ViewsAreOwn /\ UNCHANGED <<views, ownerOf>> => ViewsAreOwn'
  BY DEF ViewsAreOwn, GivenOrNone, Given
<1>3. WaitingIsOwn /\ UNCHANGED <<views, request, ownerOf>> => WaitingIsOwn'
  BY DEF WaitingIsOwn, Given
<1>4. RequestsAreOwn /\ UNCHANGED <<request, ownerOf>> => RequestsAreOwn'
  BY DEF RequestsAreOwn, GotIsOwn
<1>5. /\ ToKitIsOwn /\ UNCHANGED toKit => ToKitIsOwn'
      /\ FromKitIsOwn /\ UNCHANGED fromKit => FromKitIsOwn'
      /\ JailIsOwn /\ UNCHANGED jail => JailIsOwn'
      /\ FilesType /\ UNCHANGED <<files, nextId>> => FilesType'
  BY DEF ToKitIsOwn, FromKitIsOwn, JailIsOwn, FilesType
<1>6. CacheIsOwn /\ UNCHANGED <<cache, files, nextId, ownerOf>> => CacheIsOwn'
  BY DEF CacheIsOwn, FileIsOf, Given
<1>7. TasksAreOwn /\ UNCHANGED <<task, files, nextId>> => TasksAreOwn'
  BY DEF TasksAreOwn, TaskIsOwn, FileIsOf
<1> QED BY <1>1, <1>2, <1>3, <1>4, <1>5, <1>6, <1>7

(* A new key goes to its session, and those that were given stay. *)
LEMMA RotateKeeps ==
  ASSUME Clips!ClipAssumption, ClipInv, NEW s \in Session, Clips!RotateClipboardKey(s)
  PROVE  ClipInv'
<1> DEFINE n == Len(ownerOf) + 1
<1>1. /\ ownerOf \in Seq(Session) /\ ownerOf' = Append(ownerOf, s) /\ Len(ownerOf) < MaxKeys
      /\ MaxKeys \in Nat /\ UNCHANGED <<toKit, fromKit, jail, cache, files, nextId, task, request>>
  BY DEF Clips!ClipAssumption, ClipInv, KeysAreGiven, Clips!RotateClipboardKey
<1>2. /\ KeysAreGiven' /\ n \in 1..Len(ownerOf') /\ ownerOf'[n] = s /\ n \in Nat
      /\ \A k \in 1..Len(ownerOf) : k \in 1..Len(ownerOf') /\ ownerOf'[k] = ownerOf[k]
  BY <1>1 DEF KeysAreGiven, Given
<1>3. \A u, k : Given(u, k) => Given(u, k)'
  BY <1>2 DEF Given
<1> HIDE DEF n
<1>4. ViewsAreOwn' /\ \A u \in Session : views'[u].waiting = views[u].waiting
  <2>1. Clips!Rotated(s) = [views[s] EXCEPT !.keys = <<n, @[1]>>] /\ views' = [views EXCEPT ![s] = Clips!Rotated(s)]
    BY DEF Clips!RotateClipboardKey, Clips!Rotated, n
  <2>2. views[s] \in ViewType /\ views[s].clip = s /\ views[s].keys \in Nat \X Nat
    BY DEF ClipInv, ViewsAreOwn, ViewType
  <2> DEFINE new == <<n, views[s].keys[1]>>
  <2>3. new \in Nat \X Nat /\ new[1] = n /\ new[2] = views[s].keys[1]
    BY <1>2, <2>2
  <2>4. ASSUME NEW k \in {new[1], new[2]} PROVE GivenOrNone(s, k)'
    <3>1. new[1] = n /\ new[2] = views[s].keys[1] /\ GivenOrNone(s, views[s].keys[1])
      BY <2>3 DEF ClipInv, ViewsAreOwn
    <3>2. CASE k = n
      BY <1>2, <3>2 DEF GivenOrNone, Given
    <3>3. CASE k = views[s].keys[1]
      BY <1>3, <3>1, <3>3 DEF GivenOrNone
    <3> QED BY <3>1, <3>2, <3>3
  <2> HIDE DEF new
  <2>5. views' = [views EXCEPT ![s] = [views[s] EXCEPT !.keys = new]]
    BY <2>1 DEF new
  <2>6. views' \in [Session -> ViewType] /\ \A u \in Session : views'[u].waiting = views[u].waiting
    BY <2>2, <2>3, <2>5 DEF ClipInv, ViewsAreOwn, ViewType
  <2>7. ASSUME NEW u \in Session
        PROVE  /\ views'[u].clip = u
               /\ GivenOrNone(u, views[u].keys[1])' /\ GivenOrNone(u, views[u].keys[2])'
    <3>1. CASE u = s
      <4>1. views'[u] = [views[s] EXCEPT !.keys = new]
        BY <2>5, <3>1 DEF ClipInv, ViewsAreOwn
      <4>2. views'[u].keys = new /\ views'[u].clip = s
        BY <4>1, <2>2 DEF ViewType
      <4> QED BY <2>4, <3>1, <4>2 DEF GivenOrNone, Given
    <3>2. CASE u # s
      <4>1. views'[u] = views[u]
        BY <2>5, <3>2 DEF ClipInv, ViewsAreOwn
      <4> QED BY <1>3, <4>1 DEF ClipInv, ViewsAreOwn, GivenOrNone
    <3> QED BY <3>1, <3>2
  <2> QED BY <2>6, <2>7 DEF ViewsAreOwn
<1>5. WaitingIsOwn'
  BY <1>1, <1>3, <1>4 DEF ClipInv, WaitingIsOwn
<1>6. RequestsAreOwn'
  BY <1>1, <1>2 DEF ClipInv, RequestsAreOwn, GotIsOwn
<1>7. CacheIsOwn'
  BY <1>1, <1>3 DEF ClipInv, CacheIsOwn, FileIsOf
<1> QED BY <1>1, <1>2, <1>4, <1>5, <1>6, <1>7, LeftAlone DEF ClipInv

(* An answer has the clipboard that was asked for, or nothing. *)
LEMMA AnswerKeeps ==
  ASSUME ClipInv, NEW R, NEW content \in Owned, Clips!Answer(R, content), UNCHANGED ownerOf,
         \A r \in R \cap Request :
           /\ request[r].state # "idle"
           /\ content # Clips!Nothing => Given(content, request[r].key) /\ content \in MayCopy,
         \A s \in Session : views'[s].waiting \subseteq views[s].waiting
  PROVE  RequestsAreOwn' /\ WaitingIsOwn'
<1>1. /\ request \in [Request -> RequestType] /\ request' = [r \in Request |-> request'[r]]
      /\ \A r \in Request : request'[r] =
           IF r \in R THEN [request[r] EXCEPT !.state = "answered", !.got = content] ELSE request[r]
  BY DEF ClipInv, RequestsAreOwn, Clips!Answer
<1>2. ASSUME NEW r \in Request
      PROVE  /\ request'[r] \in RequestType /\ request'[r].key = request[r].key
             /\ request[r].state # "idle" => request'[r].state # "idle"
             /\ request'[r].state = "idle" => request'[r].got = Clips!Nothing
             /\ request'[r].state # "idle" => request'[r].key \in 1..Len(ownerOf)
             /\ GotIsOwn(request'[r])
  <2>1. request[r] \in RequestType
    BY <1>1
  <2>2. CASE r \in R
    <3>1. request'[r] = [request[r] EXCEPT !.state = "answered", !.got = content]
      BY <1>1, <2>2
    <3>2. /\ request'[r] \in RequestType /\ request'[r].key = request[r].key
          /\ request'[r].got = content /\ request'[r].state = "answered"
      BY <2>1, <3>1 DEF RequestType, Owned
    <3> QED BY <2>2, <3>2 DEF ClipInv, RequestsAreOwn, GotIsOwn, Given
  <2>3. CASE r \notin R
    BY <1>1, <2>1, <2>3 DEF ClipInv, RequestsAreOwn
  <2> QED BY <2>2, <2>3
<1>3. RequestsAreOwn'
  <2>1. request' \in [Request -> RequestType]
    BY <1>1, <1>2
  <2> QED BY <1>2, <2>1 DEF RequestsAreOwn, GotIsOwn
<1>4. WaitingIsOwn'
  BY <1>2 DEF ClipInv, ViewsAreOwn, ViewType, WaitingIsOwn, Given
<1> QED BY <1>3, <1>4

(* What the cache has for a key is of the session that was given the key. *)
LEMMA CachedIsOwn ==
  ASSUME Clips!ClipAssumption, ClipInv, NEW k \in 1..Len(ownerOf), cache[k] # Clips!NoFile
  PROVE  LET f == files[cache[k].id]
         IN  f \in Owned /\ (f # Clips!Nothing => Given(f, k) /\ f \in MayCopy)
<1>1. k \in Clips!Keys /\ k # Clips!NoKey
  BY DEF Clips!ClipAssumption, ClipInv, KeysAreGiven, Clips!Keys, Clips!NoKey
<1>2. cache[k].of \in MayCopy /\ Given(cache[k].of, k) /\ FileIsOf(cache[k])
  BY <1>1 DEF ClipInv, CacheIsOwn
<1> QED BY <1>2 DEF FileIsOf, Owned

(* A request comes. *)
LEMMA DispatchKeeps ==
  ASSUME Clips!ClipAssumption, ClipInv, NEW r \in Request, NEW kind \in {"get", "set"},
         NEW key \in 1..Len(ownerOf), Clips!Dispatch(r, kind, key)
  PROVE  ClipInv'
<1>1. /\ UNCHANGED <<views, ownerOf, toKit, fromKit, jail, cache, files, nextId, task>>
      /\ request[r].state = "idle" /\ request[r] \in RequestType /\ request[r].got = Clips!Nothing
      /\ request \in [Request -> RequestType]
  BY DEF Clips!Dispatch, ClipInv, RequestsAreOwn
<1>2. PICK st \in {"moving", "answered"}, g \in Owned :
        /\ request' = [request EXCEPT ![r] =
             [[request[r] EXCEPT !.state = "moving", !.kind = kind, !.key = key]
                 EXCEPT !.state = st, !.got = g]]
        /\ g # Clips!Nothing => Given(g, key) /\ g \in MayCopy
  <2> DEFINE q == [request[r] EXCEPT !.state = "moving", !.kind = kind, !.key = key]
             asked == [request EXCEPT ![r] = q]
             dropped == [asked EXCEPT ![r].state = "answered"]
  <2>1. q = [q EXCEPT !.state = "moving", !.got = Clips!Nothing] /\ Clips!Nothing \in Owned
    BY <1>1 DEF RequestType, Owned
  <2>2. [q EXCEPT !.state = "answered"] = [q EXCEPT !.state = "answered", !.got = Clips!Nothing]
    BY <1>1 DEF RequestType
  <2>3. dropped = [request EXCEPT ![r] = [q EXCEPT !.state = "answered"]]
    BY <1>1
  <2>4. \A g : [dropped EXCEPT ![r].got = g] = [request EXCEPT ![r] = [q EXCEPT !.state = "answered", !.got = g]]
    BY <1>1
  <2>5. \/ request' = asked \/ request' = dropped
        \/ cache[key] # Clips!NoFile /\ request' = [dropped EXCEPT ![r].got = files[cache[key].id]]
    BY DEF Clips!Dispatch
  <2> HIDE DEF q
  <2>6. CASE request' = asked
    BY <2>1, <2>6 DEF q
  <2>7. CASE request' = dropped
    BY <2>1, <2>2, <2>3, <2>7 DEF q
  <2>8. CASE cache[key] # Clips!NoFile /\ request' = [dropped EXCEPT ![r].got = files[cache[key].id]]
    BY <2>4, <2>8, CachedIsOwn DEF q
  <2> QED BY <2>5, <2>6, <2>7, <2>8
<1> DEFINE new == [[request[r] EXCEPT !.state = "moving", !.kind = kind, !.key = key]
                     EXCEPT !.state = st, !.got = g]
<1>3. key \in Nat
  BY DEF ClipInv, KeysAreGiven
<1>4. new \in RequestType /\ new.state = st /\ new.key = key /\ new.got = g
  BY <1>1, <1>3 DEF RequestType, Owned
<1>5. request' = [request EXCEPT ![r] = new]
  BY <1>2
<1> HIDE DEF new
<1>6. RequestsAreOwn'
  <2>1. request' \in [Request -> RequestType]
    BY <1>1, <1>4, <1>5
  <2>2. ASSUME NEW x \in Request
        PROVE  /\ request'[x].state = "idle" => request'[x].got = Clips!Nothing
               /\ request'[x].state # "idle" => request'[x].key \in 1..Len(ownerOf)
               /\ GotIsOwn(request'[x])
    <3>1. CASE x = r
      BY <1>1, <1>2, <1>4, <1>5, <3>1 DEF GotIsOwn, Given
    <3>2. CASE x # r
      BY <1>1, <1>5, <3>2 DEF ClipInv, RequestsAreOwn
    <3> QED BY <3>1, <3>2
  <2> QED BY <1>1, <2>1, <2>2 DEF RequestsAreOwn, GotIsOwn
<1>7. WaitingIsOwn'
  <2>1. \A s \in Session : \A x \in views[s].waiting : x \in Request /\ x # r
    BY <1>1 DEF ClipInv, ViewsAreOwn, ViewType, WaitingIsOwn
  <2> QED BY <1>1, <1>5, <2>1 DEF ClipInv, WaitingIsOwn, Given
<1> QED BY <1>1, <1>6, <1>7, LeftAlone DEF ClipInv

(* A queue that gets one more message. *)
LEMMA ForwardKeeps ==
  ASSUME ToKitIsOwn, NEW s \in Session, NEW m \in ToKit(s), Clips!Forward(s, m)
  PROVE  ToKitIsOwn'
<1>1. toKit[s] \in Seq(ToKit(s)) /\ Append(toKit[s], m) \in Seq(ToKit(s))
  BY DEF ToKitIsOwn
<1>2. toKit' = [toKit EXCEPT ![s] = Append(toKit[s], m)]
  BY DEF Clips!Forward
<1>3. \A u \in Session : toKit'[u] \in Seq(ToKit(u))
  BY <1>1, <1>2 DEF ToKitIsOwn
<1> QED BY <1>2, <1>3 DEF ToKitIsOwn

(* The thread of the document handles it. *)
LEMMA HandleClipboardRequestKeeps ==
  ASSUME Clips!ClipAssumption, ClipInv, NEW r \in Request, Clips!HandleClipboardRequest(r)
  PROVE  ClipInv'
<1> DEFINE key == request[r].key
           found == Clips!GetSessionFromClipboardTag(BrokerOf[ownerOf[key]], key)
<1>1. /\ UNCHANGED <<ownerOf, fromKit, jail, cache, files, nextId, task>>
      /\ request[r].state = "moving" /\ key \in 1..Len(ownerOf)
      /\ Clips!Nothing \in Owned
  BY DEF Clips!HandleClipboardRequest, ClipInv, RequestsAreOwn, Owned
<1> DEFINE answers == \/ Clips!Answer({r}, Clips!Nothing)
                      \/ cache[key] # Clips!NoFile /\ Clips!Answer({r}, files[cache[key].id])
<1>2. ASSUME answers, UNCHANGED views
      PROVE  RequestsAreOwn' /\ WaitingIsOwn' /\ ViewsAreOwn'
  <2>1. PICK content \in Owned : /\ Clips!Answer({r}, content)
                                 /\ content # Clips!Nothing => Given(content, key) /\ content \in MayCopy
    <3> HIDE DEF key
    <3> QED BY <1>1, <1>2, CachedIsOwn
  <2>2. request[r].state # "idle"
    BY <1>1
  <2>3. RequestsAreOwn' /\ WaitingIsOwn'
    BY <1>1, <1>2, <2>1, <2>2, AnswerKeeps
  <2> QED BY <1>1, <1>2, <2>3, LeftAlone DEF ClipInv
<1>3. ASSUME NEW s \in found
      PROVE  s \in Session /\ Given(s, key)
  <2>1. s \in Session /\ Clips!MatchesClipboardKeys(s, key)
    BY DEF Clips!GetSessionFromClipboardTag
  <2>2. key # Clips!NoKey /\ (views[s].keys[1] = key \/ views[s].keys[2] = key)
    <3>1. \A i \in 1..2 : i = 1 \/ i = 2
      OBVIOUS
    <3> QED BY <2>1, <3>1 DEF Clips!MatchesClipboardKeys
  <2>3. GivenOrNone(s, views[s].keys[1]) /\ GivenOrNone(s, views[s].keys[2])
    BY <2>1 DEF ClipInv, ViewsAreOwn
  <2> QED BY <2>1, <2>2, <2>3 DEF GivenOrNone
<1>4. CASE found = {}
  <2>1. Clips!HandlePersistent(r, key) /\ UNCHANGED views /\ UNCHANGED toKit
    BY <1>4 DEF Clips!HandleClipboardRequest
  <2>3. answers
    BY <2>1 DEF Clips!HandlePersistent
  <2> HIDE DEF answers
  <2>2. RequestsAreOwn' /\ WaitingIsOwn' /\ ViewsAreOwn'
    BY <1>2, <2>1, <2>3
  <2> QED BY <1>1, <2>1, <2>2, LeftAlone DEF ClipInv
<1>5. CASE found # {}
  <2>1. PICK s \in found : Clips!GetFrom(s, r) \/ Clips!SetIn(s, r)
    BY <1>5 DEF Clips!HandleClipboardRequest
  <2>2. s \in Session /\ Given(s, key)
    BY <1>3
  <2>3. CASE Clips!SetIn(s, r)
    <3>1. Clips!Forward(s, [cmd |-> "setclipboard", of |-> s])
      BY <2>2, <2>3 DEF Clips!SetIn, Given
    <3>2. [cmd |-> "setclipboard", of |-> s] \in ToKit(s)
      BY DEF ToKit
    <3>3. ToKitIsOwn'
      BY <2>2, <3>1, <3>2, ForwardKeeps DEF ClipInv
    <3>4. RequestsAreOwn' /\ WaitingIsOwn' /\ ViewsAreOwn'
      <4>1. answers /\ UNCHANGED views
        BY <2>3 DEF Clips!SetIn
      <4> HIDE DEF answers
      <4> QED BY <1>2, <4>1
    <3> QED BY <1>1, <3>3, <3>4, LeftAlone DEF ClipInv
  <2>4. CASE Clips!GetFrom(s, r)
    <3>1. CASE answers /\ UNCHANGED views /\ UNCHANGED toKit
      <4>1. RequestsAreOwn' /\ WaitingIsOwn' /\ ViewsAreOwn'
        BY <1>2, <3>1
      <4> HIDE DEF answers
      <4> QED BY <1>1, <3>1, <4>1, LeftAlone DEF ClipInv
    <3>2. CASE /\ s \in MayCopy /\ Clips!Forward(s, [cmd |-> "getclipboard", name |-> key])
               /\ views' = [views EXCEPT ![s].waiting = @ \cup {r}]
               /\ request' = [request EXCEPT ![r].state = "waiting"]
      <4>1. key \in Clips!Keys
        BY <1>1 DEF Clips!ClipAssumption, ClipInv, KeysAreGiven, Clips!Keys, Clips!NoKey
      <4>2. [cmd |-> "getclipboard", name |-> key] \in ToKit(s)
        BY <4>1 DEF ToKit, Name
      <4>3. ToKitIsOwn'
        BY <2>2, <3>2, <4>2, ForwardKeeps DEF ClipInv
      <4>4. /\ views \in [Session -> ViewType] /\ request \in [Request -> RequestType]
            /\ views[s] \in ViewType /\ request[r] \in RequestType
        BY <2>2 DEF ClipInv, ViewsAreOwn, RequestsAreOwn
      <4>5. /\ views' \in [Session -> ViewType]
            /\ \A u \in Session : /\ views'[u].keys = views[u].keys /\ views'[u].clip = views[u].clip
                                  /\ views'[u].waiting = IF u = s THEN views[u].waiting \cup {r} ELSE views[u].waiting
        BY <2>2, <3>2, <4>4 DEF ViewType
      <4>6. ViewsAreOwn'
        BY <1>1, <4>5 DEF ClipInv, ViewsAreOwn, GivenOrNone, Given
      <4>7. /\ request' \in [Request -> RequestType]
            /\ \A x \in Request : /\ request'[x].key = request[x].key /\ request'[x].got = request[x].got
                                  /\ request'[x].state = IF x = r THEN "waiting" ELSE request[x].state
        BY <3>2, <4>4 DEF RequestType
      <4>8. RequestsAreOwn'
        BY <1>1, <4>7 DEF ClipInv, RequestsAreOwn, GotIsOwn
      <4>9. WaitingIsOwn'
        <5>1. \A u \in Session : views[u].waiting \subseteq Request
          BY <4>4 DEF ViewType
        <5> QED BY <1>1, <2>2, <3>2, <4>5, <4>7, <5>1 DEF ClipInv, WaitingIsOwn, Given
      <4> QED BY <1>1, <4>3, <4>6, <4>8, <4>9, LeftAlone DEF ClipInv
    <3>3. (answers /\ UNCHANGED views /\ UNCHANGED toKit)
            \/ /\ s \in MayCopy /\ Clips!Forward(s, [cmd |-> "getclipboard", name |-> key])
               /\ views' = [views EXCEPT ![s].waiting = @ \cup {r}]
               /\ request' = [request EXCEPT ![r].state = "waiting"]
      BY <2>4, Zenon DEF Clips!GetFrom
    <3> QED BY <3>1, <3>2, <3>3, Zenon
  <2> QED BY <2>1, <2>3, <2>4
<1> QED BY <1>4, <1>5

(* The document has ended. *)
LEMMA SocketClosesKeeps ==
  ASSUME ClipInv, NEW r \in Request, Clips!SocketCloses(r)
  PROVE  ClipInv'
<1>1. /\ request[r].state = "moving" /\ Clips!Answer({r}, Clips!Nothing) /\ Clips!Nothing \in Owned
      /\ UNCHANGED <<views, ownerOf, toKit, fromKit, jail, cache, files, nextId, task>>
  BY DEF Clips!SocketCloses, Owned
<1>2. RequestsAreOwn' /\ WaitingIsOwn'
  BY <1>1, AnswerKeeps
<1> QED BY <1>1, <1>2, LeftAlone DEF ClipInv

(* A message that is taken from the Kit, or put to what it says. *)
LEMMA ReplyKeeps ==
  ASSUME FromKitIsOwn, NEW s \in Session,
         \/ \E m \in FromKit : Clips!Reply(s, m)
         \/ fromKit[s] # <<>> /\ fromKit' = [fromKit EXCEPT ![s] = Tail(@)]
         \/ fromKit' = [fromKit EXCEPT ![s] = <<>>]
  PROVE  FromKitIsOwn'
<1>1. fromKit[s] \in Seq(FromKit)
  BY DEF FromKitIsOwn
<1>2. PICK q \in Seq(FromKit) : fromKit' = [fromKit EXCEPT ![s] = q]
  <2>1. CASE \E m \in FromKit : Clips!Reply(s, m)
    <3>1. PICK m \in FromKit : Clips!Reply(s, m)
      BY <2>1
    <3>2. Append(fromKit[s], m) \in Seq(FromKit)
      BY <1>1
    <3> QED BY <3>1, <3>2 DEF Clips!Reply
  <2>2. CASE fromKit[s] # <<>> /\ fromKit' = [fromKit EXCEPT ![s] = Tail(@)]
    <3>1. Tail(fromKit[s]) \in Seq(FromKit)
      BY <1>1, <2>2
    <3> QED BY <2>2, <3>1
  <2>3. CASE fromKit' = [fromKit EXCEPT ![s] = <<>>]
    <3>1. <<>> \in Seq(FromKit)
      OBVIOUS
    <3> QED BY <2>3, <3>1
  <2> QED BY <2>1, <2>2, <2>3
<1> QED BY <1>2 DEF FromKitIsOwn

(* The Kit does what the session has asked for. *)
LEMMA KitTakesKeeps ==
  ASSUME ClipInv, NEW s \in Session, Clips!KitTakes(s)
  PROVE  ClipInv'
<1> DEFINE m == Head(toKit[s])
<1>1. /\ UNCHANGED <<ownerOf, cache, files, nextId, task, request>>
      /\ toKit[s] # <<>> /\ toKit[s] \in Seq(ToKit(s))
      /\ toKit' = [toKit EXCEPT ![s] = Tail(toKit[s])] \/ toKit' = [toKit EXCEPT ![s] = <<>>]
  BY DEF Clips!KitTakes, ClipInv, ToKitIsOwn
<1>2. m \in ToKit(s) /\ Tail(toKit[s]) \in Seq(ToKit(s)) /\ <<>> \in Seq(ToKit(s))
  BY <1>1
<1>3. ToKitIsOwn'
  <2>1. PICK q \in Seq(ToKit(s)) : toKit' = [toKit EXCEPT ![s] = q]
    BY <1>1, <1>2
  <2> QED BY <2>1 DEF ClipInv, ToKitIsOwn
<1> HIDE DEF m
<1>4. CASE m.cmd = "getclipboard" /\ Clips!GetClipboard(s, m.name)
  <2>1. m.name \in Name
    BY <1>2, <1>4 DEF ToKit
  <2>2. [cmd |-> "clipboardcontent", name |-> m.name] \in FromKit /\ [cmd |-> "error"] \in FromKit
    BY <2>1 DEF FromKit
  <2>3. FromKitIsOwn' /\ UNCHANGED views
    BY <1>4, <2>2, ReplyKeeps DEF Clips!GetClipboard, ClipInv
  <2>4. JailIsOwn'
    <3>1. CASE UNCHANGED jail
      BY <3>1, LeftAlone DEF ClipInv
    <3>2. CASE jail' = [jail EXCEPT ![s][m.name] = views[s].clip]
      <4>1. views[s].clip = s /\ jail[s] \in [Name -> {Clips!Nothing, s}]
        BY DEF ClipInv, ViewsAreOwn, JailIsOwn
      <4>2. jail' = [jail EXCEPT ![s] = [jail[s] EXCEPT ![m.name] = s]]
        BY <3>2, <4>1
      <4>3. [jail[s] EXCEPT ![m.name] = s] \in [Name -> {Clips!Nothing, s}]
        BY <4>1
      <4>4. \A u \in Session : jail'[u] \in [Name -> {Clips!Nothing, u}]
        BY <4>2, <4>3 DEF ClipInv, JailIsOwn
      <4> QED BY <4>2, <4>4 DEF ClipInv, JailIsOwn
    <3> QED BY <1>4, <3>1, <3>2 DEF Clips!GetClipboard
  <2> QED BY <1>1, <1>3, <2>3, <2>4, LeftAlone DEF ClipInv
<1>5. CASE m.cmd = "setclipboard" /\ Clips!SetClipboard(s, m.of)
  <2>1. m.of = s
    BY <1>2, <1>5 DEF ToKit
  <2>2. views' = [views EXCEPT ![s].clip = s] /\ UNCHANGED <<jail, fromKit>>
    BY <1>5, <2>1 DEF Clips!SetClipboard
  <2>3. views' = views
    BY <2>2 DEF ClipInv, ViewsAreOwn, ViewType
  <2> QED BY <1>1, <1>3, <2>2, <2>3, LeftAlone DEF ClipInv
<1>6. CASE Clips!Reply(s, [cmd |-> "disconnected"]) /\ UNCHANGED <<views, jail>>
  <2>1. [cmd |-> "disconnected"] \in FromKit
    BY DEF FromKit
  <2>2. FromKitIsOwn'
    BY <1>6, <2>1, ReplyKeeps DEF ClipInv
  <2> QED BY <1>1, <1>3, <1>6, <2>2, LeftAlone DEF ClipInv
<1> QED BY <1>4, <1>5, <1>6 DEF Clips!KitTakes, m

(* An answer of the Kit that has a clipboard names its file. *)
LEMMA TakesKeeps ==
  ASSUME ClipInv, NEW s \in Session, NEW cmd, Clips!Takes(s, cmd)
  PROVE  /\ FromKitIsOwn' /\ task[BrokerOf[s]] = Clips!NoTask
         /\ cmd = "clipboardcontent" => Head(fromKit[s]).name \in Name
<1>1. fromKit[s] # <<>> /\ fromKit[s] \in Seq(FromKit) /\ Head(fromKit[s]).cmd = cmd
  BY DEF Clips!Takes, ClipInv, FromKitIsOwn
<1>2. Head(fromKit[s]) \in FromKit
  BY <1>1
<1>3. cmd = "clipboardcontent" => Head(fromKit[s]).name \in Name
  BY <1>1, <1>2 DEF FromKit
<1>4. FromKitIsOwn'
  BY <1>1, ReplyKeeps DEF Clips!Takes, ClipInv
<1> QED BY <1>3, <1>4 DEF Clips!Takes, Clips!Idle

(* Nobody waits any more, or fewer do. *)
LEMMA FewerWait ==
  ASSUME ClipInv, NEW s \in Session, UNCHANGED ownerOf,
         views' = [views EXCEPT ![s].waiting = {}]
  PROVE  ViewsAreOwn' /\ \A u \in Session : views'[u].waiting \subseteq views[u].waiting
<1>1. /\ views' \in [Session -> ViewType]
      /\ \A u \in Session : /\ views'[u].keys = views[u].keys /\ views'[u].clip = views[u].clip
                            /\ views'[u].waiting \in {{}, views[u].waiting}
  BY DEF ClipInv, ViewsAreOwn, ViewType
<1>2. ViewsAreOwn'
  BY <1>1 DEF ClipInv, ViewsAreOwn, GivenOrNone, Given
<1> QED BY <1>1, <1>2

(* "clipboardcontent: error", and an empty one. *)
LEMMA ContentErrorKeeps ==
  ASSUME ClipInv, NEW s \in Session, Clips!ContentError(s)
  PROVE  ClipInv'
<1>1. Clips!Takes(s, "error")
      /\ UNCHANGED <<views, ownerOf, toKit, jail, cache, files, nextId, task, request>>
  BY DEF Clips!ContentError
<1> QED BY <1>1, TakesKeeps, LeftAlone DEF ClipInv

(* The Kit had nothing to copy. *)
LEMMA ContentIsEmptyKeeps ==
  ASSUME ClipInv, NEW s \in Session, Clips!ContentIsEmpty(s)
  PROVE  ClipInv'
<1>1. /\ Clips!Takes(s, "clipboardcontent") /\ Clips!Answer(views[s].waiting, Clips!Nothing)
      /\ views' = [views EXCEPT ![s].waiting = {}]
      /\ UNCHANGED <<ownerOf, toKit, jail, cache, files, nextId, task>>
      /\ Clips!Nothing \in Owned
  BY DEF Clips!ContentIsEmpty, Owned
<1>2. ViewsAreOwn' /\ \A u \in Session : views'[u].waiting \subseteq views[u].waiting
  BY <1>1, FewerWait
<1>3. \A r \in views[s].waiting \cap Request : request[r].state # "idle"
  BY DEF ClipInv, WaitingIsOwn
<1>4. RequestsAreOwn' /\ WaitingIsOwn'
  BY <1>1, <1>2, <1>3, AnswerKeeps
<1> QED BY <1>1, <1>2, <1>4, TakesKeeps, LeftAlone DEF ClipInv

(* A clipboard comes, of the session that it was asked of. *)
LEMMA ContentComesKeeps ==
  ASSUME Clips!ClipAssumption, ClipInv, NEW s \in Session, Clips!ContentComes(s)
  PROVE  ClipInv'
<1> DEFINE name == Head(fromKit[s]).name
<1>1. /\ Clips!Takes(s, "clipboardcontent") /\ jail[s][name] # Clips!Nothing
      /\ jail' = [jail EXCEPT ![s] = [jail[s] EXCEPT ![name] = Clips!Nothing]]
      /\ UNCHANGED <<views, ownerOf, toKit, cache, files, nextId, request>>
      /\ BrokerOf[s] \in Broker
  BY DEF Clips!ContentComes, Clips!ClipAssumption
<1>2. name \in Name /\ FromKitIsOwn'
  BY <1>1, TakesKeeps
<1>3. PICK step \in {"process", "insert"} :
        task' = [task EXCEPT ![BrokerOf[s]] =
          [step |-> IF step = "insert" /\ s \notin MayCopy THEN "answer" ELSE step, of |-> s,
           id |-> -1, content |-> jail[s][name], file |-> Clips!NoFile]]
  BY DEF Clips!ContentComes
<1> HIDE DEF name
<1>4. jail[s] \in [Name -> {Clips!Nothing, s}] /\ jail[s][name] = s
  BY <1>1, <1>2 DEF ClipInv, JailIsOwn
<1>5. JailIsOwn'
  <2>1. [jail[s] EXCEPT ![name] = Clips!Nothing] \in [Name -> {Clips!Nothing, s}]
    BY <1>4
  <2>2. \A u \in Session : jail'[u] \in [Name -> {Clips!Nothing, u}]
    BY <1>1, <2>1 DEF ClipInv, JailIsOwn
  <2> QED BY <1>1, <2>2 DEF ClipInv, JailIsOwn
<1>6. PICK t \in TaskType : /\ task' = [task EXCEPT ![BrokerOf[s]] = t]
                            /\ t.content = s /\ t.of = s /\ t.file = Clips!NoFile
                            /\ t.step = "insert" => s \in MayCopy
                            /\ t.step \notin {"processing", "inserting"}
  <2> DEFINE st == IF step = "insert" /\ s \notin MayCopy THEN "answer" ELSE step
             t == [step |-> st, of |-> s, id |-> -1, content |-> s, file |-> Clips!NoFile]
  <2>1. st \in {"process", "insert", "answer"} /\ (st = "insert" => s \in MayCopy)
    OBVIOUS
  <2> HIDE DEF st
  <2>2. Clips!NoFile \in FileType
    BY DEF Clips!NoFile, FileType, Owned
  <2>3. t \in TaskType
    BY <2>1, <2>2 DEF TaskType
  <2>4. task' = [task EXCEPT ![BrokerOf[s]] = t]
    BY <1>3, <1>4 DEF st
  <2> QED BY <2>1, <2>3, <2>4
<1>7. TasksAreOwn'
  <2>1. ASSUME NEW b \in Broker PROVE TaskIsOwn(b, task[b])'
    <3>1. CASE b = BrokerOf[s]
      <4>1. task'[b] = t
        BY <1>6, <3>1 DEF ClipInv, TasksAreOwn
      <4> QED BY <1>6, <3>1, <4>1 DEF TaskIsOwn, FileIsOf
    <3>2. CASE b # BrokerOf[s]
      <4>1. task'[b] = task[b]
        BY <1>6, <3>2 DEF ClipInv, TasksAreOwn
      <4> QED BY <1>1, <4>1 DEF ClipInv, TasksAreOwn, TaskIsOwn, FileIsOf
    <3> QED BY <3>1, <3>2
  <2> QED BY <1>6, <2>1 DEF ClipInv, TasksAreOwn
<1> QED BY <1>1, <1>2, <1>5, <1>7, LeftAlone DEF ClipInv

(* Where old files are kept or emptied, what refers to them is still right. *)
FilesAreKept ==
  /\ DOMAIN files' = DOMAIN files /\ nextId <= nextId' /\ FilesType'
  /\ \A i \in DOMAIN files : i < nextId => files'[i] \in {files[i], Clips!Nothing}

LEMMA StillOf ==
  ASSUME FilesAreKept, FilesType, NEW f \in FileType, FileIsOf(f)
  PROVE  FileIsOf(f)'
BY DEF FilesAreKept, FilesType, FileIsOf, FileType

LEMMA CacheIsKept ==
  ASSUME ClipInv, FilesAreKept, UNCHANGED <<cache, ownerOf>>
  PROVE  CacheIsOwn'
<1>1. \A k \in Clips!Keys : FileIsOf(cache[k])'
  BY StillOf DEF ClipInv, CacheIsOwn, FileIsOf
<1> QED BY <1>1 DEF ClipInv, CacheIsOwn, FileIsOf, Given

(* A name is read. *)
LEMMA ReadIdKeeps ==
  ASSUME OneDocument, ClipInv, NEW b \in Broker,
         NEW from \in {"process", "insert"}, NEW to \in {"processing", "inserting"},
         from = "insert" <=> to = "inserting", Clips!ReadId(b, from, to)
  PROVE  ClipInv'
<1>1. /\ task[b].step = from /\ nextId \in DOMAIN files /\ TaskIsOwn(b, task[b]) /\ nextId \in Nat
      /\ task' = [task EXCEPT ![b] = [task[b] EXCEPT !.id = nextId, !.step = to]]
      /\ UNCHANGED <<views, ownerOf, toKit, fromKit, jail, cache, files, nextId, request>>
  BY DEF Clips!ReadId, ClipInv, TasksAreOwn, FilesType
<1>2. task[b] # Clips!NoTask
  BY <1>1, NoTaskType
<1> DEFINE t == [task[b] EXCEPT !.id = nextId, !.step = to]
<1>3. /\ t \in TaskType /\ t.step = to /\ t.id = nextId /\ t.of = task[b].of
      /\ t.content = task[b].content /\ t.file = task[b].file
  <2>1. task[b] \in TaskType /\ nextId \in Int
    BY <1>1, <1>2 DEF TaskIsOwn
  <2> QED BY <2>1 DEF TaskType
<1> HIDE DEF t
<1>4. TaskIsOwn(b, t)
  BY <1>1, <1>2, <1>3 DEF TaskIsOwn
<1>5. task' = [task EXCEPT ![b] = t]
  BY <1>1 DEF t
<1>6. TasksAreOwn'
  <2>1. ASSUME NEW c \in Broker PROVE TaskIsOwn(c, task'[c])
    <3>1. task'[c] = IF c = b THEN t ELSE task[c]
      BY <1>5 DEF ClipInv, TasksAreOwn
    <3> QED BY <1>4, <3>1 DEF ClipInv, TasksAreOwn
  <2> QED BY <1>1, <1>5, <2>1 DEF ClipInv, TasksAreOwn, TaskIsOwn, FileIsOf
<1> QED BY <1>1, <1>6, LeftAlone DEF ClipInv

(* A clipboard is written to a file of a new name. *)
LEMMA ProcessKeeps ==
  ASSUME OneDocument, ClipInv, NEW b \in Broker, Clips!Process(b)
  PROVE  ClipInv'
<1>1. /\ task[b].step = "processing" /\ TaskIsOwn(b, task[b]) /\ FilesType
      /\ nextId' = task[b].id + 1 /\ files' = [files EXCEPT ![task[b].id] = task[b].content]
      /\ UNCHANGED <<views, ownerOf, toKit, fromKit, jail, cache, request>>
  BY DEF Clips!Process, ClipInv, TasksAreOwn
<1>2. /\ task[b] \in TaskType /\ task[b].content = task[b].of /\ BrokerOf[task[b].of] = b
      /\ task[b].id = nextId /\ nextId \in DOMAIN files /\ task[b].of \in Session /\ nextId \in Nat
  BY <1>1, NoTaskType DEF TaskIsOwn, TaskType, FilesType
<1>3. FilesAreKept /\ files'[nextId] = task[b].of
  BY <1>1, <1>2 DEF FilesAreKept, FilesType, Owned
<1> DEFINE step == IF task[b].of \in MayCopy THEN "insert" ELSE "answer"
           file == [id |-> nextId, of |-> task[b].of]
           t == [task[b] EXCEPT !.step = step, !.file = file]
<1>4. file \in FileType /\ file.id = nextId /\ file.of = task[b].of
  BY <1>2 DEF FileType, Owned
<1>5. step \in {"insert", "answer"} /\ (step = "insert" => task[b].of \in MayCopy)
  OBVIOUS
<1>6. task' = [task EXCEPT ![b] = t]
  BY <1>2 DEF Clips!Process
<1> HIDE DEF step, file
<1>7. /\ t \in TaskType /\ t.step = step /\ t.of = task[b].of /\ t.content = task[b].of /\ t.file = file
  BY <1>2, <1>4, <1>5 DEF TaskType
<1>9. TasksAreOwn'
  <2>1. \A c \in Broker : c = b
    BY DEF OneDocument
  <2>2. task' = [c \in Broker |-> task'[c]] /\ task'[b] = t
    BY <1>6 DEF ClipInv, TasksAreOwn
  <2> HIDE DEF t
  <2>4. /\ task'[b].file.of \in Session /\ task'[b].file.id \in DOMAIN files'
        /\ task'[b].file.id < nextId' /\ files'[task'[b].file.id] = task'[b].file.of
    BY <1>1, <1>2, <1>3, <1>4, <1>7, <2>2 DEF FilesAreKept
  <2>5. TaskIsOwn(b, task[b])'
    BY <1>2, <1>4, <1>5, <1>7, <2>2, <2>4 DEF TaskIsOwn, FileIsOf
  <2> QED BY <2>1, <2>2, <2>5 DEF TasksAreOwn
<1>10. CacheIsOwn' /\ FilesType'
  BY <1>1, <1>3, CacheIsKept DEF FilesAreKept
<1> QED BY <1>1, <1>9, <1>10, LeftAlone DEF ClipInv

(* The file is renamed, and saved for the keys of its session. *)
LEMMA InsertClipboardKeeps ==
  ASSUME OneDocument, ClipInv, NEW b \in Broker, Clips!InsertClipboard(b)
  PROVE  ClipInv'
<1> DEFINE s == task[b].of
           old == task[b].file
           content == IF old = Clips!NoFile THEN task[b].content ELSE files[old.id]
           renamed == IF old = Clips!NoFile THEN files ELSE [files EXCEPT ![old.id] = Clips!Nothing]
           file == [id |-> nextId, of |-> s]
<1>1. /\ task[b].step = "inserting" /\ TaskIsOwn(b, task[b]) /\ FilesType
      /\ UNCHANGED <<views, ownerOf, toKit, fromKit, jail, request>>
  BY DEF Clips!InsertClipboard, ClipInv, TasksAreOwn
<1>2. /\ task[b] \in TaskType /\ task[b].content = s /\ BrokerOf[s] = b /\ s \in MayCopy
      /\ task[b].id = nextId /\ nextId \in DOMAIN files /\ s \in Session /\ nextId \in Nat
      /\ FileIsOf(old) /\ (old # Clips!NoFile => old.of = s)
  BY <1>1, NoTaskType DEF TaskIsOwn, TaskType, FilesType
<1>3. /\ nextId' = nextId + 1
      /\ cache' = [k \in Clips!Keys |-> IF k \in Clips!KeysToSave(s) THEN file ELSE cache[k]]
      /\ files' = Clips!Unlinked(cache, cache', [renamed EXCEPT ![nextId] = content])
      /\ task' = [task EXCEPT ![b] = [task[b] EXCEPT !.step = "answer", !.file = file]]
  BY <1>2 DEF Clips!InsertClipboard
<1> HIDE DEF file
<1>4. file \in FileType /\ file.id = nextId /\ file.of = s
  BY <1>2 DEF FileType, Owned, file
<1>5. /\ content \in {s, Clips!Nothing} /\ content \in Owned
      /\ renamed \in [DOMAIN files -> Owned]
      /\ \A i \in DOMAIN files : renamed[i] \in {files[i], Clips!Nothing}
  <2>1. CASE old = Clips!NoFile
    BY <1>1, <1>2, <2>1 DEF FilesType, Owned
  <2>2. CASE old # Clips!NoFile
    <3>1. old.id \in DOMAIN files /\ files[old.id] \in {s, Clips!Nothing} /\ old.of = s
      BY <1>1, <1>2, <2>2 DEF FileIsOf, TaskIsOwn
    <3>2. content = files[old.id] /\ renamed = [files EXCEPT ![old.id] = Clips!Nothing]
      BY <2>2
    <3> HIDE DEF old, content, renamed
    <3> QED BY <1>1, <1>2, <3>1, <3>2 DEF FilesType, Owned
  <2> QED BY <2>1, <2>2
<1> HIDE DEF content, renamed, s
<1> DEFINE written == [renamed EXCEPT ![nextId] = content]
<1>6. /\ DOMAIN written = DOMAIN files /\ written \in [DOMAIN files -> Owned]
      /\ written[nextId] = content
      /\ \A i \in DOMAIN files : i # nextId => written[i] \in {files[i], Clips!Nothing}
  BY <1>2, <1>5
<1> HIDE DEF written
<1>7. /\ files' = [i \in DOMAIN files |-> files'[i]]
      /\ \A i \in DOMAIN files : files'[i] \in {written[i], Clips!Nothing}
  <2>1. files' = Clips!Unlinked(cache, cache', written)
    BY <1>3 DEF written
  <2> QED BY <1>6, <2>1 DEF Clips!Unlinked
<1>8. FilesAreKept /\ FilesType' /\ files'[nextId] \in {s, Clips!Nothing}
  <2>1. files' \in [DOMAIN files -> Owned]
    BY <1>6, <1>7 DEF Owned
  <2>2. DOMAIN files' = DOMAIN files
    BY <1>7
  <2>6. nextId' \in Nat /\ nextId' = nextId + 1
    BY <1>2, <1>3
  <2>3. FilesType'
    BY <2>1, <2>2, <2>6 DEF FilesType
  <2>4. \A i \in DOMAIN files : i < nextId => files'[i] \in {files[i], Clips!Nothing}
    BY <1>2, <1>6, <1>7
  <2>5. files'[nextId] \in {s, Clips!Nothing}
    BY <1>2, <1>5, <1>6, <1>7
  <2> QED BY <1>2, <2>6, <2>2, <2>3, <2>4, <2>5 DEF FilesAreKept
<1>9. /\ file.id \in DOMAIN files' /\ file.id < nextId' /\ files'[file.id] \in {Clips!Nothing, file.of}
  BY <1>2, <1>3, <1>4, <1>8 DEF FilesAreKept
<1>10. CacheIsOwn'
  <2>1. ASSUME NEW k \in Clips!Keys, k \in Clips!KeysToSave(s)
        PROVE  k # Clips!NoKey => Given(s, k)
    <3>1. GivenOrNone(s, views[s].keys[1]) /\ GivenOrNone(s, views[s].keys[2])
      BY <1>2 DEF ClipInv, ViewsAreOwn
    <3> QED BY <2>1, <3>1 DEF GivenOrNone, Clips!KeysToSave
  <2>2. ASSUME NEW k \in Clips!Keys
        PROVE  /\ cache'[k] \in FileType /\ FileIsOf(cache[k])'
               /\ cache'[k] # Clips!NoFile =>
                    cache'[k].of \in MayCopy /\ (k # Clips!NoKey => Given(cache'[k].of, k))
    <3>1. CASE k \in Clips!KeysToSave(s)
      <4>1. cache'[k] = file
        BY <1>3, <3>1
      <4>2. FileIsOf(cache[k])'
        BY <1>2, <1>4, <1>9, <4>1 DEF FileIsOf
      <4> QED BY <1>2, <1>4, <2>1, <3>1, <4>1, <4>2
    <3>2. CASE k \notin Clips!KeysToSave(s)
      <4>1. cache'[k] = cache[k]
        BY <1>3, <3>2
      <4>2. cache[k] \in FileType /\ FileIsOf(cache[k])
        BY DEF ClipInv, CacheIsOwn
      <4>3. FileIsOf(cache[k])'
        BY <1>1, <1>8, <4>1, <4>2 DEF FilesAreKept, FilesType, FileIsOf, FileType
      <4> QED BY <4>1, <4>2, <4>3 DEF ClipInv, CacheIsOwn
    <3> QED BY <3>1, <3>2
  <2>3. cache' \in [Clips!Keys -> FileType]
    BY <1>3, <2>2
  <2> QED BY <1>1, <2>2, <2>3 DEF CacheIsOwn, Given
<1>11. TasksAreOwn'
  <2> DEFINE t == [task[b] EXCEPT !.step = "answer", !.file = file]
  <2>1. \A c \in Broker : c = b
    BY DEF OneDocument
  <2>2. task' = [c \in Broker |-> task'[c]] /\ task'[b] = t
    BY <1>3 DEF ClipInv, TasksAreOwn
  <2>3. t \in TaskType /\ t.step = "answer" /\ t.of = s /\ t.content = s /\ t.file = file
    BY <1>2, <1>4 DEF TaskType, s
  <2> HIDE DEF t
  <2>4. FileIsOf(task[b].file)'
    BY <1>2, <1>4, <1>9, <2>2, <2>3 DEF FileIsOf
  <2>5. TaskIsOwn(b, task[b])'
    BY <1>2, <1>4, <2>2, <2>3, <2>4 DEF TaskIsOwn
  <2> QED BY <2>1, <2>2, <2>5 DEF TasksAreOwn
<1> QED BY <1>1, <1>8, <1>10, <1>11, LeftAlone DEF ClipInv

(* Everyone who waits is answered. *)
LEMMA AnswerClipboardKeeps ==
  ASSUME OneDocument, ClipInv, NEW b \in Broker, Clips!AnswerClipboard(b)
  PROVE  ClipInv'
<1> DEFINE t == task[b]
           s == t.of
           content == IF t.file = Clips!NoFile THEN t.content ELSE files[t.file.id]
<1>1. /\ t.step = "answer" /\ TaskIsOwn(b, t) /\ FilesType
      /\ Clips!Answer(views[s].waiting, content)
      /\ views' = [views EXCEPT ![s].waiting = {}]
      /\ \/ files' = files
         \/ t.file # Clips!NoFile /\ files' = [files EXCEPT ![t.file.id] = Clips!Nothing]
      /\ task' = [task EXCEPT ![b] = Clips!NoTask]
      /\ UNCHANGED <<ownerOf, toKit, fromKit, jail, cache, nextId>>
  BY DEF Clips!AnswerClipboard, ClipInv, TasksAreOwn
<1>2. s \in Session /\ content \in Owned /\ content \in {s, Clips!Nothing}
  <2>1. t \in TaskType /\ t.content = s /\ FileIsOf(t.file) /\ t.of \in Session
    BY <1>1, NoTaskType DEF TaskIsOwn, TaskType
  <2>2. t.file # Clips!NoFile => t.file.of = s
    BY <1>1, NoTaskType DEF TaskIsOwn, TaskType
  <2> QED BY <2>1, <2>2 DEF FileIsOf, Owned
<1> HIDE DEF content, s
<1>3. FilesAreKept /\ FilesType'
  <2>1. FilesType'
    BY <1>1 DEF FilesType, Owned
  <2> QED BY <1>1, <2>1 DEF FilesAreKept, FilesType
<1>4. ViewsAreOwn' /\ \A u \in Session : views'[u].waiting \subseteq views[u].waiting
  BY <1>1, <1>2, FewerWait
<1>5. \A r \in views[s].waiting \cap Request :
        request[r].state # "idle" /\ (content # Clips!Nothing => Given(content, request[r].key) /\ content \in MayCopy)
  BY <1>2 DEF ClipInv, WaitingIsOwn
<1>6. RequestsAreOwn' /\ WaitingIsOwn'
  BY <1>1, <1>2, <1>4, <1>5, AnswerKeeps
<1>7. CacheIsOwn'
  BY <1>1, <1>3, CacheIsKept
<1>8. TasksAreOwn'
  <2>1. \A c \in Broker : c = b
    BY DEF OneDocument
  <2> QED BY <1>1, <2>1 DEF ClipInv, TasksAreOwn, TaskIsOwn
<1> QED BY <1>1, <1>3, <1>4, <1>6, <1>7, <1>8, LeftAlone DEF ClipInv

(* A session ends, with all that was on its way. *)
LEMMA FinalRemoveSessionKeeps ==
  ASSUME ClipInv, NEW s \in Session, Clips!FinalRemoveSession(s)
  PROVE  ClipInv'
<1>1. /\ toKit' = [toKit EXCEPT ![s] = <<>>] /\ fromKit' = [fromKit EXCEPT ![s] = <<>>]
      /\ jail' = [jail EXCEPT ![s] = Clips!EmptyJail]
      /\ UNCHANGED <<ownerOf, cache, files, nextId, task, request>>
  BY DEF Clips!FinalRemoveSession
<1>2. /\ views' = [views EXCEPT ![s] = [state |-> "gone", keys |-> <<0, 0>>, clip |-> s, waiting |-> {}]]
  <2> DEFINE live == [state |-> "live", keys |-> <<0, 0>>, clip |-> s, waiting |-> {}]
  <2>1. Clips!NewView(s) = live
    BY DEF Clips!NewView, Clips!NoKey
  <2>2. [live EXCEPT !.state = "gone"] = [state |-> "gone", keys |-> <<0, 0>>, clip |-> s, waiting |-> {}]
    OBVIOUS
  <2> QED BY <2>1, <2>2 DEF Clips!FinalRemoveSession
<1> DEFINE v == [state |-> "gone", keys |-> <<0, 0>>, clip |-> s, waiting |-> {}]
<1>3. v \in ViewType /\ v.clip = s /\ v.keys = <<0, 0>> /\ v.waiting = {}
  BY DEF ViewType
<1>4. <<0, 0>>[1] = 0 /\ <<0, 0>>[2] = 0
  OBVIOUS
<1> HIDE DEF v
<1>5. ViewsAreOwn' /\ WaitingIsOwn'
  <2>1. views' = [views EXCEPT ![s] = v]
    BY <1>2 DEF v
  <2>2. views' \in [Session -> ViewType] /\ \A u \in Session : views'[u] = IF u = s THEN v ELSE views[u]
    BY <1>3, <2>1 DEF ClipInv, ViewsAreOwn
  <2>3. ASSUME NEW u \in Session
        PROVE  /\ views'[u].clip = u
               /\ GivenOrNone(u, views[u].keys[1])' /\ GivenOrNone(u, views[u].keys[2])'
               /\ views'[u].waiting \in {{}, views[u].waiting}
    <3>1. CASE u = s
      BY <1>3, <1>4, <2>2, <3>1 DEF GivenOrNone, Clips!NoKey
    <3>2. CASE u # s
      BY <1>1, <2>2, <3>2 DEF ClipInv, ViewsAreOwn, GivenOrNone, Given
    <3> QED BY <3>1, <3>2
  <2> QED BY <1>1, <2>2, <2>3 DEF ClipInv, ViewsAreOwn, WaitingIsOwn, Given
<1>6. FromKitIsOwn'
  BY <1>1, ReplyKeeps DEF ClipInv
<1>7. ToKitIsOwn'
  <2>1. <<>> \in Seq(ToKit(s))
    OBVIOUS
  <2> QED BY <1>1, <2>1 DEF ClipInv, ToKitIsOwn
<1>8. JailIsOwn'
  <2>1. Clips!EmptyJail \in [Name -> {Clips!Nothing, s}]
    BY DEF Clips!EmptyJail, Name
  <2> QED BY <1>1, <2>1 DEF ClipInv, JailIsOwn
<1> QED BY <1>1, <1>5, <1>6, <1>7, <1>8, LeftAlone DEF ClipInv

(* A session leaves, and the Kit is told. *)
LEMMA LeavingKeeps ==
  ASSUME ClipInv, NEW s \in Session, Clips!RemoveSession(s) \/ Clips!DisconnectFromKit(s)
  PROVE  ClipInv'
<1>1. /\ UNCHANGED <<ownerOf, fromKit, jail, cache, files, nextId, task, request>>
      /\ \E st \in {"leaving", "closing"} : views' = [views EXCEPT ![s].state = st]
      /\ \/ UNCHANGED toKit
         \/ \E m \in {[cmd |-> "getclipboard", name |-> Clips!Rescue], [cmd |-> "disconnect"]} : Clips!Forward(s, m)
  BY DEF Clips!RemoveSession, Clips!DisconnectFromKit
<1>2. /\ views' \in [Session -> ViewType]
      /\ \A u \in Session : /\ views'[u].keys = views[u].keys /\ views'[u].clip = views[u].clip
                            /\ views'[u].waiting = views[u].waiting
  BY <1>1 DEF ClipInv, ViewsAreOwn, ViewType
<1>3. ViewsAreOwn' /\ WaitingIsOwn'
  BY <1>1, <1>2 DEF ClipInv, ViewsAreOwn, WaitingIsOwn, GivenOrNone, Given
<1>4. [cmd |-> "getclipboard", name |-> Clips!Rescue] \in ToKit(s) /\ [cmd |-> "disconnect"] \in ToKit(s)
  BY DEF ToKit, Name
<1>5. ToKitIsOwn'
  BY <1>1, <1>4, ForwardKeeps, LeftAlone DEF ClipInv
<1> QED BY <1>1, <1>3, <1>5, LeftAlone DEF ClipInv

(* What is saved grows old. *)
LEMMA CheckExpiryKeeps ==
  ASSUME ClipInv, Clips!CheckExpiry
  PROVE  ClipInv'
<1>1. /\ \A k \in Clips!Keys : cache'[k] \in {cache[k], Clips!NoFile}
      /\ cache' = [k \in Clips!Keys |-> cache'[k]]
      /\ files' = Clips!Unlinked(cache, cache', files)
      /\ UNCHANGED <<views, ownerOf, toKit, fromKit, jail, nextId, task, request>>
  BY DEF Clips!CheckExpiry
<1>2. /\ files' = [i \in DOMAIN files |-> files'[i]]
      /\ \A i \in DOMAIN files : files'[i] \in {files[i], Clips!Nothing}
  BY <1>1 DEF Clips!Unlinked
<1>3. FilesAreKept /\ FilesType'
  <2>1. files' \in [DOMAIN files -> Owned] /\ DOMAIN files' = DOMAIN files /\ nextId' \in Nat
    BY <1>1, <1>2 DEF ClipInv, FilesType, Owned
  <2>2. FilesType'
    BY <2>1 DEF FilesType
  <2> QED BY <1>1, <1>2, <2>1, <2>2 DEF FilesAreKept
<1>4. Clips!NoFile \in FileType
  BY DEF Clips!NoFile, FileType, Owned
<1>5. CacheIsOwn'
  <2>1. \A k \in Clips!Keys : FileIsOf(cache[k])'
    BY <1>1, <1>3 DEF ClipInv, CacheIsOwn, FilesAreKept, FilesType, FileIsOf, FileType
  <2>2. cache' \in [Clips!Keys -> FileType]
    BY <1>1, <1>4 DEF ClipInv, CacheIsOwn
  <2> QED BY <1>1, <2>1, <2>2 DEF ClipInv, CacheIsOwn, Given
<1>6. TasksAreOwn'
  <2>1. ASSUME NEW b \in Broker, task[b] # Clips!NoTask PROVE FileIsOf(task[b].file)'
    BY <1>1, <1>3, <2>1 DEF ClipInv, TasksAreOwn, TaskIsOwn, TaskType, FilesAreKept, FilesType, FileIsOf, FileType
  <2>2. DOMAIN files' = DOMAIN files
    BY <1>3 DEF FilesAreKept
  <2> QED BY <1>1, <2>1, <2>2 DEF ClipInv, TasksAreOwn, TaskIsOwn
<1> QED BY <1>1, <1>3, <1>5, <1>6, LeftAlone DEF ClipInv

(* Every step keeps the invariant. *)
LEMMA ClipStep ==
  ASSUME Clips!ClipAssumption, OneDocument, ClipInv, [Clips!Next]_Clips!clipVars
  PROVE  ClipInv'
<1>1. CASE UNCHANGED Clips!clipVars
  BY <1>1, LeftAlone DEF Clips!clipVars, ClipInv
<1>2. ASSUME NEW s \in Session,
             \/ Clips!RotateClipboardKey(s) \/ Clips!KitTakes(s) \/ Clips!ContentError(s)
             \/ Clips!ContentIsEmpty(s) \/ Clips!ContentComes(s) \/ Clips!Disconnected(s)
             \/ Clips!RemoveSession(s) \/ Clips!DisconnectFromKit(s) \/ Clips!StaleWaitDisconnect(s)
      PROVE  ClipInv'
  BY <1>2, RotateKeeps, KitTakesKeeps, ContentErrorKeeps, ContentIsEmptyKeeps, ContentComesKeeps,
     FinalRemoveSessionKeeps, LeavingKeeps DEF Clips!Disconnected, Clips!StaleWaitDisconnect
<1>3. ASSUME NEW r \in Request,
             \/ \E k \in 1..Len(ownerOf) : \E kind \in {"get", "set"} : Clips!Dispatch(r, kind, k)
             \/ Clips!HandleClipboardRequest(r) \/ Clips!SocketCloses(r)
      PROVE  ClipInv'
  BY <1>3, DispatchKeeps, HandleClipboardRequestKeeps, SocketClosesKeeps
<1>4. ASSUME NEW b \in Broker,
             \/ Clips!ReadId(b, "process", "processing") \/ Clips!Process(b)
             \/ Clips!ReadId(b, "insert", "inserting") \/ Clips!InsertClipboard(b) \/ Clips!AnswerClipboard(b)
      PROVE  ClipInv'
  BY <1>4, ReadIdKeeps, ProcessKeeps, InsertClipboardKeeps, AnswerClipboardKeeps
<1> QED BY <1>1, <1>2, <1>3, <1>4, CheckExpiryKeeps DEF Clips!Next

(* A link to a clipboard gives the clipboard of the session that was given    *)
(* the link, or nothing (ClientSession::handleClipboardRequest,               *)
(* SavedClipboards), as long as one document has clipboards.                  *)
THEOREM ClipboardsAreOwn ==
  Clips!ClipAssumption /\ OneDocument => (Clips!Spec => []OwnClipboard)
<1> SUFFICES ASSUME Clips!ClipAssumption, OneDocument
             PROVE  Clips!Spec => []OwnClipboard
  OBVIOUS
<1>1. Clips!Init => ClipInv
  BY ClipInitially
<1>2. ClipInv /\ [Clips!Next]_Clips!clipVars => ClipInv'
  BY ClipStep
<1>3. ClipInv => OwnClipboard
  BY DEF ClipInv, RequestsAreOwn, GotIsOwn, OwnClipboard, Clips!OwnClipboard
<1> QED BY <1>1, <1>2, <1>3, PTL DEF Clips!Spec
=============================================================================
