----------------------------- MODULE ClientSession ----------------------------
(* How sessions come into a document (wsd/ClientSession.cpp, kit/Kit.cpp,     *)
(* kit/ChildSession.cpp): load and loadwithpassword, the password of the      *)
(* document, the first view and those that join.                              *)
(*                                                                            *)
(* The Kit takes the requests in their order; what it answers reaches the     *)
(* session, and through it the client, in one step. Core is external: it asks *)
(* for a password, and loads the document when it is given the right one.     *)
EXTENDS Integers, Sequences

CONSTANTS
  Session,      \* the sessions
  MaxTries,     \* loads that a client asks for
  LoadMayFail   \* the document may turn out to be broken

EntryAssumption ==
  MaxTries \in Nat /\ LoadMayFail \in BOOLEAN

NoPassword == "none"
Password == {"first", "second"}

VARIABLES
  password,   \* the password of the document, as Core has it
  client,     \* the sessions in WSD, and what their clients know
  toKit,      \* load requests on their way to the Kit
  kit         \* the Document of the Kit

entryVars == <<password, client, toKit, kit>>

NewClient ==
  [state |-> "loading", asked |-> FALSE, tries |-> 0, waiting |-> FALSE,
   password |-> NoPassword,                     \* getHaveDocPassword(), getDocPassword()
   view |-> FALSE, gave |-> NoPassword, needed |-> NoPassword]

Init ==
  /\ password \in {NoPassword, "first"}
  /\ client = [s \in Session |-> NewClient] /\ toKit = <<>>
  /\ kit = [state |-> "empty", protected |-> FALSE, password |-> NoPassword]

Here(s) == client[s].state # "gone"
Live(s) == client[s].state = "live"
-----------------------------------------------------------------------------
(* Asking for the document.                                                   *)

ParseDocOptions(s, given) ==
  IF given = NoPassword THEN client[s].password ELSE given

Requests(s, given) ==
  /\ Here(s) /\ client[s].tries < MaxTries
  /\ toKit' = Append(toKit, [from |-> s, password |-> ParseDocOptions(s, given)])
  /\ client' = [client EXCEPT
       ![s].asked = TRUE, ![s].tries = @ + 1, ![s].waiting = TRUE,
       ![s].password = ParseDocOptions(s, given)]
  /\ UNCHANGED <<password, kit>>

Load(s) == ~client[s].asked /\ Requests(s, NoPassword)
LoadWithPassword(s, given) == Requests(s, given)
-----------------------------------------------------------------------------
(* The Kit loads the document, or one more view of it.                        *)

Answered(s) == [client EXCEPT ![s].waiting = FALSE]

(* The view is there: status:, viewinfo: and loaded: follow, and the session  *)
(* is live if its client is still there.                                      *)
Enters(s, gave) ==
  client' = [Answered(s) EXCEPT
    ![s].view = Here(s), ![s].gave = gave, ![s].needed = password,
    ![s].state = IF @ = "loading" THEN "live" ELSE @]

(* setDocumentPassword(): the second time Core asks, the password was wrong.  *)
CoreAccepts(given) == password = NoPassword \/ given = password

FirstLoad(s, given) ==
  /\ kit.state = "empty"
  /\ kit' = [state |-> IF CoreAccepts(given) THEN "loaded" ELSE "empty",
             protected |-> password # NoPassword, password |-> given]
  /\ IF CoreAccepts(given) THEN Enters(s, given) ELSE client' = Answered(s)

(* Mutant: a view that joins needs some password, not the right one. *)
JoinWithAny(s, given) ==
  /\ kit.state = "loaded" /\ ~client[s].view
  /\ IF kit.protected /\ given = NoPassword THEN client' = Answered(s) ELSE Enters(s, given)
  /\ UNCHANGED kit

(* Mutant: a password that is wrong is not reported. *)
JoinSilently(s, given) ==
  /\ kit.state = "loaded" /\ ~client[s].view
  /\ IF kit.protected /\ given # kit.password THEN UNCHANGED client ELSE Enters(s, given)
  /\ UNCHANGED kit

Join(s, given) ==
  /\ kit.state = "loaded" /\ ~client[s].view
  /\ IF kit.protected /\ given # kit.password THEN client' = Answered(s) ELSE Enters(s, given)
  /\ UNCHANGED kit

AlreadyLoaded(s) == client[s].view /\ client' = Answered(s) /\ UNCHANGED kit

KitLoads ==
  /\ toKit # <<>> /\ kit.state # "gone" /\ toKit' = Tail(toKit)
  /\ LET s == Head(toKit).from given == Head(toKit).password IN
       \/ ~Here(s) /\ client' = Answered(s) /\ UNCHANGED kit
       \/ Here(s) /\ (FirstLoad(s, given) \/ Join(s, given) \/ AlreadyLoaded(s))
  /\ UNCHANGED password

(* faileddocloading: the Kit ends, and with it all the sessions.              *)
KitFails ==
  /\ LoadMayFail /\ toKit # <<>> /\ kit.state = "empty"
  /\ kit' = [kit EXCEPT !.state = "gone"] /\ toKit' = <<>>
  /\ client' = [s \in Session |-> [client[s] EXCEPT !.state = "gone", !.waiting = FALSE]]
  /\ UNCHANGED password

(* LOK_CALLBACK_DOCUMENT_PASSWORD_RESET, after a user has changed it.         *)
ResetPassword(s, new) ==
  /\ Live(s) /\ client[s].view /\ new # password
  /\ password' = new
  /\ kit' = [kit EXCEPT !.protected = new # NoPassword, !.password = new]
  /\ UNCHANGED <<client, toKit>>

Leave(s) ==
  /\ Here(s)
  /\ client' = [client EXCEPT ![s].state = "gone", ![s].view = FALSE]
  /\ UNCHANGED <<password, toKit, kit>>
-----------------------------------------------------------------------------
Next ==
  \/ \E s \in Session :
       \/ Load(s) \/ \E given \in Password \cup {NoPassword} : LoadWithPassword(s, given)
       \/ \E new \in Password \cup {NoPassword} : ResetPassword(s, new)
       \/ Leave(s)
  \/ KitLoads \/ KitFails

(* The Kit works through its requests. *)
Fairness == WF_entryVars(KitLoads)
FairSpec == Init /\ [][Next]_entryVars /\ Fairness
-----------------------------------------------------------------------------
(* Whoever sees a protected document has given the password that it had when  *)
(* he came: the first, those that join, and after it was changed.             *)
OnlyWithPassword ==
  \A s \in Session :
    client[s].view /\ client[s].needed # NoPassword => client[s].gave = client[s].needed

(* Whoever asks for the document is answered, with a view or with an error.   *)
LoadIsAnswered == \A s \in Session : client[s].waiting ~> ~client[s].waiting
=============================================================================
