------------------------------ MODULE Conversion ------------------------------
(* The requests that load a document only to answer them                      *)
(* (wsd/SpecialBrokers.cpp, wsd/ClientRequestDispatcher.cpp,                  *)
(* wsd/ClientSession.cpp, kit/ChildSession.cpp): convert-to, the extraction   *)
(* of link targets and of the structure, the transformation, the thumbnail    *)
(* and the rendering of a search result.                                      *)
(*                                                                            *)
(* A request has a broker, a Kit and a temporary file of its own. The         *)
(* messages between broker and Kit are in order; the Kit may fail at each     *)
(* step, hang or die. Core is external.                                       *)
EXTENDS Integers, Sequences, FiniteSets

CONSTANT Request

Kinds == {"convert-to", "links", "structure", "transform", "thumbnail", "search"}

VARIABLES
  conv,       \* the requests
  converts,   \* convertToBrokerInstanceCounter
  renders     \* renderSearchResultBrokerInstanceCouter

convVars == <<conv, converts, renders>>

Init ==
  /\ conv = [r \in Request |->
       [kind |-> "convert-to", broker |-> "none", socket |-> "none", file |-> FALSE,
        kit |-> "none", loaded |-> FALSE, toKit |-> <<>>, fromKit |-> <<>>]]
  /\ converts = 0 /\ renders = 0

Update(r, c) == conv' = [conv EXCEPT ![r] = c]
Started(r) == conv[r].broker # "none"
Running(r) == conv[r].broker = "running"

(* The socket is sent one answer and shut down; it is a weak pointer, and may *)
(* be gone.                                                                   *)
Answered(c) == [c EXCEPT !.socket = IF @ = "open" THEN "answered" ELSE @]
Stopped(c) == [c EXCEPT !.broker = "stopping"]
ToKit(c, m) == [c EXCEPT !.toKit = Append(@, m)]
-----------------------------------------------------------------------------
(* The request comes.                                                         *)

(* The addresses in X-Forwarded-For that post_allow does not name, and whose  *)
(* host names are looked up: of a host that is allowed, or not.               *)
Forwarded == UNION {[1..n -> {"host", "foreign"}] : n \in 0..2}

(* syncProcess() looks up the first address and drops the last, until none is *)
(* left.                                                                      *)
SyncProcess(addresses) == addresses # <<>> => Head(addresses) = "host"

AllowConvertTo(sender, addresses) == sender \in {"post_allow", "host"} /\ SyncProcess(addresses)

Allowed(kind, sender, addresses) == kind = "search" \/ AllowConvertTo(sender, addresses)

(* The part handlers store the document; what no broker takes they remove.    *)
Stored(c) == [c EXCEPT !.file = TRUE]

(* handlePostRequest(): from an address that may not, or without what it      *)
(* needs; a search result without a document is left to the time-out of the   *)
(* connection.                                                                *)
Refuse(r, kind, sender, addresses, complete) ==
  /\ ~Started(r) /\ conv[r].socket = "none"
  /\ ~(Allowed(kind, sender, addresses) /\ complete)
  /\ Update(r, [conv[r] EXCEPT !.kind = kind,
                               !.socket = IF kind = "search" THEN "open" ELSE "answered"])
  /\ UNCHANGED <<converts, renders>>

ConnectionTimesOut(r) ==
  /\ ~Started(r) /\ conv[r].socket = "open"
  /\ Update(r, [conv[r] EXCEPT !.socket = "closed"])
  /\ UNCHANGED <<converts, renders>>

(* The constructor of RenderSearchResultBroker counts a conversion.           *)
Post(r, kind, sender, addresses) ==
  /\ ~Started(r) /\ conv[r].socket = "none"
  /\ Allowed(kind, sender, addresses)
  /\ Update(r, [Stored(conv[r]) EXCEPT !.kind = kind, !.socket = "open", !.broker = "created"])
  /\ converts' = converts + 1 /\ UNCHANGED renders

Command(kind) ==
  CASE kind = "links" -> <<"extractlinktargets">>
    [] kind = "structure" -> <<"extractdocumentstructure">>
    [] kind = "transform" -> <<"transformdocumentstructure">>
    [] OTHER -> <<>>

(* startConversion(), executeCommand(): the socket moves to the thread of the *)
(* broker, which takes a Kit, adds the session and loads.                     *)
StartConversion(r) ==
  /\ conv[r].broker = "created"
  /\ Update(r, [conv[r] EXCEPT !.broker = "running", !.kit = "up",
                               !.toKit = <<"load">> \o Command(conv[r].kind)])
  /\ UNCHANGED <<converts, renders>>

(* There is no Kit for it. *)
NoKit(r) ==
  /\ conv[r].broker = "created" /\ Update(r, Stopped(conv[r]))
  /\ UNCHANGED <<converts, renders>>

(* The socket was gone before it moved: timeoutNotLoaded() stops a broker     *)
(* whose thread was never started.                                            *)
NeverStarted(r) ==
  /\ conv[r].broker = "created"
  /\ Update(r, [Stopped(conv[r]) EXCEPT !.socket = "closed"])
  /\ UNCHANGED <<converts, renders>>
-----------------------------------------------------------------------------
(* The Kit.                                                                   *)

Says(c, m) == [c EXCEPT !.toKit = Tail(@), !.fromKit = @ \o m]

KitLoads(c) ==
  {[Says(c, <<"status", "loaded">>) EXCEPT !.loaded = TRUE],
   Says(c, <<"error load">>),                     \* passwordrequired, wrongpassword
   [Says(c, <<"failed">>) EXCEPT !.kit = "down"]}  \* faileddocloading

KitAnswers(c, good, bad) ==
  IF c.loaded THEN {Says(c, <<good>>), Says(c, <<bad>>)} ELSE {Says(c, <<"not loaded">>)}

(* OpenHyperLink moves the cursor, or does not.                               *)
KitMoves(c) == {Says(c, <<"cursor">>), Says(c, <<>>)}

KitStep(r) ==
  /\ conv[r].kit = "up" /\ conv[r].toKit # <<>>
  /\ \E c \in
       CASE Head(conv[r].toKit) = "load" -> KitLoads(conv[r])
         [] Head(conv[r].toKit) \in {"extractlinktargets", "extractdocumentstructure"} ->
              KitAnswers(conv[r], "extracted", "extracted")
         [] Head(conv[r].toKit) = "transformdocumentstructure" -> {Says(conv[r], <<>>)}
         [] Head(conv[r].toKit) = "saveas" -> KitAnswers(conv[r], "saveas", "error saveas")
         [] Head(conv[r].toKit) = "hyperlink" -> KitMoves(conv[r])
         [] Head(conv[r].toKit) = "getthumbnail" -> KitAnswers(conv[r], "thumbnail", "thumbnail")
         [] Head(conv[r].toKit) = "rendersearchresult" -> KitAnswers(conv[r], "rendered", "error render") :
       Update(r, c)
  /\ UNCHANGED <<converts, renders>>

KitDies(r) ==
  /\ conv[r].kit = "up"
  /\ Update(r, [conv[r] EXCEPT !.kit = "down"])
  /\ UNCHANGED <<converts, renders>>
-----------------------------------------------------------------------------
(* What the broker does with the messages of the Kit.                         *)

(* setLoaded(): all but a thumbnail are saved in the format that is asked     *)
(* for, the extractions too.                                                  *)
SetLoaded(c) ==
  CASE c.kind = "thumbnail" -> c
    [] c.kind = "search" -> ToKit(c, "rendersearchresult")
    [] OTHER -> ToKit(c, "saveas")

(* abortConversion(). The session of a search result has no save-as socket.   *)
AbortConversion(c) == IF c.kind = "search" THEN c ELSE Stopped(Answered(c))

(* The file may be missing: then there is no answer, only the end.            *)
HandleSaveAs(c) == {Stopped(Answered(c)), Stopped(c)}

(* closeDocument(), carried out by the poll loop. *)
Terminated(c) == Stopped(Answered(c))

HandleInput(r) ==
  /\ conv[r].fromKit # <<>> /\ conv[r].broker \in {"running", "stopping"}
  /\ LET m == Head(conv[r].fromKit)
         c == [conv[r] EXCEPT !.fromKit = Tail(@)]
     IN \E d \in
          CASE m = "status" -> {IF c.kind = "thumbnail" THEN ToKit(c, "hyperlink") ELSE c}
            [] m = "loaded" -> {SetLoaded(c)}
            [] m \in {"error load", "error saveas"} -> {AbortConversion(c)}
            [] m = "saveas" -> HandleSaveAs(c)
            [] m = "cursor" -> {ToKit(c, "getthumbnail")}
            [] m \in {"extracted", "thumbnail", "rendered"} -> {Terminated(c)}
            [] OTHER -> {c} :
        Update(r, d)
  /\ UNCHANGED <<converts, renders>>

(* disconnectedFromKit() *)
KitIsGone(r) ==
  /\ Running(r) /\ conv[r].kit = "down" /\ conv[r].fromKit = <<>>
  /\ Update(r, Stopped(conv[r])) /\ UNCHANGED <<converts, renders>>

(* Mutant: limit_convert_secs is only looked at while the document loads. *)
TimeLimitWhileLoading(r) ==
  /\ Running(r) /\ ~conv[r].loaded
  /\ Update(r, [Stopped(conv[r]) EXCEPT !.kit = "down"]) /\ UNCHANGED <<converts, renders>>

(* limit_load_secs, limit_convert_secs of a conversion; a search result that  *)
(* is loaded has none, and is closed as an idle document.                     *)
TimeLimit(r) ==
  /\ Running(r)
  /\ Update(r, [Stopped(conv[r]) EXCEPT !.kit = "down"]) /\ UNCHANGED <<converts, renders>>
-----------------------------------------------------------------------------
(* The end of the polling thread, and cleanupDocBrokers().                    *)
PollEnds(r) ==
  /\ conv[r].broker = "stopping"
  /\ Update(r, [conv[r] EXCEPT !.broker = "ended", !.kit = "down", !.toKit = <<>>, !.fromKit = <<>>,
                               !.socket = IF @ = "open" THEN "closed" ELSE @])
  /\ UNCHANGED <<converts, renders>>

Dispose(r) ==
  /\ conv[r].broker = "ended"
  /\ Update(r, [conv[r] EXCEPT !.broker = "disposed", !.file = FALSE])
  /\ IF conv[r].kind = "search"
       THEN renders' = renders - 1 /\ UNCHANGED converts
       ELSE converts' = converts - 1 /\ UNCHANGED renders

(* The client gives up. *)
ClientLeaves(r) ==
  /\ conv[r].socket = "open"
  /\ Update(r, [conv[r] EXCEPT !.socket = "closed"]) /\ UNCHANGED <<converts, renders>>
-----------------------------------------------------------------------------
WsdStep(r) ==
  \/ ConnectionTimesOut(r) \/ StartConversion(r) \/ NoKit(r) \/ NeverStarted(r)
  \/ HandleInput(r) \/ KitIsGone(r) \/ PollEnds(r) \/ Dispose(r)

Next ==
  \E r \in Request :
    \/ \E kind \in Kinds, sender \in {"post_allow", "host", "other"}, addresses \in Forwarded :
         \/ \E complete \in BOOLEAN : Refuse(r, kind, sender, addresses, complete)
         \/ Post(r, kind, sender, addresses)
    \/ KitStep(r) \/ KitDies(r) \/ WsdStep(r) \/ TimeLimit(r) \/ ClientLeaves(r)

(* The threads of WSD go on and its clock runs; the Kit owes nothing. *)
FairSpec ==
  /\ Init /\ [][Next]_convVars
  /\ \A r \in Request : WF_convVars(WsdStep(r)) /\ WF_convVars(TimeLimit(r))
-----------------------------------------------------------------------------
(* A request is answered or its connection is closed, and its broker and its  *)
(* temporary file go, whatever the Kit does: also if it hangs, dies, fails to *)
(* load or produces nothing.                                                  *)
ConversionEnds ==
  \A r \in Request :
    conv[r].socket = "open" ~>
      /\ conv[r].socket # "open" /\ ~conv[r].file
      /\ conv[r].broker \in {"none", "disposed"}

(* The count of conversions is that of the brokers ("How many live            *)
(* conversions are running", wsd/SpecialBrokers.hpp); a search result that    *)
(* was rendered leaves it too high.                                           *)
CountIsRight ==
  converts = Cardinality({r \in Request : Started(r) /\ conv[r].broker # "disposed"
                                             /\ conv[r].kind # "search"})
=============================================================================
