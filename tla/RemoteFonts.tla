------------------------------ MODULE RemoteFonts ------------------------------
(* The remote fonts (RemoteFontConfigPoll, wsd/RemoteConfig.cpp): a thread    *)
(* fetches a JSON file that lists fonts, downloads those that are new and has *)
(* ForKit add them; since a font cannot be taken back, ForKit is restarted    *)
(* when one has changed or is no longer listed.                               *)
(*                                                                            *)
(* A font has a version. It is listed with a stamp, which is its version, or  *)
(* without one, and then the ETag of the font itself tells it.                *)
EXTENDS Integers, FiniteSets, SequencesExt

CONSTANTS
  Font,
  MaxChanges,   \* changes of the list and of the fonts
  Faults        \* "download": a font cannot be fetched; "crash": ForKit dies

FontAssumption == MaxChanges \in Nat /\ Faults \subseteq {"download", "crash"}

NoTag == 0
NoStamp == 0
Listing == {"absent", "stamp", "plain"}

VARIABLES
  list,       \* the JSON: how each font is listed, and the file's ETag
  version,    \* of each font
  eTagValue,  \* the one of the last JSON
  fonts,      \* what was downloaded: the fonts with stamp and ETag
  toForKit,   \* messages on their way
  forKit,     \* the fonts it has added, with their versions
  calm        \* the last poll came to its end and had nothing to do

fontVars == <<list, version, eTagValue, fonts, toForKit, forKit, calm>>

Listed == {f \in Font : list.how[f] # "absent"}
NoFonts == [f \in {} |-> NoTag]

Init ==
  /\ list \in [tag : {1}, how : [Font -> Listing]]
  /\ version = [f \in Font |-> 1]
  /\ eTagValue = NoTag /\ fonts = NoFonts
  /\ toForKit = <<>> /\ forKit = NoFonts /\ calm = FALSE
-----------------------------------------------------------------------------
(* The poll works on a record: the ETag, the fonts and the messages it sends. *)

Polled == [tag |-> eTagValue, fonts |-> fonts, sent |-> toForKit]

(* finishDownload *)
FinishDownload(p, f, stamp, tag) ==
  [tag |-> p.tag,
   fonts |-> [g \in DOMAIN p.fonts \cup {f} |->
                IF g = f THEN [stamp |-> stamp, tag |-> tag] ELSE p.fonts[g]],
   sent |-> Append(p.sent, [type |-> "addfont", font |-> f, version |-> version[f]])]
DownloadPlain(p, f) == FinishDownload(p, f, version[f], NoTag)
DownloadWithETag(p, f) == FinishDownload(p, f, NoStamp, version[f])

(* Mutant: the ETag of the JSON stays. *)
RestartForKitKeepingTag(p) ==
  [p EXCEPT !.fonts = NoFonts, !.sent = Append(@, [type |-> "exit"])]
RestartForKit(p) ==
  [tag |-> NoTag, fonts |-> NoFonts, sent |-> Append(p.sent, [type |-> "exit"])]

ETagUnchanged(f) == fonts[f].tag = version[f]

(* A font that is known has another stamp, or another ETag. *)
HasChanged(f) ==
  f \in DOMAIN fonts /\
    IF list.how[f] = "stamp" THEN version[f] # fonts[f].stamp ELSE ~ETagUnchanged(f)
OneHasChanged == \E f \in Listed : HasChanged(f)

(* The new fonts are downloaded in the order of the JSON, unless that fails;  *)
(* those that are behind one that has changed are left to the next poll.      *)
New(fails) == (Listed \ DOMAIN fonts) \ fails
Orders(F) ==
  {order \in UNION {[1 .. n -> F] : n \in 0 .. Cardinality(F)} :
     \A i, j \in DOMAIN order : order[i] = order[j] => i = j}
Downloads(fails) == {order \in Orders(New(fails)) : OneHasChanged \/ New(fails) \subseteq ToSet(order)}

Download(p, f) == IF list.how[f] = "stamp" THEN DownloadPlain(p, f) ELSE DownloadWithETag(p, f)
DownloadAll(p, order) ==
  LET after[n \in 0 .. Len(order)] ==
        IF n = 0 THEN p ELSE Download(after[n - 1], order[n])
  IN  after[Len(order)]

(* A font that has changed, or that is no longer listed: ForKit is restarted. *)
HandleJSON(order) ==
  LET p == DownloadAll([tag |-> list.tag, fonts |-> fonts, sent |-> toForKit], order)
  IN  IF OneHasChanged \/ ~(DOMAIN fonts \subseteq Listed) THEN RestartForKit(p) ELSE p

(* The JSON is the old one: only the fonts without a stamp are asked for.     *)
HandleUnchangedJSON ==
  IF \E f \in DOMAIN fonts : fonts[f].stamp = NoStamp /\ ~ETagUnchanged(f)
  THEN RestartForKit(Polled) ELSE Polled

(* An unreachable server leaves all as it is. *)
Polls(p) ==
  /\ eTagValue' = p.tag /\ fonts' = p.fonts /\ toForKit' = p.sent
  /\ calm' = (eTagValue = list.tag /\ p = Polled)
  /\ UNCHANGED <<list, version, forKit>>
Poll ==
  \/ eTagValue = list.tag /\ Polls(HandleUnchangedJSON)
  \/ /\ eTagValue # list.tag
     /\ \E fails \in IF "download" \in Faults THEN SUBSET Font ELSE {{}} :
          \E order \in Downloads(fails) : Polls(HandleJSON(order))

(* ForKit takes a message; the one that comes after it starts with no fonts.  *)
ForKitHandles ==
  /\ toForKit # <<>> /\ toForKit' = Tail(toForKit)
  /\ forKit' = IF Head(toForKit).type = "exit" THEN NoFonts
               ELSE [f \in DOMAIN forKit \cup {Head(toForKit).font} |->
                       IF f = Head(toForKit).font THEN Head(toForKit).version ELSE forKit[f]]
  /\ UNCHANGED <<list, version, eTagValue, fonts, calm>>

ForKitDies ==
  /\ "crash" \in Faults
  /\ forKit' = NoFonts
  /\ UNCHANGED <<list, version, eTagValue, fonts, toForKit, calm>>

(* A font with a stamp changes together with its entry. *)
FontChanges(f) ==
  /\ list.tag + version[f] <= MaxChanges + 1
  /\ version' = [version EXCEPT ![f] = @ + 1] /\ calm' = FALSE
  /\ list' = IF list.how[f] = "stamp" THEN [list EXCEPT !.tag = @ + 1] ELSE list
  /\ UNCHANGED <<eTagValue, fonts, toForKit, forKit>>

ListChanges(how) ==
  /\ list.tag <= MaxChanges /\ how # list.how
  /\ list' = [tag |-> list.tag + 1, how |-> how] /\ calm' = FALSE
  /\ UNCHANGED <<version, eTagValue, fonts, toForKit, forKit>>

Next ==
  \/ Poll \/ ForKitHandles \/ ForKitDies
  \/ \E f \in Font : FontChanges(f)
  \/ \E how \in [Font -> Listing] : ListChanges(how)

Spec == Init /\ [][Next]_fontVars
-----------------------------------------------------------------------------
TypeOK ==
  /\ eTagValue \in NoTag .. list.tag /\ DOMAIN fonts \subseteq Font
  /\ \A f \in DOMAIN forKit : forKit[f] \in 1 .. version[f]

(* When a poll has found nothing to do and ForKit has been told, ForKit has   *)
(* the listed fonts in their latest versions and no others.                   *)
FontsAreFed ==
  calm /\ toForKit = <<>> =>
    DOMAIN forKit = Listed /\ \A f \in Listed : forKit[f] = version[f]
=============================================================================
