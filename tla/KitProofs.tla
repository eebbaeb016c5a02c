------------------------------- MODULE KitProofs -------------------------------
(* The file of a document never goes back, and what wsd takes for unmodified  *)
(* is in it, for any sessions, input, requests and faults but one.            *)
(*                                                                            *)
(* Both rest on one save at a time (OneSave): wsd does not ask for another    *)
(* while it waits for an answer. It holds as long as an answer is not given   *)
(* twice, which a child does that crashes after it has told its parent how    *)
(* the save ended: hence the hypothesis OneByOne. Then the child that is to   *)
(* write the file has all that the file holds (FileOk).                       *)
(*                                                                            *)
(* The modified state is tracked through callbacks, which are late. What is   *)
(* kept is that the last one that waits for a view tells the state of         *)
(* LibreOffice (LastIsTrue), that this is the tracked one when none waits     *)
(* (QuietIsTrue), and that a document that LibreOffice takes for unmodified   *)
(* is in the file or in a child, the failure of which will be noticed, since  *)
(* the forced state is remembered until then (UnmodifiedIsKept).              *)
EXTENDS KitProcess, Induction, FiniteSetTheorems

(* One save at a time: the hypothesis of the theorems. wsd waits for an       *)
(* answer before it asks again, and a child that has told its parent          *)
(* something does not crash afterwards: that would be answered a second time. *)
OneByOne == ~Overlap /\ "lateCrash" \notin Faults

(* What is in a sequence.                                                     *)
TextTypes == {"key", "mouse", "textinput", "removetextcontext", "uno"}
Id == Session \X Nat
MessageOk(m) ==
  /\ m.type \in TextTypes \cup {"session", "load", "save", "disconnect"} /\ m.session \in Session
  /\ m.type \in TextTypes => DOMAIN m = {"type", "session", "ids"} /\ m.ids \in Seq(Id)
QueueOk(q) == q \in Seq(In(q)) /\ \A m \in In(q) : MessageOk(m)
CallbackOk(cb) == cb.view \in Session /\ cb.type \in {"modified", "result"} /\ cb.value \in BOOLEAN
CallbacksOk(q) == q \in Seq(In(q)) /\ \A cb \in In(q) : CallbackOk(cb)

KitFields == {"alive", "document", "sessions", "running", "queue", "callbacks", "modified", "bgSaveDisabled",
              "bgSavesOngoing"}
KitOk(k) ==
  /\ DOMAIN k = KitFields /\ DOMAIN k.sessions = Session /\ k.modified \in DocumentState
  /\ QueueOk(k.queue) /\ CallbacksOk(k.callbacks)
  /\ k.running.op \in {"none", "load", "save"}
  /\ k.running.op # "none" => k.running.session \in Session
CoreOk ==
  /\ DOMAIN core = {"loaded", "applied", "modified"} /\ core.modified \in BOOLEAN /\ core.applied \in Seq(Id)
WsdState == [sessions : SUBSET Session, modified : BOOLEAN, saves : Nat, unasked : Nat]
Types ==
  /\ KitOk(kit) /\ CoreOk /\ wsd \in WsdState /\ QueueOk(toKit) /\ raced \in BOOLEAN
  /\ count \in [requests : Nat, events : Nat]

(* There is one save at most, as a request, under way, or as an answer, and   *)
(* wsd waits for it.                                                          *)
Single(S) == \A x, y \in S : x = y
SavesIn(q) == {i \in DOMAIN q : q[i].type = "save"}
ResultsIn(q) == {i \in DOMAIN q : q[i].type = "result"}
Open == {p \in procs : ~p.completed}
Sent == SavesIn(toKit) # {}
Queued == SavesIn(kit.queue) # {}
Running == kit.running.op = "save"
Answers == ResultsIn(kit.callbacks) # {}
Forked == Open # {}
OneSave ==
  /\ wsd.saves \in {0, 1}
  /\ Single(SavesIn(toKit)) /\ Single(SavesIn(kit.queue)) /\ Single(ResultsIn(kit.callbacks)) /\ Single(Open)
  /\ Sent => ~Queued /\ ~Running /\ ~Answers /\ ~Forked
  /\ Queued => ~Running /\ ~Answers /\ ~Forked
  /\ Running => ~Answers /\ ~Forked
  /\ Answers => ~Forked
  /\ Sent \/ Queued \/ Running \/ Answers \/ Forked => wsd.saves = 1

(* A child writes the file before it tells anything.                          *)
ProcessOk(p) ==
  /\ DOMAIN p = {"id", "content", "phase", "sent", "completed"}
  /\ p.phase \in {"saving", "asking", "stored", "dismissed", "exited", "crashed"} /\ p.completed \in BOOLEAN
  /\ p.phase = "saving" => p.sent = <<>> /\ ~p.completed
  /\ p.phase = "crashed" => p.sent = <<>> /\ ~p.completed
  /\ p.completed => p.sent = <<>>
  /\ p.sent # <<>> =>
       \/ p.sent = <<"success">> /\ p.phase \in {"stored", "exited"}
       \/ p.sent = <<"failure">> /\ p.phase \in {"stored", "exited"}
       \/ p.sent = <<"jsdialog">> /\ p.phase = "asking"
  /\ p.phase = "asking" => ~p.completed
ProcsOk == \A p \in procs : ProcessOk(p)

(* Nothing is in the file that was not applied, and the child that is to      *)
(* write it has all that it holds.                                            *)
FileOk ==
  /\ disk \subseteq Applied
  /\ \A p \in procs :
       /\ p.content \subseteq Applied
       /\ p.phase = "saving" => disk \subseteq p.content
       /\ p.sent = <<"success">> => disk = p.content

(* The state that the Kit tracks is that of LibreOffice, or will be when the  *)
(* callbacks are drained; wsd knows it.                                       *)
About(q, v) == {i \in DOMAIN q : q[i].type = "modified" /\ q[i].view = v}
LastIs(q, v, value) == \A i \in About(q, v) : (\A j \in About(q, v) : j <= i) => q[i].value = value
LastIsTrue == \A v \in LoadedViews(kit) : LastIs(kit.callbacks, v, core.modified)
QuietIsTrue ==
  \A v \in LoadedViews(kit) : About(kit.callbacks, v) = {} => (kit.modified = "Modified" <=> core.modified)
WsdKnows == wsd.modified <=> kit.modified # "UnModified"

(* What is unmodified is in the file, or in a child that will put it there,   *)
(* and its failure is remembered.                                             *)
ForcedIsSaving == kit.modified = "UnModifiedButSaving" => Forked
NoneTrue(q) == \A i \in DOMAIN q : q[i].type = "modified" => ~q[i].value
UnmodifiedIsKept ==
  ~core.modified =>
    \/ disk = Applied /\ \A p \in procs : p.phase = "saving" => p.content = Applied
    \/ kit.modified = "UnModifiedButSaving" /\ \E p \in Open : p.content = Applied
NothingStale == kit.modified = "UnModifiedButSaving" /\ ~core.modified => NoneTrue(kit.callbacks)

StateOk ==
  /\ LastIsTrue /\ QuietIsTrue /\ WsdKnows /\ ForcedIsSaving
  /\ ~raced => UnmodifiedIsKept /\ NothingStale

KitInv == Types /\ OneSave /\ ProcsOk /\ FileOk /\ (kit.alive => StateOk)
-----------------------------------------------------------------------------
(* Sequences.                                                                 *)

(* One more message. *)
LEMMA MessageAppended ==
  ASSUME NEW q, QueueOk(q), NEW m, MessageOk(m)
  PROVE  /\ QueueOk(Append(q, m))
         /\ m.type # "save" => SavesIn(Append(q, m)) = SavesIn(q)
         /\ m.type = "save" /\ SavesIn(q) = {} => Single(SavesIn(Append(q, m)))
<1>1. Append(q, m) \in Seq(In(q) \cup {m}) /\ In(Append(q, m)) = In(q) \cup {m}
  <2>1. q \in Seq(In(q) \cup {m})
    BY DEF QueueOk
  <2> QED BY <2>1, InOfOneMore
<1>2. QueueOk(Append(q, m))
  BY <1>1 DEF QueueOk
<1>3. /\ DOMAIN q = 1 .. Len(q) /\ Len(q) \in Nat /\ DOMAIN Append(q, m) = 1 .. Len(q) + 1
      /\ Append(q, m)[Len(q) + 1] = m /\ \A i \in 1 .. Len(q) : Append(q, m)[i] = q[i]
  BY DEF QueueOk
<1>4. \A i \in 1 .. Len(q) + 1 : i = Len(q) + 1 \/ i \in 1 .. Len(q)
  BY <1>3
<1>5. \A i \in 1 .. Len(q) : i \in 1 .. Len(q) + 1
  BY <1>3
<1>6. ASSUME m.type # "save" PROVE SavesIn(Append(q, m)) = SavesIn(q)
  BY <1>3, <1>4, <1>5, <1>6 DEF SavesIn
<1>7. ASSUME SavesIn(q) = {} PROVE SavesIn(Append(q, m)) \subseteq {Len(q) + 1}
  BY <1>3, <1>4, <1>5, <1>7 DEF SavesIn
<1> QED BY <1>2, <1>6, <1>7 DEF Single

(* The first message is taken. *)
LEMMA MessageTaken ==
  ASSUME NEW q, QueueOk(q), q # <<>>
  PROVE  /\ QueueOk(Tail(q)) /\ MessageOk(Head(q))
         /\ Single(SavesIn(q)) => Single(SavesIn(Tail(q)))
         /\ SavesIn(q) = {} => SavesIn(Tail(q)) = {}
         /\ Head(q).type = "save" => SavesIn(q) # {}
         /\ Head(q).type = "save" /\ Single(SavesIn(q)) => SavesIn(Tail(q)) = {}
<1>1. /\ Head(q) \in In(q) /\ Tail(q) \in Seq(In(q)) /\ In(q) = In(Tail(q)) \cup {Head(q)}
  BY InOfRest DEF QueueOk
<1>2. QueueOk(Tail(q)) /\ MessageOk(Head(q))
  <2>1. Tail(q) \in Seq(In(Tail(q)))
    BY <1>1, OfItsOwn
  <2> QED BY <1>1, <2>1 DEF QueueOk
<1>3. /\ DOMAIN q = 1 .. Len(q) /\ Len(q) \in Nat /\ DOMAIN Tail(q) = 1 .. Len(q) - 1
      /\ 1 \in DOMAIN q /\ Head(q) = q[1] /\ \A i \in 1 .. Len(q) - 1 : Tail(q)[i] = q[i + 1]
  BY DEF QueueOk
<1>4. \A i \in SavesIn(Tail(q)) : i + 1 \in SavesIn(q) /\ i + 1 # 1 /\ i \in Int
  BY <1>3 DEF SavesIn
<1>5. Head(q).type = "save" => 1 \in SavesIn(q)
  BY <1>3 DEF SavesIn
<1>6. ASSUME Single(SavesIn(q)), NEW i \in SavesIn(Tail(q)), NEW j \in SavesIn(Tail(q)) PROVE i = j
  <2>1. i + 1 = j + 1
    BY <1>4, <1>6 DEF Single
  <2> QED BY <1>4, <2>1
<1>7. Single(SavesIn(q)) => Single(SavesIn(Tail(q)))
  BY <1>6 DEF Single
<1>8. SavesIn(q) = {} => SavesIn(Tail(q)) = {}
  BY <1>4
<1>9. ASSUME Head(q).type = "save", Single(SavesIn(q)) PROVE SavesIn(Tail(q)) = {}
  BY <1>4, <1>5, <1>9 DEF Single
<1> QED BY <1>2, <1>5, <1>7, <1>8, <1>9

(* A message that is no save is taken out. *)
LEMMA MessageRemoved ==
  ASSUME NEW q, QueueOk(q), NEW n \in DOMAIN q, q[n].type # "save"
  PROVE  /\ QueueOk(RemoveAt(q, n))
         /\ Single(SavesIn(q)) => Single(SavesIn(RemoveAt(q, n)))
         /\ SavesIn(q) = {} => SavesIn(RemoveAt(q, n)) = {}
<1> DEFINE a == SubSeq(q, 1, n - 1)
           b == SubSeq(q, n + 1, Len(q))
           r == RemoveAt(q, n)
<1>1. r = a \o b /\ Len(q) \in Nat /\ n \in 1 .. Len(q) /\ DOMAIN q = 1 .. Len(q)
  BY DEF QueueOk, RemoveAt
<1>2. /\ a \in Seq(In(q)) /\ Len(a) = n - 1 /\ \A i \in 1 .. n - 1 : a[i] = q[i]
      /\ b \in Seq(In(q)) /\ Len(b) = Len(q) - n /\ \A i \in 1 .. Len(q) - n : b[i] = q[n + i]
  BY <1>1 DEF QueueOk
<1> HIDE DEF a, b
<1>3. r \in Seq(In(q)) /\ In(r) = In(a) \cup In(b) /\ In(a) \subseteq In(q) /\ In(b) \subseteq In(q)
  <2>1. a \o b \in Seq(In(q)) /\ In(a \o b) = In(a) \cup In(b)
    BY <1>2, InOfTwo
  <2>2. \A s \in Seq(In(q)) : In(s) \subseteq In(q)
    <3>1. \A s \in Seq(In(q)) : \A i \in DOMAIN s : s[i] \in In(q)
      OBVIOUS
    <3>2. \A s \in Seq(In(q)) : \A x \in In(s) : \E i \in DOMAIN s : x = s[i]
      BY DEF In
    <3> QED BY <3>1, <3>2
  <2> QED BY <1>1, <1>2, <2>1, <2>2
<1>4. QueueOk(r)
  <2>1. r \in Seq(In(r))
    BY <1>3, OfItsOwn
  <2> QED BY <1>3, <2>1 DEF QueueOk
<1>5. /\ DOMAIN r = 1 .. Len(q) - 1
      /\ \A i \in 1 .. Len(q) - 1 : r[i] = IF i < n THEN q[i] ELSE q[i + 1]
  <2>1. /\ DOMAIN (a \o b) = 1 .. Len(a) + Len(b)
        /\ \A i \in 1 .. Len(a) + Len(b) : (a \o b)[i] = IF i <= Len(a) THEN a[i] ELSE b[i - Len(a)]
    <3>1. a \in Seq(In(q)) /\ b \in Seq(In(q))
      BY <1>2
    <3> QED BY <3>1
  <2>2. Len(a) + Len(b) = Len(q) - 1
    BY <1>1, <1>2
  <2>3. ASSUME NEW i \in 1 .. Len(q) - 1 PROVE r[i] = IF i < n THEN q[i] ELSE q[i + 1]
    <3>1. CASE i < n
      <4>1. i <= Len(a) /\ i \in 1 .. n - 1
        BY <1>1, <1>2, <3>1
      <4> QED BY <1>1, <1>2, <2>1, <2>2, <3>1, <4>1
    <3>2. CASE ~(i < n)
      <4>1. ~(i <= Len(a)) /\ i - Len(a) \in 1 .. Len(q) - n /\ n + (i - Len(a)) = i + 1
        BY <1>1, <1>2, <3>2
      <4>2. b[i - Len(a)] = q[n + (i - Len(a))]
        BY <1>2, <4>1
      <4> QED BY <1>1, <2>1, <2>2, <3>2, <4>1, <4>2
    <3> QED BY <3>1, <3>2
  <2> QED BY <1>1, <2>1, <2>2, <2>3
<1> DEFINE At(i) == IF i < n THEN i ELSE i + 1
<1> HIDE DEF r
<1>6. ASSUME NEW i \in SavesIn(r) PROVE At(i) \in SavesIn(q) /\ i \in Int
  <2>1. i \in 1 .. Len(q) - 1 /\ r[i].type = "save"
    BY <1>5 DEF SavesIn
  <2>2. At(i) \in 1 .. Len(q) /\ r[i] = q[At(i)]
    <3>1. r[i] = IF i < n THEN q[i] ELSE q[i + 1]
      BY <1>5, <2>1
    <3>2. CASE i < n
      BY <1>1, <2>1, <3>1, <3>2
    <3>3. CASE ~(i < n)
      BY <1>1, <2>1, <3>1, <3>3
    <3> QED BY <3>2, <3>3
  <2> HIDE DEF At
  <2> QED BY <1>1, <2>1, <2>2 DEF SavesIn
<1>7. \A i, j \in Int : At(i) = At(j) => i = j
  BY <1>1
<1> HIDE DEF At
<1>8. Single(SavesIn(q)) => Single(SavesIn(r))
  BY <1>6, <1>7 DEF Single
<1>9. SavesIn(q) = {} => SavesIn(r) = {}
  BY <1>6
<1> QED BY <1>4, <1>8, <1>9 DEF r

(* A message that is no save is put into the queue, and perhaps merged. *)
LEMMA MessagePut ==
  ASSUME NEW q, QueueOk(q), NEW m, MessageOk(m), m.type # "save"
  PROVE  /\ QueueOk(Put(q, m))
         /\ Single(SavesIn(q)) => Single(SavesIn(Put(q, m)))
         /\ SavesIn(q) = {} => SavesIn(Put(q, m)) = {}
<1>1. CASE Put(q, m) = Append(q, m)
  BY <1>1, MessageAppended
<1>2. ASSUME NEW n \in DOMAIN q, q[n].type = m.type, m.type \in TextTypes,
             Put(q, m) = Append(RemoveAt(q, n), [m EXCEPT !.ids = q[n].ids \o @])
      PROVE  /\ QueueOk(Put(q, m))
             /\ Single(SavesIn(q)) => Single(SavesIn(Put(q, m)))
             /\ SavesIn(q) = {} => SavesIn(Put(q, m)) = {}
  <2> DEFINE x == q[n].ids \o m.ids
             k == [m EXCEPT !.ids = x]
  <2>1. MessageOk(q[n])
    BY <1>2 DEF QueueOk, In
  <2>2. q[n].ids \in Seq(Id) /\ m.ids \in Seq(Id)
    BY <1>2, <2>1 DEF MessageOk
  <2>3. x \in Seq(Id)
    BY <2>2
  <2> HIDE DEF x
  <2>4. DOMAIN k = {"type", "session", "ids"} /\ k.type = m.type /\ k.session = m.session /\ k.ids = x
    BY <1>2 DEF MessageOk
  <2>5. MessageOk(k) /\ k.type # "save"
    BY <1>2, <2>3, <2>4 DEF MessageOk
  <2>6. Put(q, m) = Append(RemoveAt(q, n), k)
    BY <1>2 DEF x
  <2> HIDE DEF k
  <2>7. /\ QueueOk(RemoveAt(q, n))
        /\ Single(SavesIn(q)) => Single(SavesIn(RemoveAt(q, n)))
        /\ SavesIn(q) = {} => SavesIn(RemoveAt(q, n)) = {}
    <3>1. q[n].type # "save"
      BY <1>2
    <3> QED BY <3>1, MessageRemoved
  <2>8. SavesIn(Append(RemoveAt(q, n), k)) = SavesIn(RemoveAt(q, n)) /\ QueueOk(Append(RemoveAt(q, n), k))
    BY <2>5, <2>7, MessageAppended
  <2> QED BY <2>6, <2>7, <2>8
<1>3. ASSUME NEW barriers, m.type \in TextTypes, Put(q, m) = MergeText(q, m, barriers), Put(q, m) # Append(q, m)
      PROVE  \E n \in DOMAIN q : /\ q[n].type = m.type
                                /\ Put(q, m) = Append(RemoveAt(q, n), [m EXCEPT !.ids = q[n].ids \o @])
  <2> DEFINE stops == {i \in DOMAIN q : q[i].session = m.session /\ q[i].type \in barriers \cup {m.type}}
             last == CHOOSE i \in stops : \A j \in stops : j <= i
  <2>1. stops # {} /\ q[last].type = m.type /\ Put(q, m) = Append(RemoveAt(q, last), [m EXCEPT !.ids = q[last].ids \o @])
    BY <1>3 DEF MergeText
  <2>2. last \in stops
    <3>1. stops \in SUBSET (1 .. Len(q)) /\ Len(q) \in Nat
      BY DEF QueueOk
    <3>2. \E i \in stops : \A j \in stops : j <= i
      <4> HIDE DEF stops
      <4> QED BY <2>1, <3>1, Greatest
    <3> HIDE DEF stops
    <3> QED BY <3>2
  <2> HIDE DEF last
  <2> QED BY <2>1, <2>2
<1>4. CASE m.type = "textinput"
  <2>1. m.type \in TextTypes /\ \E barriers : Put(q, m) = MergeText(q, m, barriers)
    BY <1>4 DEF Put, CombineTextInput, TextTypes
  <2> QED BY <1>1, <1>2, <1>3, <2>1
<1>5. CASE m.type = "removetextcontext"
  <2>1. m.type \in TextTypes /\ \E barriers : Put(q, m) = MergeText(q, m, barriers)
    BY <1>5 DEF Put, CombineRemoveText, TextTypes
  <2> QED BY <1>1, <1>2, <1>3, <2>1
<1>6. CASE m.type \notin {"textinput", "removetextcontext"}
  BY <1>1, <1>6 DEF Put
<1> QED BY <1>4, <1>5, <1>6
-----------------------------------------------------------------------------
(* Callbacks.                                                                 *)

(* One more callback: a result tells nothing about the modified state, and a  *)
(* modified state is the last that its view is told.                          *)
LEMMA CallbackAppended ==
  ASSUME NEW q, CallbacksOk(q), NEW cb, CallbackOk(cb)
  PROVE  LET r == Append(q, cb) IN
         /\ CallbacksOk(r)
         /\ cb.type = "modified" => /\ ResultsIn(r) = ResultsIn(q)
                                    /\ About(r, cb.view) # {} /\ LastIs(r, cb.view, cb.value)
                                    /\ ~cb.value /\ NoneTrue(q) => NoneTrue(r)
         /\ cb.type = "result" => /\ ResultsIn(q) = {} => Single(ResultsIn(r))
                                  /\ NoneTrue(q) => NoneTrue(r)
         /\ \A v, value : cb.type = "result" \/ v # cb.view =>
               About(r, v) = About(q, v) /\ (LastIs(q, v, value) => LastIs(r, v, value))
<1> DEFINE r == Append(q, cb)
           n == Len(q) + 1
<1>1. r \in Seq(In(q) \cup {cb}) /\ In(r) = In(q) \cup {cb}
  <2>1. q \in Seq(In(q) \cup {cb})
    BY DEF CallbacksOk
  <2> QED BY <2>1, InOfOneMore
<1>2. CallbacksOk(r)
  BY <1>1 DEF CallbacksOk
<1>3. /\ DOMAIN q = 1 .. Len(q) /\ Len(q) \in Nat /\ DOMAIN r = 1 .. n
      /\ r[n] = cb /\ \A i \in DOMAIN q : r[i] = q[i]
  BY DEF CallbacksOk
<1>4. n \in DOMAIN r /\ n \notin DOMAIN q /\ DOMAIN r = DOMAIN q \cup {n} /\ \A i \in DOMAIN r : i <= n
  BY <1>3
<1>5. cb.type = "result" => cb.type # "modified"
  OBVIOUS
<1> HIDE DEF r, n
<1>6. ASSUME cb.type = "modified"
      PROVE  /\ ResultsIn(r) = ResultsIn(q) /\ About(r, cb.view) # {} /\ LastIs(r, cb.view, cb.value)
             /\ ~cb.value /\ NoneTrue(q) => NoneTrue(r)
  <2>1. ResultsIn(r) = ResultsIn(q)
    BY <1>3, <1>4, <1>6 DEF ResultsIn
  <2>2. n \in About(r, cb.view)
    BY <1>3, <1>4, <1>6 DEF About
  <2>3. LastIs(r, cb.view, cb.value)
    <3>1. ASSUME NEW i \in About(r, cb.view), \A j \in About(r, cb.view) : j <= i PROVE i = n
      <4>1. i \in DOMAIN r /\ n <= i /\ i <= n
        BY <1>4, <2>2, <3>1 DEF About
      <4> QED BY <1>3, <1>4, <4>1 DEF n
    <3> QED BY <1>3, <3>1 DEF LastIs
  <2>4. ~cb.value /\ NoneTrue(q) => NoneTrue(r)
    BY <1>3, <1>4 DEF NoneTrue
  <2> QED BY <2>1, <2>2, <2>3, <2>4
<1>7. ASSUME cb.type = "result"
      PROVE  (ResultsIn(q) = {} => Single(ResultsIn(r))) /\ (NoneTrue(q) => NoneTrue(r))
  <2>1. ResultsIn(r) \subseteq ResultsIn(q) \cup {n}
    BY <1>3, <1>4 DEF ResultsIn
  <2>2. NoneTrue(q) => NoneTrue(r)
    BY <1>3, <1>4, <1>5, <1>7 DEF NoneTrue
  <2> QED BY <2>1, <2>2 DEF Single
<1>8. ASSUME NEW v, NEW value, cb.type = "result" \/ v # cb.view
      PROVE  About(r, v) = About(q, v) /\ (LastIs(q, v, value) => LastIs(r, v, value))
  <2>1. About(r, v) = About(q, v)
    BY <1>3, <1>4, <1>5, <1>8 DEF About
  <2>2. \A i \in About(q, v) : r[i] = q[i]
    BY <1>3 DEF About
  <2> QED BY <2>1, <2>2 DEF LastIs
<1> QED BY <1>2, <1>6, <1>7, <1>8 DEF r

(* A finite set, put into a sequence. *)
LEMMA Listed ==
  ASSUME NEW S, IsFiniteSet(S)
  PROVE  SetToSeq(S) \in Seq(S) /\ \A x \in S : \E i \in DOMAIN SetToSeq(S) : SetToSeq(S)[i] = x
<1> DEFINE n == Cardinality(S)
           f == SetToSeq(S)
<1>1. n \in Nat /\ \E g : g \in [1 .. n -> S] /\ \A a, b \in DOMAIN g : g[a] = g[b] => a = b
  <2>1. n \in Nat /\ ExistsBijection(1 .. n, S)
    BY FS_CardinalityType
  <2>2. PICK g \in Bijection(1 .. n, S) : TRUE
    BY <2>1 DEF ExistsBijection
  <2>3. g \in [1 .. n -> S] /\ \A a, b \in 1 .. n : g[a] = g[b] => a = b
    BY <2>2 DEF Bijection, Injection, IsInjective
  <2>4. DOMAIN g = 1 .. n
    BY <2>3
  <2> QED BY <2>1, <2>3, <2>4
<1>2. f \in [1 .. n -> S] /\ \A a, b \in DOMAIN f : f[a] = f[b] => a = b
  BY <1>1 DEF SetToSeq, IsInjective
<1> HIDE DEF f
<1>3. f \in Surjection(1 .. n, S)
  <2>1. f \in Injection(1 .. n, S)
    BY <1>2 DEF Injection, IsInjective
  <2>2. Cardinality(1 .. n) = n
    BY <1>1, FS_Interval
  <2> QED BY <2>1, <2>2, FS_Injection
<1>4. \A x \in S : \E i \in 1 .. n : f[i] = x
  BY <1>3 DEF Surjection
<1>5. f \in Seq(S) /\ DOMAIN f = 1 .. n
  BY <1>1, <1>2
<1> QED BY <1>4, <1>5 DEF f

(* What is left alone when the views are told. *)
SameButCallbacks(k, n) ==
  /\ n.alive = k.alive /\ n.document = k.document /\ n.sessions = k.sessions /\ n.running = k.running
  /\ n.queue = k.queue /\ n.modified = k.modified /\ n.bgSaveDisabled = k.bgSaveDisabled
  /\ n.bgSavesOngoing = k.bgSavesOngoing

(* Every loaded view is told, and nobody else anything. *)
LEMMA ViewsTold ==
  ASSUME KitAssumption, NEW k, KitOk(k), NEW value \in BOOLEAN
  PROVE  LET n == TellViews(k, value) IN
         /\ KitOk(n) /\ SameButCallbacks(k, n) /\ ResultsIn(n.callbacks) = ResultsIn(k.callbacks)
         /\ \A v \in LoadedViews(k) : About(n.callbacks, v) # {} /\ LastIs(n.callbacks, v, value)
         /\ ~value /\ NoneTrue(k.callbacks) => NoneTrue(n.callbacks)
<1> DEFINE n == TellViews(k, value)
           c == k.callbacks
           views == SetToSeq(LoadedViews(k))
           t == [i \in 1 .. Len(views) |-> ModifiedStatus(views[i], value)]
           d == c \o t
<1>1. views \in Seq(LoadedViews(k)) /\ \A v \in LoadedViews(k) : \E i \in DOMAIN views : views[i] = v
  <2>1. IsFiniteSet(LoadedViews(k))
    BY FS_Subset DEF KitAssumption, LoadedViews
  <2> QED BY <2>1, Listed
<1>2. n = [k EXCEPT !.callbacks = d]
  BY DEF TellViews
<1>3. n.callbacks = d /\ SameButCallbacks(k, n) /\ DOMAIN n = KitFields
  BY <1>2 DEF KitOk, KitFields, SameButCallbacks
<1> HIDE DEF n, views
<1>4. /\ Len(views) \in Nat /\ DOMAIN views = 1 .. Len(views) /\ DOMAIN t = 1 .. Len(views) /\ Len(t) = Len(views)
      /\ \A i \in 1 .. Len(views) :
           views[i] \in LoadedViews(k) /\ t[i] = [view |-> views[i], type |-> "modified", value |-> value]
  BY <1>1 DEF ModifiedStatus
<1>5. t \in Seq(In(t))
  <2>1. \A i \in 1 .. Len(views) : t[i] \in In(t)
    BY <1>4 DEF In
  <2>2. t \in [1 .. Len(views) -> In(t)]
    <3>1. t = [i \in 1 .. Len(views) |-> t[i]]
      OBVIOUS
    <3> HIDE DEF t
    <3> QED BY <2>1, <3>1
  <2> HIDE DEF t
  <2>3. \A m \in Nat : \A T : [1 .. m -> T] \subseteq Seq(T)
    OBVIOUS
  <2> QED BY <1>4, <2>2, <2>3
<1> HIDE DEF t
<1>6. d \in Seq(In(c) \cup In(t)) /\ In(d) = In(c) \cup In(t)
  <2>1. c \in Seq(In(c) \cup In(t)) /\ t \in Seq(In(c) \cup In(t))
    BY <1>5 DEF KitOk, CallbacksOk
  <2> QED BY <2>1, InOfTwo
<1>7. /\ DOMAIN c = 1 .. Len(c) /\ Len(c) \in Nat /\ DOMAIN d = 1 .. Len(c) + Len(views)
      /\ \A i \in 1 .. Len(c) + Len(views) : d[i] = IF i <= Len(c) THEN c[i] ELSE t[i - Len(c)]
  <2>1. c \in Seq(In(c)) /\ t \in Seq(In(t))
    BY <1>5 DEF KitOk, CallbacksOk
  <2>2. /\ DOMAIN c = 1 .. Len(c) /\ Len(c) \in Nat /\ DOMAIN d = 1 .. Len(c) + Len(t)
        /\ \A i \in 1 .. Len(c) + Len(t) : d[i] = IF i <= Len(c) THEN c[i] ELSE t[i - Len(c)]
    BY <2>1
  <2> QED BY <1>4, <2>2
<1> HIDE DEF d
<1>8. CallbacksOk(d)
  <2>1. \A cb \in In(t) : CallbackOk(cb)
    BY <1>4 DEF In, CallbackOk, LoadedViews
  <2> QED BY <1>6, <2>1 DEF KitOk, CallbacksOk
<1>9. ASSUME NEW i \in DOMAIN d, i \notin DOMAIN c
      PROVE  /\ d[i].type = "modified" /\ d[i].value = value /\ d[i].view \in LoadedViews(k)
             /\ \A j \in DOMAIN c : j < i
  <2>1. i \in 1 .. Len(c) + Len(views) /\ ~(i <= Len(c)) /\ i - Len(c) \in 1 .. Len(views)
    BY <1>4, <1>7, <1>9
  <2>2. d[i] = t[i - Len(c)]
    BY <1>7, <2>1
  <2>3. \A j \in DOMAIN c : j < i
    BY <1>7, <2>1
  <2> QED BY <1>4, <2>1, <2>2, <2>3
<1>10. \A i \in DOMAIN c : i \in DOMAIN d /\ d[i] = c[i]
  BY <1>4, <1>7
<1>11. ResultsIn(d) = ResultsIn(c)
  BY <1>9, <1>10 DEF ResultsIn
<1>12. ASSUME NEW v \in LoadedViews(k) PROVE About(d, v) # {} /\ LastIs(d, v, value)
  <2>1. PICK x \in DOMAIN views : views[x] = v
    BY <1>1
  <2> DEFINE y == x + Len(c)
  <2>2. y \in DOMAIN d /\ y \notin DOMAIN c /\ d[y] = t[x]
    <3>1. y \in 1 .. Len(c) + Len(views) /\ ~(y <= Len(c)) /\ y - Len(c) = x
      BY <1>4, <1>7
    <3>2. d[y] = IF y <= Len(c) THEN c[y] ELSE t[y - Len(c)]
      BY <1>7, <3>1
    <3> QED BY <1>7, <3>1, <3>2
  <2>3. y \in About(d, v)
    BY <1>4, <2>1, <2>2 DEF About
  <2>4. ASSUME NEW i \in About(d, v), \A j \in About(d, v) : j <= i PROVE d[i].value = value
    <3>1. i \in DOMAIN d /\ y <= i
      BY <2>3, <2>4 DEF About
    <3>2. ASSUME i \in DOMAIN c PROVE FALSE
      <4>1. i < y
        BY <1>9, <2>2, <3>2
      <4> QED BY <1>7, <3>1, <3>2, <4>1
    <3> QED BY <1>9, <3>1, <3>2
  <2> QED BY <2>3, <2>4 DEF LastIs
<1>13. ASSUME ~value, NoneTrue(c) PROVE NoneTrue(d)
  BY <1>9, <1>10, <1>13 DEF NoneTrue
<1>14. KitOk(n)
  <2> HIDE DEF c
  <2> QED BY <1>3, <1>8 DEF KitOk, SameButCallbacks
<1> QED BY <1>3, <1>11, <1>12, <1>13, <1>14 DEF n

(* LibreOffice tells when its modified state changes. *)
Told(k, n, value) ==
  /\ KitOk(n) /\ SameButCallbacks(k, n) /\ ResultsIn(n.callbacks) = ResultsIn(k.callbacks)
  /\ core.modified = value => n.callbacks = k.callbacks
  /\ core.modified # value =>
       \A v \in LoadedViews(k) : About(n.callbacks, v) # {} /\ LastIs(n.callbacks, v, value)
  /\ ~value /\ NoneTrue(k.callbacks) => NoneTrue(n.callbacks)

LEMMA CoreTold ==
  ASSUME KitAssumption, NEW k, KitOk(k), NEW value \in BOOLEAN
  PROVE  Told(k, SetCoreModified(k, value), value)
<1>1. CASE core.modified = value
  <2>1. SetCoreModified(k, value) = k
    BY <1>1 DEF SetCoreModified
  <2> QED BY <1>1, <2>1 DEF Told, SameButCallbacks
<1>2. CASE core.modified # value
  <2>1. SetCoreModified(k, value) = TellViews(k, value)
    BY <1>2 DEF SetCoreModified
  <2> QED BY <1>2, <2>1, ViewsTold DEF Told
<1> QED BY <1>1, <1>2

(* An answered save. *)
LEMMA AnsweredOnce ==
  ASSUME NEW w \in WsdState
  PROVE  /\ Answered(w) \in WsdState /\ Answered(w).modified = w.modified /\ Answered(w).sessions = w.sessions
         /\ w.saves \in {0, 1} => Answered(w).saves = 0
<1>1. CASE w.saves > 0
  <2>1. w.saves - 1 \in Nat
    BY <1>1 DEF WsdState
  <2>2. Answered(w) = [w EXCEPT !.saves = w.saves - 1]
    BY <1>1 DEF Answered
  <2> QED BY <2>1, <2>2 DEF WsdState
<1>2. CASE ~(w.saves > 0)
  <2>1. Answered(w) = [w EXCEPT !.unasked = w.unasked + 1] /\ w.unasked + 1 \in Nat
    BY <1>2 DEF Answered, WsdState
  <2> QED BY <1>2, <2>1 DEF WsdState
<1> QED BY <1>1, <1>2

(* Where a drain has got to: the tracked state, and what wsd knows. *)
Drained == [state : DocumentState, wsd : WsdState]
Heard(n) == {i \in 1 .. n : kit.callbacks[i].type = "modified" /\ kit.callbacks[i].view \in LoadedViews(kit)}
DrainedOk(x, n) ==
  /\ x \in Drained
  /\ WsdKnows => (x.wsd.modified <=> x.state # "UnModified")
  /\ wsd.saves \in {0, 1} => x.wsd.saves \in {0, 1}
  /\ ResultsIn(kit.callbacks) = {} => x.wsd.saves = wsd.saves
  /\ x.state = "UnModifiedButSaving" => kit.modified = "UnModifiedButSaving"
  /\ NoneTrue(kit.callbacks) /\ kit.modified = "UnModifiedButSaving" => x.state = "UnModifiedButSaving"
  /\ Heard(n) = {} => x.state = kit.modified
  /\ \A i \in Heard(n) : (\A j \in Heard(n) : j <= i) => (x.state = "Modified" <=> kit.callbacks[i].value)

(* One callback. *)
LEMMA CallbackDrained ==
  ASSUME Types, NEW n \in 1 .. Len(kit.callbacks), NEW x, DrainedOk(x, n - 1)
  PROVE  DrainedOk(LoKitCallback(x, kit.callbacks[n]), n)
<1> DEFINE c == kit.callbacks
           cb == c[n]
           y == LoKitCallback(x, cb)
           New == {i \in {n} : cb.type = "modified" /\ cb.view \in LoadedViews(kit)}
<1>1. DOMAIN c = 1 .. Len(c) /\ Len(c) \in Nat /\ CallbackOk(cb) /\ n \in DOMAIN c /\ n \in Int
  BY DEF Types, KitOk, CallbacksOk, In
<1>2. Heard(n) = Heard(n - 1) \cup New /\ \A i \in Heard(n - 1) : i \in Int /\ i < n
  <2>1. \A i \in 1 .. n : i = n \/ i \in 1 .. n - 1
    BY <1>1
  <2>2. \A i \in 1 .. n - 1 : i \in 1 .. n /\ i \in Int /\ i < n
    BY <1>1
  <2>3. n \in 1 .. n
    BY <1>1
  <2> QED BY <2>1, <2>2, <2>3 DEF Heard
<1>3. x.state \in DocumentState /\ x.wsd \in WsdState /\ x = [state |-> x.state, wsd |-> x.wsd]
  BY DEF DrainedOk, Drained
<1>4. cb.view \in LoadedViews(kit) <=> kit.sessions[cb.view] = "loaded"
  BY <1>1 DEF LoadedViews, CallbackOk
<1> HIDE DEF New
<1>5. CASE kit.sessions[cb.view] # "loaded"
  <2>1. y = x /\ New = {}
    BY <1>4, <1>5 DEF LoKitCallback, New
  <2>2. Heard(n) = Heard(n - 1)
    BY <1>2, <2>1
  <2> HIDE DEF y
  <2> QED BY <2>1, <2>2 DEF DrainedOk, y
<1>6. CASE kit.sessions[cb.view] = "loaded" /\ cb.type = "result"
  <2>1. New = {}
    BY <1>6 DEF New
  <2>2. Heard(n) = Heard(n - 1)
    BY <1>2, <2>1
  <2>3. y = [x EXCEPT !.wsd = Answered(x.wsd)]
    BY <1>6 DEF LoKitCallback
  <2>4. y.state = x.state /\ y.wsd = Answered(x.wsd) /\ y \in Drained
    <3>1. Answered(x.wsd) \in WsdState
      BY <1>3, AnsweredOnce
    <3> QED BY <1>3, <2>3, <3>1 DEF DrainedOk, Drained
  <2>5. y.wsd.modified = x.wsd.modified /\ (x.wsd.saves \in {0, 1} => y.wsd.saves = 0)
    BY <1>3, <2>4, AnsweredOnce
  <2>6. ResultsIn(c) # {}
    BY <1>1, <1>6 DEF ResultsIn
  <2> HIDE DEF y
  <2> QED BY <2>2, <2>4, <2>5, <2>6 DEF DrainedOk, y
<1>7. CASE kit.sessions[cb.view] = "loaded" /\ cb.type # "result"
  <2> DEFINE value == IF x.state = "UnModifiedButSaving" /\ ~cb.value THEN x.wsd.modified ELSE cb.value
  <2>1. cb.type = "modified" /\ cb.value \in BOOLEAN
    BY <1>1, <1>7 DEF CallbackOk
  <2>2. Heard(n) = Heard(n - 1) \cup {n}
    BY <1>2, <1>4, <1>7, <2>1 DEF New
  <2>3. y = [state |-> TrackDocModified(x.state, cb.value), wsd |-> [x.wsd EXCEPT !.modified = value]]
    BY <1>7 DEF LoKitCallback
  <2>4. value \in BOOLEAN /\ [x.wsd EXCEPT !.modified = value] \in WsdState
    <3>1. value \in BOOLEAN
      BY <1>3, <2>1 DEF WsdState
    <3> HIDE DEF value
    <3> QED BY <1>3, <3>1 DEF WsdState
  <2>5. /\ y.state = TrackDocModified(x.state, cb.value) /\ y.wsd \in WsdState
        /\ y.wsd.saves = x.wsd.saves /\ y.wsd.modified = value
    BY <1>3, <2>3, <2>4 DEF WsdState
  <2>6. /\ cb.value => y.state = "Modified"
        /\ ~cb.value => y.state = IF x.state = "UnModifiedButSaving" THEN x.state ELSE "UnModified"
    BY <2>5 DEF TrackDocModified
  <2>7. y \in Drained
    <3>1. y.state \in DocumentState
      BY <2>1, <2>6 DEF DocumentState
    <3> QED BY <2>3, <2>5, <3>1 DEF Drained
  <2>8. WsdKnows => (y.wsd.modified <=> y.state # "UnModified")
    <3>1. CASE cb.value
      BY <2>5, <2>6, <3>1
    <3>2. CASE ~cb.value /\ x.state = "UnModifiedButSaving"
      BY <2>5, <2>6, <3>2 DEF DrainedOk
    <3>3. CASE ~cb.value /\ x.state # "UnModifiedButSaving"
      BY <2>5, <2>6, <3>3
    <3> QED BY <3>1, <3>2, <3>3
  <2>9. ASSUME NEW i \in Heard(n), \A j \in Heard(n) : j <= i PROVE y.state = "Modified" <=> c[i].value
    <3>1. i = n
      BY <1>1, <1>2, <2>2, <2>9
    <3> HIDE DEF y
    <3>2. y.state = "Modified" <=> cb.value
      BY <2>6
    <3> QED BY <3>1, <3>2
  <2>10. NoneTrue(c) => ~cb.value
    BY <1>1, <2>1 DEF NoneTrue
  <2> HIDE DEF y, value
  <2>11. /\ y.state = "UnModifiedButSaving" => kit.modified = "UnModifiedButSaving"
         /\ NoneTrue(c) /\ kit.modified = "UnModifiedButSaving" => y.state = "UnModifiedButSaving"
    BY <2>6, <2>10 DEF DrainedOk
  <2>12. /\ wsd.saves \in {0, 1} => y.wsd.saves \in {0, 1}
         /\ ResultsIn(kit.callbacks) = {} => y.wsd.saves = wsd.saves
    BY <2>5 DEF DrainedOk
  <2> QED BY <2>2, <2>7, <2>8, <2>9, <2>11, <2>12 DEF DrainedOk, y
<1> QED BY <1>5, <1>6, <1>7

(* All of them. *)
LEMMA AllDrained ==
  ASSUME Types, DrainCallbacks
  PROVE  /\ kit' = [kit EXCEPT !.modified = kit'.modified, !.callbacks = <<>>]
         /\ \E x : x.state = kit'.modified /\ x.wsd = wsd' /\ DrainedOk(x, Len(kit.callbacks))
<1> DEFINE last == Len(kit.callbacks)
           base == [state |-> kit.modified, wsd |-> wsd]
           F(h) == [n \in 0 .. last |-> IF n = 0 THEN base ELSE LoKitCallback(h[n - 1], kit.callbacks[n])]
<1>1. last \in Nat /\ 0 \in 0 .. last /\ last \in 0 .. last /\ \A n \in 1 .. last : n - 1 \in 0 .. last /\ n \in 0 .. last
  BY DEF Types, KitOk, CallbacksOk
<1>2. base \in Drained
  BY DEF Types, KitOk, Drained
<1>3. \A x \in Drained : \A n \in 1 .. last : LoKitCallback(x, kit.callbacks[n]) \in Drained
  <2> SUFFICES ASSUME NEW x \in Drained, NEW n \in 1 .. last PROVE LoKitCallback(x, kit.callbacks[n]) \in Drained
    OBVIOUS
  <2> DEFINE cb == kit.callbacks[n]
  <2>1. cb.value \in BOOLEAN /\ x.state \in DocumentState /\ x.wsd \in WsdState /\ x.wsd.modified \in BOOLEAN
    <3>1. n \in DOMAIN kit.callbacks
      BY DEF Types, KitOk, CallbacksOk
    <3> QED BY <3>1 DEF Types, KitOk, CallbacksOk, CallbackOk, In, Drained, WsdState
  <2> HIDE DEF cb
  <2>2. Answered(x.wsd) \in WsdState
    BY <2>1, AnsweredOnce
  <2>3. TrackDocModified(x.state, cb.value) \in DocumentState
    BY <2>1 DEF TrackDocModified, DocumentState
  <2>4. \A v \in BOOLEAN : [x.wsd EXCEPT !.modified = v] \in WsdState
    BY <2>1 DEF WsdState
  <2>5. (IF x.state = "UnModifiedButSaving" /\ ~cb.value THEN x.wsd.modified ELSE cb.value) \in BOOLEAN
    BY <2>1
  <2>6. CASE kit.sessions[cb.view] # "loaded"
    BY <2>6 DEF LoKitCallback, cb
  <2>7. CASE kit.sessions[cb.view] = "loaded" /\ cb.type = "result"
    <3>1. LoKitCallback(x, cb) = [x EXCEPT !.wsd = Answered(x.wsd)]
      BY <2>7 DEF LoKitCallback
    <3>2. [x EXCEPT !.wsd = Answered(x.wsd)] \in Drained
      BY <2>2 DEF Drained
    <3> QED BY <3>1, <3>2 DEF cb
  <2>8. CASE kit.sessions[cb.view] = "loaded" /\ cb.type # "result"
    <3> DEFINE value == IF x.state = "UnModifiedButSaving" /\ ~cb.value THEN x.wsd.modified ELSE cb.value
    <3>1. LoKitCallback(x, cb) = [state |-> TrackDocModified(x.state, cb.value), wsd |-> [x.wsd EXCEPT !.modified = value]]
      BY <2>8 DEF LoKitCallback
    <3>2. value \in BOOLEAN
      BY <2>5
    <3> HIDE DEF value
    <3>3. [x.wsd EXCEPT !.modified = value] \in WsdState
      BY <2>4, <3>2
    <3>4. LoKitCallback(x, cb) \in Drained
      BY <2>3, <3>1, <3>3 DEF Drained
    <3> QED BY <3>4 DEF cb
  <2> QED BY <2>6, <2>7, <2>8
<1>4. \E h : h = F(h)
  <2> DEFINE step == [x \in Drained |-> [n \in 1 .. last |-> LoKitCallback(x, kit.callbacks[n])]]
  <2>1. step \in [Drained -> [1 .. last -> Drained]]
    BY <1>3
  <2>2. \A x \in Drained : \A n \in 1 .. last : step[x][n] = LoKitCallback(x, kit.callbacks[n])
    OBVIOUS
  <2> HIDE DEF step, last, base
  <2>3. PICK h \in [0 .. last -> Drained] : FoldsAlong(h, base, step, last)
    BY <1>1, <1>2, <2>1, FoldExists
  <2>4. h[0] = base /\ \A n \in 1 .. last : h[n] = step[h[n - 1]][n]
    BY <2>3 DEF FoldsAlong
  <2>5. ASSUME NEW n \in 0 .. last
        PROVE  h[n] = IF n = 0 THEN base ELSE LoKitCallback(h[n - 1], kit.callbacks[n])
    <3>1. n # 0 => n \in 1 .. last /\ n - 1 \in 0 .. last
      BY <1>1
    <3>2. n # 0 => h[n - 1] \in Drained
      BY <3>1
    <3> QED BY <2>2, <2>4, <3>1, <3>2
  <2>6. h = F(h)
    BY <2>5
  <2> QED BY <2>6
<1>5. PICK h : h = F(h) /\ kit' = [kit EXCEPT !.modified = h[last].state, !.callbacks = <<>>] /\ wsd' = h[last].wsd
  BY <1>4 DEF DrainCallbacks
<1>6. h[0] = base /\ \A n \in 1 .. last : h[n] = LoKitCallback(h[n - 1], kit.callbacks[n])
  <2>1. \A n \in 0 .. last : h[n] = F(h)[n]
    BY <1>5
  <2>2. F(h)[0] = base
    BY <1>1
  <2>3. ASSUME NEW n \in 1 .. last PROVE F(h)[n] = LoKitCallback(h[n - 1], kit.callbacks[n])
    BY <1>1
  <2> HIDE DEF F
  <2> QED BY <1>1, <2>1, <2>2, <2>3
<1> HIDE DEF F
<1> DEFINE P == {n \in 0 .. last : DrainedOk(h[n], n)}
<1>7. 0 \in P
  <2>1. Heard(0) = {}
    BY DEF Heard
  <2>2. base.state = kit.modified /\ base.wsd = wsd
    OBVIOUS
  <2> HIDE DEF base
  <2>3. DrainedOk(base, 0)
    BY <1>2, <2>1, <2>2 DEF DrainedOk, WsdKnows
  <2> HIDE DEF last
  <2> QED BY <1>1, <1>6, <2>3
<1>8. ASSUME NEW n \in 1 .. last, n - 1 \in P PROVE n \in P
  <2>1. DrainedOk(h[n - 1], n - 1)
    BY <1>8
  <2>2. DrainedOk(LoKitCallback(h[n - 1], kit.callbacks[n]), n)
    BY <2>1, CallbackDrained
  <2> HIDE DEF last
  <2> QED BY <1>1, <1>6, <2>2
<1>9. last \in P
  <2> HIDE DEF P, last
  <2>1. \A n \in 0 .. last : n \in P
    BY <1>1, <1>7, <1>8, Stepwise
  <2> QED BY <1>1, <2>1
<1>10. DrainedOk(h[last], last)
  BY <1>9
<1> HIDE DEF P, last
<1>11. kit'.modified = h[last].state
  BY <1>5 DEF Types, KitOk, KitFields
<1> QED BY <1>5, <1>10, <1>11 DEF last

-----------------------------------------------------------------------------
(* Frames.                                                                    *)

(* A step that starts and ends no save. *)
LEMMA OneSaveKept ==
  ASSUME OneSave, wsd'.saves = wsd.saves,
         Single(SavesIn(toKit)) => Single(SavesIn(toKit')), Sent' => Sent,
         Single(SavesIn(kit.queue)) => Single(SavesIn(kit'.queue)), Queued' => Queued,
         Running' => Running, ResultsIn(kit'.callbacks) \subseteq ResultsIn(kit.callbacks),
         Single(Open) => Single(Open'), Forked' => Forked
  PROVE  OneSave'
<1>1. (Single(ResultsIn(kit.callbacks)) => Single(ResultsIn(kit'.callbacks))) /\ (Answers' => Answers)
  BY DEF Single, Answers
<1> QED BY <1>1 DEF OneSave

(* A step in which neither callbacks nor saves move. *)
LEMMA StateKept ==
  ASSUME StateOk, kit'.callbacks = kit.callbacks, kit'.modified = kit.modified,
         LoadedViews(kit') \subseteq LoadedViews(kit),
         core'.modified = core.modified, core'.applied = core.applied, disk' = disk,
         wsd'.modified = wsd.modified, raced' = raced,
         \A p \in Open : \E q \in Open' : q.content = p.content,
         \A q \in procs' : q.phase = "saving" => q \in procs
  PROVE  StateOk'
<1>1. Applied' = Applied /\ (Forked => Forked')
  BY DEF Applied, Forked
<1>2. LastIsTrue'
  BY DEF StateOk, LastIsTrue
<1>3. QuietIsTrue'
  BY DEF StateOk, QuietIsTrue
<1>4. WsdKnows' /\ ForcedIsSaving'
  BY <1>1 DEF StateOk, WsdKnows, ForcedIsSaving
<1>5. ~raced' => NothingStale'
  BY DEF StateOk, NothingStale
<1>6. ~raced' => UnmodifiedIsKept'
  BY <1>1 DEF StateOk, UnmodifiedIsKept
<1> QED BY <1>2, <1>3, <1>4, <1>5, <1>6 DEF StateOk

(* Nothing moves but messages, what runs, and who is there. *)
LEMMA NothingSaved ==
  ASSUME KitInv, Types', OneSave', kit'.alive => kit.alive,
         kit'.callbacks = kit.callbacks, kit'.modified = kit.modified,
         LoadedViews(kit') \subseteq LoadedViews(kit),
         core'.modified = core.modified, core'.applied = core.applied, disk' = disk,
         wsd'.modified = wsd.modified, raced' = raced,
         procs' \subseteq procs, kit'.alive => procs' = procs
  PROVE  KitInv'
<1>1. Applied' = Applied
  BY DEF Applied
<1>2. ProcsOk' /\ FileOk'
  BY <1>1 DEF KitInv, ProcsOk, FileOk
<1>3. ASSUME kit'.alive PROVE StateOk'
  <2>1. Open' = Open /\ StateOk
    BY <1>3 DEF Open, KitInv
  <2>2. \A p \in Open : \E q \in Open' : q.content = p.content
    BY <2>1
  <2> QED BY <1>3, <2>1, <2>2, StateKept
<1> QED BY <1>2, <1>3 DEF KitInv

(* The same, and no save moves. *)
LEMMA OnlyMessages ==
  ASSUME OneSave, wsd'.saves = wsd.saves,
         Single(SavesIn(toKit)) => Single(SavesIn(toKit')), Sent' => Sent,
         Single(SavesIn(kit.queue)) => Single(SavesIn(kit'.queue)), Queued' => Queued,
         Running' => Running, kit'.callbacks = kit.callbacks, procs' \subseteq procs
  PROVE  OneSave'
<1>1. Open' \subseteq Open
  BY DEF Open
<1>2. (Single(Open) => Single(Open')) /\ (Forked' => Forked)
  BY <1>1 DEF Single, Forked
<1>3. ResultsIn(kit'.callbacks) \subseteq ResultsIn(kit.callbacks)
  OBVIOUS
<1> QED BY <1>2, <1>3, OneSaveKept

(* The types, where only the Kit changes. *)
LEMMA KitTypes ==
  ASSUME Types, KitOk(kit'), core' = core, wsd' = wsd, toKit' = toKit, raced' = raced,
         count' = count \/ \E event \in {"requests", "events"} : count' = [count EXCEPT ![event] = @ + 1]
  PROVE  Types'
<1>1. count' \in [requests : Nat, events : Nat]
  BY DEF Types
<1>2. CoreOk'
  BY DEF Types, CoreOk
<1> QED BY <1>1, <1>2 DEF Types

LEMMA Counted ==
  ASSUME NEW event \in {"requests", "events"}, NEW max, Counts(event, max)
  PROVE  \E e \in {"requests", "events"} : count' = [count EXCEPT ![e] = @ + 1]
<1>1. count' = [count EXCEPT ![event] = @ + 1]
  BY DEF Counts
<1> QED BY <1>1

-----------------------------------------------------------------------------
(* The Kit takes messages.                                                    *)

(* A drain: nothing of the file or of the children moves, and the tracked     *)
(* state becomes that of LibreOffice.                                         *)
LEMMA Drains ==
  ASSUME KitInv, DrainCallbacks
  PROVE  KitInv'
<1>1. Types /\ kit.alive /\ UNCHANGED <<core, procs, disk, toKit, raced, count>>
  BY DEF KitInv, DrainCallbacks
<1>2. PICK x : /\ kit' = [kit EXCEPT !.modified = kit'.modified, !.callbacks = <<>>]
               /\ x.state = kit'.modified /\ x.wsd = wsd' /\ DrainedOk(x, Len(kit.callbacks))
  BY <1>1, AllDrained
<1>3. /\ kit'.modified \in DocumentState /\ wsd' \in WsdState /\ StateOk
      /\ x.state = kit'.modified /\ x.wsd = wsd'
  BY <1>1, <1>2 DEF DrainedOk, Drained, KitInv
<1>4. /\ DOMAIN kit' = KitFields /\ kit'.callbacks = <<>> /\ kit'.sessions = kit.sessions /\ kit'.running = kit.running
      /\ kit'.queue = kit.queue
  BY <1>1, <1>2 DEF Types, KitOk, KitFields
<1>5. <<>> \in Seq(In(<<>>)) /\ In(<<>>) = {} /\ DOMAIN <<>> = {}
  <2>1. \A S : <<>> \in Seq(S)
    OBVIOUS
  <2> QED BY <2>1 DEF In
<1>6. Types'
  <2>1. KitOk(kit')
    BY <1>1, <1>3, <1>4, <1>5 DEF Types, KitOk, CallbacksOk
  <2>2. CoreOk'
    BY <1>1 DEF Types, CoreOk
  <2> QED BY <1>1, <1>3, <2>1, <2>2 DEF Types
<1>7. OneSave'
  <2>1. ResultsIn(kit'.callbacks) = {} /\ Open' = Open
    BY <1>1, <1>4, <1>5 DEF ResultsIn, Open
  <2>2. (Sent' <=> Sent) /\ (Queued' <=> Queued) /\ (Running' <=> Running) /\ ~Answers' /\ (Forked' <=> Forked)
    BY <1>1, <1>4, <2>1 DEF Sent, Queued, Running, Answers, Forked
  <2>3. wsd'.saves \in {0, 1} /\ (~Answers => wsd'.saves = wsd.saves)
    BY <1>2, <1>3 DEF DrainedOk, Answers, KitInv, OneSave
  <2>4. OneSave
    BY DEF KitInv
  <2>5. Single(ResultsIn(kit'.callbacks))
    BY <2>1 DEF Single
  <2>6. CASE Answers
    BY <1>1, <1>4, <2>1, <2>2, <2>3, <2>4, <2>5, <2>6 DEF OneSave
  <2>7. CASE ~Answers
    BY <1>1, <1>4, <2>1, <2>2, <2>3, <2>4, <2>5, <2>7 DEF OneSave
  <2> QED BY <2>6, <2>7
<1>8. Applied' = Applied /\ Open' = Open /\ LoadedViews(kit') = LoadedViews(kit)
  BY <1>1, <1>4 DEF Applied, Open, LoadedViews
<1>9. ProcsOk' /\ FileOk'
  BY <1>1, <1>8 DEF KitInv, ProcsOk, FileOk
<1>10. StateOk'
  <2>1. \A v : About(kit'.callbacks, v) = {}
    BY <1>4, <1>5 DEF About
  <2>2. LastIsTrue'
    BY <2>1 DEF LastIsTrue, LastIs
  <2>3. QuietIsTrue'
    <3> SUFFICES ASSUME NEW v \in LoadedViews(kit) PROVE kit'.modified = "Modified" <=> core.modified
      BY <1>1, <1>8 DEF QuietIsTrue
    <3> DEFINE H == Heard(Len(kit.callbacks))
    <3>1. H \in SUBSET (1 .. Len(kit.callbacks)) /\ Len(kit.callbacks) \in Nat /\ DOMAIN kit.callbacks = 1 .. Len(kit.callbacks)
      BY <1>1 DEF Heard, Types, KitOk, CallbacksOk
    <3>2. CASE H = {}
      <4>1. kit'.modified = kit.modified
        BY <1>2, <3>2 DEF DrainedOk
      <4>2. About(kit.callbacks, v) = {}
        BY <3>1, <3>2 DEF About, Heard
      <4> QED BY <1>3, <4>1, <4>2 DEF StateOk, QuietIsTrue
    <3>3. CASE H # {}
      <4>1. PICK i \in H : \A j \in H : j <= i
        <5> HIDE DEF H
        <5> QED BY <3>1, <3>3, Greatest
      <4>2. kit'.modified = "Modified" <=> kit.callbacks[i].value
        BY <1>2, <4>1 DEF DrainedOk
      <4> DEFINE u == kit.callbacks[i].view
      <4>3. u \in LoadedViews(kit) /\ About(kit.callbacks, u) \subseteq H /\ i \in About(kit.callbacks, u)
        BY <3>1, <4>1 DEF About, Heard
      <4>4. LastIs(kit.callbacks, u, core.modified)
        BY <1>3, <4>3 DEF StateOk, LastIsTrue
      <4>5. kit.callbacks[i].value = core.modified
        BY <4>1, <4>3, <4>4 DEF LastIs
      <4> QED BY <4>2, <4>5
    <3> QED BY <3>2, <3>3
  <2>4. WsdKnows'
    BY <1>2, <1>3 DEF DrainedOk, StateOk, WsdKnows
  <2>5. kit'.modified = "UnModifiedButSaving" => kit.modified = "UnModifiedButSaving"
    BY <1>2 DEF DrainedOk
  <2>6. ForcedIsSaving'
    BY <1>3, <1>8, <2>5 DEF StateOk, ForcedIsSaving, Forked
  <2>7. NothingStale'
    BY <1>4, <1>5 DEF NothingStale, NoneTrue
  <2>8. ~raced' => UnmodifiedIsKept'
    <3> SUFFICES ASSUME ~raced, ~core.modified
                 PROVE  \/ disk = Applied /\ \A p \in procs : p.phase = "saving" => p.content = Applied
                        \/ kit'.modified = "UnModifiedButSaving" /\ \E p \in Open : p.content = Applied
      BY <1>1, <1>8 DEF UnmodifiedIsKept
    <3>1. UnmodifiedIsKept /\ NothingStale
      BY <1>3 DEF StateOk
    <3>2. ASSUME kit.modified = "UnModifiedButSaving" PROVE kit'.modified = "UnModifiedButSaving"
      BY <1>2, <3>1, <3>2 DEF DrainedOk, NothingStale
    <3> QED BY <3>1, <3>2 DEF UnmodifiedIsKept
  <2> QED BY <2>2, <2>3, <2>4, <2>6, <2>7, <2>8 DEF StateOk
<1> QED BY <1>6, <1>7, <1>9, <1>10 DEF KitInv

(* A message from wsd. *)
LEMMA Receives ==
  ASSUME KitInv, ReceiveMessage
  PROVE  KitInv'
<1> DEFINE msg == Head(toKit)
<1>1. /\ Types /\ OneSave /\ kit.alive /\ kit.running = NoOp /\ toKit # <<>> /\ QueueOk(toKit) /\ toKit' = Tail(toKit)
      /\ UNCHANGED <<core, procs, disk, wsd, raced, count>> /\ KitOk(kit)
  BY DEF KitInv, ReceiveMessage, ProcessInputEnabled, Types
<1>2. /\ QueueOk(toKit') /\ MessageOk(msg)
      /\ Single(SavesIn(toKit)) => Single(SavesIn(toKit'))
      /\ Sent' => Sent
      /\ msg.type = "save" => Sent
      /\ msg.type = "save" /\ Single(SavesIn(toKit)) => ~Sent'
  BY <1>1, MessageTaken DEF Sent
<1>3. (msg.type = "session" /\ kit' = CreateSession(kit, msg.session))
      \/ (msg.type # "session" /\ kit' = [kit EXCEPT !.queue = Put(kit.queue, msg)])
  BY DEF ReceiveMessage
<1>4. CoreOk'
  BY <1>1 DEF Types, CoreOk
<1> HIDE DEF msg
<1>5. CASE msg.type = "session"
  <2> DEFINE f == [kit.sessions EXCEPT ![msg.session] = IF @ = "none" THEN "created" ELSE @]
  <2>1. kit' = [kit EXCEPT !.document = TRUE, !.sessions = f]
    BY <1>3, <1>5 DEF CreateSession
  <2>2. /\ DOMAIN f = Session
        /\ \A v \in Session : f[v] = IF v = msg.session /\ kit.sessions[v] = "none" THEN "created" ELSE kit.sessions[v]
    BY <1>1, <1>2 DEF KitOk, MessageOk
  <2> HIDE DEF f
  <2>3. /\ DOMAIN kit' = KitFields /\ kit'.sessions = f /\ kit'.alive = kit.alive /\ kit'.running = kit.running
        /\ kit'.queue = kit.queue /\ kit'.callbacks = kit.callbacks /\ kit'.modified = kit.modified
    BY <1>1, <2>1 DEF KitOk, KitFields
  <2>4. LoadedViews(kit') \subseteq LoadedViews(kit)
    BY <2>2, <2>3 DEF LoadedViews
  <2>5. KitOk(kit')
    BY <1>1, <2>2, <2>3 DEF KitOk
  <2>6. Types'
    BY <1>1, <1>2, <1>4, <2>5 DEF Types
  <2>7. OneSave'
    BY <1>1, <1>2, <2>3, OnlyMessages DEF Queued, Running
  <2> QED BY <1>1, <2>3, <2>4, <2>6, <2>7, NothingSaved
<1>6. CASE msg.type # "session"
  <2> DEFINE q == Put(kit.queue, msg)
  <2>1. kit' = [kit EXCEPT !.queue = q]
    BY <1>3, <1>6
  <2>2. QueueOk(kit.queue)
    BY <1>1 DEF KitOk
  <2>3. /\ QueueOk(q)
        /\ msg.type # "save" /\ Single(SavesIn(kit.queue)) => Single(SavesIn(q))
        /\ msg.type # "save" /\ SavesIn(kit.queue) = {} => SavesIn(q) = {}
        /\ msg.type = "save" /\ SavesIn(kit.queue) = {} => Single(SavesIn(q))
    <3>1. CASE msg.type = "save"
      <4>1. q = Append(kit.queue, msg)
        BY <3>1 DEF Put
      <4> QED BY <1>2, <2>2, <3>1, <4>1, MessageAppended
    <3>2. CASE msg.type # "save"
      BY <1>2, <2>2, <3>2, MessagePut
    <3> QED BY <3>1, <3>2
  <2> HIDE DEF q
  <2>4. /\ DOMAIN kit' = KitFields /\ kit'.sessions = kit.sessions /\ kit'.alive = kit.alive /\ kit'.running = kit.running
        /\ kit'.queue = q /\ kit'.callbacks = kit.callbacks /\ kit'.modified = kit.modified
    BY <1>1, <2>1 DEF KitOk, KitFields
  <2>5. LoadedViews(kit') = LoadedViews(kit)
    BY <2>4 DEF LoadedViews
  <2>6. KitOk(kit')
    BY <1>1, <2>3, <2>4 DEF KitOk
  <2>7. Types'
    BY <1>1, <1>2, <1>4, <2>6 DEF Types
  <2>8. OneSave'
    <3>1. CASE msg.type # "save"
      <4>1. Queued' => Queued
        BY <2>3, <2>4, <3>1 DEF Queued
      <4> QED BY <1>1, <1>2, <2>3, <2>4, <3>1, <4>1, OnlyMessages DEF Running
    <3>2. CASE msg.type = "save"
      <4>1. ~Sent' /\ Sent /\ Single(SavesIn(toKit'))
        BY <1>1, <1>2, <3>2 DEF OneSave
      <4>2. ~Queued /\ ~Running /\ ~Answers /\ ~Forked /\ wsd.saves = 1
        BY <1>1, <4>1 DEF OneSave
      <4>3. ~Running' /\ ~Answers' /\ ~Forked' /\ Open' = Open
        BY <1>1, <2>4, <4>2 DEF Running, Answers, Forked, Open
      <4>4. Single(SavesIn(kit'.queue))
        BY <2>3, <2>4, <3>2, <4>2 DEF Queued
      <4>5. wsd' = wsd /\ kit'.callbacks = kit.callbacks
        BY <1>1, <2>4
      <4> QED BY <1>1, <4>1, <4>2, <4>3, <4>4, <4>5 DEF OneSave
    <3> QED BY <3>1, <3>2
  <2> QED BY <1>1, <2>4, <2>5, <2>7, <2>8, NothingSaved
<1> QED BY <1>5, <1>6

(* The first message of the queue. *)
LEMMA Pops ==
  ASSUME Types, NEW types, HandleInput(types)
  PROVE  /\ KitOk(Popped) /\ Popped.queue = Tail(kit.queue) /\ Popped.sessions = kit.sessions
         /\ Popped.alive = kit.alive /\ Popped.running = kit.running /\ Popped.callbacks = kit.callbacks
         /\ Popped.modified = kit.modified
         /\ MessageOk(Head(kit.queue)) /\ Head(kit.queue).type \in types
         /\ kit.alive /\ kit.running = NoOp
         /\ Single(SavesIn(kit.queue)) => Single(SavesIn(Popped.queue))
         /\ SavesIn(kit.queue) = {} => SavesIn(Popped.queue) = {}
         /\ Head(kit.queue).type = "save" => Queued
         /\ Head(kit.queue).type = "save" /\ Single(SavesIn(kit.queue)) => SavesIn(Popped.queue) = {}
<1>1. QueueOk(kit.queue) /\ kit.queue # <<>> /\ Head(kit.queue).type \in types /\ kit.alive /\ kit.running = NoOp
  BY DEF Types, KitOk, HandleInput, ProcessInputEnabled
<1>2. /\ QueueOk(Tail(kit.queue)) /\ MessageOk(Head(kit.queue))
      /\ Single(SavesIn(kit.queue)) => Single(SavesIn(Tail(kit.queue)))
      /\ SavesIn(kit.queue) = {} => SavesIn(Tail(kit.queue)) = {}
      /\ Head(kit.queue).type = "save" => SavesIn(kit.queue) # {}
      /\ Head(kit.queue).type = "save" /\ Single(SavesIn(kit.queue)) => SavesIn(Tail(kit.queue)) = {}
  BY <1>1, MessageTaken
<1>3. /\ DOMAIN Popped = KitFields /\ Popped.queue = Tail(kit.queue) /\ Popped.sessions = kit.sessions
      /\ Popped.alive = kit.alive /\ Popped.running = kit.running /\ Popped.callbacks = kit.callbacks
      /\ Popped.modified = kit.modified
  BY DEF Types, KitOk, KitFields, Popped
<1>4. KitOk(Popped)
  BY <1>2, <1>3 DEF Types, KitOk
<1> QED BY <1>1, <1>2, <1>3, <1>4 DEF Queued

-----------------------------------------------------------------------------
(* Views come and go.                                                         *)

LEMMA StartsLoad ==
  ASSUME KitInv, StartLoad
  PROVE  KitInv'
<1> DEFINE s == Head(kit.queue).session
<1>1. Types /\ OneSave /\ HandleInput({"load"}) /\ UNCHANGED <<core, procs, disk, toKit, wsd, raced, count>>
  BY DEF KitInv, StartLoad
<1>2. /\ KitOk(Popped) /\ Popped.sessions = kit.sessions /\ Popped.alive = kit.alive /\ Popped.running = kit.running
      /\ Popped.callbacks = kit.callbacks /\ Popped.modified = kit.modified
      /\ s \in Session /\ kit.running = NoOp /\ kit.alive
      /\ Single(SavesIn(kit.queue)) => Single(SavesIn(Popped.queue))
      /\ SavesIn(kit.queue) = {} => SavesIn(Popped.queue) = {}
  BY <1>1, Pops DEF MessageOk
<1>3. kit' = Popped \/ kit' = [Popped EXCEPT !.running = [op |-> "load", session |-> s]]
  BY DEF StartLoad
<1>4. /\ DOMAIN kit' = KitFields /\ kit'.sessions = kit.sessions /\ kit'.alive = kit.alive /\ kit'.queue = Popped.queue
      /\ kit'.callbacks = kit.callbacks /\ kit'.modified = kit.modified
      /\ kit'.running = NoOp \/ kit'.running = [op |-> "load", session |-> s]
  BY <1>2, <1>3 DEF KitOk, KitFields
<1>5. KitOk(kit')
  BY <1>2, <1>4 DEF KitOk, NoOp
<1>6. LoadedViews(kit') = LoadedViews(kit) /\ ~Running'
  BY <1>4 DEF LoadedViews, Running, NoOp
<1>7. Types'
  BY <1>1, <1>5, KitTypes
<1>8. OneSave'
  <2>1. (Queued' => Queued) /\ (Sent' => Sent)
    BY <1>1, <1>2, <1>4 DEF Queued, Sent
  <2> QED BY <1>1, <1>2, <1>4, <1>6, <2>1, OnlyMessages
<1> QED BY <1>1, <1>2, <1>4, <1>6, <1>7, <1>8, NothingSaved

(* The new view is told the state of LibreOffice. *)
LEMMA FinishesLoad ==
  ASSUME KitInv, FinishLoad
  PROVE  KitInv'
<1> DEFINE s == kit.running.session
           cb == ModifiedStatus(s, core.modified)
           f == [kit.sessions EXCEPT ![s] = "loaded"]
           q == Append(kit.callbacks, cb)
<1>1. /\ Types /\ OneSave /\ kit.alive /\ kit.running.op = "load" /\ UNCHANGED <<procs, disk, toKit, wsd, raced, count>>
      /\ StateOk /\ KitOk(kit)
  BY DEF KitInv, FinishLoad, Types
<1>2. s \in Session /\ CallbacksOk(kit.callbacks)
  BY <1>1 DEF Types, KitOk
<1>3. CallbackOk(cb) /\ cb.type = "modified" /\ cb.view = s /\ cb.value = core.modified
  BY <1>1, <1>2 DEF CallbackOk, ModifiedStatus, Types, CoreOk
<1>4. kit' = [kit EXCEPT !.sessions = f, !.running = NoOp, !.callbacks = q] /\ core' = [core EXCEPT !.loaded = TRUE]
  BY DEF FinishLoad, PutState
<1>5. DOMAIN f = Session /\ \A v \in Session : f[v] = IF v = s THEN "loaded" ELSE kit.sessions[v]
  BY <1>1, <1>2 DEF KitOk
<1> HIDE DEF cb
<1>6. /\ CallbacksOk(q) /\ ResultsIn(q) = ResultsIn(kit.callbacks)
      /\ About(q, s) # {} /\ LastIs(q, s, core.modified)
      /\ ~core.modified /\ NoneTrue(kit.callbacks) => NoneTrue(q)
      /\ \A v, value : v # s => About(q, v) = About(kit.callbacks, v)
                                /\ (LastIs(kit.callbacks, v, value) => LastIs(q, v, value))
  BY <1>2, <1>3, CallbackAppended
<1> HIDE DEF f, q
<1>7. /\ DOMAIN kit' = KitFields /\ kit'.sessions = f /\ kit'.alive = kit.alive /\ kit'.queue = kit.queue
      /\ kit'.callbacks = q /\ kit'.modified = kit.modified /\ kit'.running = NoOp
  BY <1>1, <1>4 DEF KitOk, KitFields
<1>8. core'.modified = core.modified /\ core'.applied = core.applied /\ DOMAIN core' = DOMAIN core
  BY <1>1, <1>4 DEF Types, CoreOk
<1>9. Types'
  <2>1. KitOk(kit')
    BY <1>1, <1>5, <1>6, <1>7 DEF KitOk, NoOp
  <2>2. CoreOk'
    BY <1>1, <1>8 DEF Types, CoreOk
  <2> QED BY <1>1, <2>1, <2>2 DEF Types
<1>10. OneSave'
  <2>1. Open' = Open /\ (Forked' => Forked) /\ ~Running'
    BY <1>1, <1>7 DEF Open, Forked, Running, NoOp
  <2>2. (Sent' => Sent) /\ (Queued' => Queued)
    BY <1>1, <1>7 DEF Sent, Queued
  <2> QED BY <1>1, <1>6, <1>7, <2>1, <2>2, OneSaveKept
<1>11. Applied' = Applied /\ Open' = Open /\ LoadedViews(kit') = LoadedViews(kit) \cup {s}
  BY <1>1, <1>2, <1>5, <1>7, <1>8 DEF Applied, Open, LoadedViews
<1>12. ProcsOk' /\ FileOk'
  BY <1>1, <1>11 DEF KitInv, ProcsOk, FileOk
<1>13. StateOk'
  <2>1. LastIsTrue'
    BY <1>1, <1>6, <1>7, <1>8, <1>11 DEF StateOk, LastIsTrue
  <2>2. QuietIsTrue'
    BY <1>1, <1>6, <1>7, <1>8, <1>11 DEF StateOk, QuietIsTrue
  <2>3. WsdKnows' /\ ForcedIsSaving'
    BY <1>1, <1>7, <1>11 DEF StateOk, WsdKnows, ForcedIsSaving, Forked
  <2>4. ~raced' => NothingStale'
    BY <1>1, <1>6, <1>7, <1>8 DEF StateOk, NothingStale
  <2>5. ~raced' => UnmodifiedIsKept'
    BY <1>1, <1>7, <1>8, <1>11 DEF StateOk, UnmodifiedIsKept
  <2> QED BY <2>1, <2>2, <2>3, <2>4, <2>5 DEF StateOk
<1> QED BY <1>9, <1>10, <1>12, <1>13 DEF KitInv

LEMMA FailsLoad ==
  ASSUME KitInv, FailLoad
  PROVE  KitInv'
<1>1. /\ Types /\ OneSave /\ KitOk(kit) /\ kit.alive /\ UNCHANGED <<core, procs, disk, toKit, wsd, raced>>
      /\ kit' = [kit EXCEPT !.running = NoOp, !.alive = core.loaded] /\ Counts("events", MaxEvents)
  BY DEF KitInv, FailLoad, Types, Fails
<1>2. /\ DOMAIN kit' = KitFields /\ kit'.sessions = kit.sessions /\ kit'.queue = kit.queue /\ kit'.running = NoOp
      /\ kit'.callbacks = kit.callbacks /\ kit'.modified = kit.modified
  BY <1>1 DEF KitOk, KitFields
<1>3. KitOk(kit')
  BY <1>1, <1>2 DEF KitOk, NoOp
<1>4. LoadedViews(kit') = LoadedViews(kit) /\ ~Running'
  BY <1>2 DEF LoadedViews, Running, NoOp
<1>5. Types'
  BY <1>1, <1>3, KitTypes, Counted
<1>6. OneSave'
  <2>1. (Queued' => Queued) /\ (Sent' => Sent)
    BY <1>1, <1>2 DEF Queued, Sent
  <2> QED BY <1>1, <1>2, <1>4, <2>1, OnlyMessages
<1> QED BY <1>1, <1>2, <1>4, <1>5, <1>6, NothingSaved

(* Input modifies the document, and LibreOffice tells so. *)
LEMMA AppliesInput ==
  ASSUME KitAssumption, KitInv, ApplyInput
  PROVE  KitInv'
<1> DEFINE msg == Head(kit.queue)
           told == SetCoreModified(Popped, TRUE)
<1>1. Types /\ OneSave /\ HandleInput(InputTypes) /\ UNCHANGED <<procs, disk, toKit, wsd, raced, count>>
  BY DEF KitInv, ApplyInput
<1>2. /\ KitOk(Popped) /\ Popped.sessions = kit.sessions /\ Popped.alive = kit.alive /\ Popped.running = kit.running
      /\ Popped.callbacks = kit.callbacks /\ Popped.modified = kit.modified
      /\ MessageOk(msg) /\ msg.type \in InputTypes /\ kit.running = NoOp /\ kit.alive
      /\ Single(SavesIn(kit.queue)) => Single(SavesIn(Popped.queue))
      /\ SavesIn(kit.queue) = {} => SavesIn(Popped.queue) = {}
  BY <1>1, Pops
<1>3. \/ kit.sessions[msg.session] = "loaded" /\ kit' = told
         /\ core' = [core EXCEPT !.applied = core.applied \o msg.ids, !.modified = TRUE]
      \/ kit' = Popped /\ core' = core
  BY DEF ApplyInput
<1>4. msg.ids \in Seq(Id)
  BY <1>2 DEF KitAssumption, MessageOk, TextTypes
<1>5. StateOk /\ ProcsOk /\ FileOk
  BY <1>2 DEF KitInv
<1> HIDE DEF msg, told
<1>6. CASE kit' = Popped /\ core' = core
  <2>1. LoadedViews(kit') = LoadedViews(kit) /\ ~Running' /\ KitOk(kit')
    BY <1>2, <1>6 DEF LoadedViews, Running, NoOp
  <2>2. Types'
    BY <1>1, <1>6, <2>1, KitTypes
  <2>3. OneSave'
    <3>1. (Queued' => Queued) /\ (Sent' => Sent)
      BY <1>1, <1>2, <1>6 DEF Queued, Sent
    <3> QED BY <1>1, <1>2, <1>6, <2>1, <3>1, OnlyMessages
  <2> QED BY <1>1, <1>2, <1>6, <2>1, <2>2, <2>3, NothingSaved
<1>7. CASE kit' = told /\ core' = [core EXCEPT !.applied = core.applied \o msg.ids, !.modified = TRUE]
  <2>1. Told(Popped, told, TRUE)
    BY <1>2, CoreTold DEF told
  <2>2. /\ KitOk(kit') /\ kit'.sessions = kit.sessions /\ kit'.running = NoOp /\ kit'.queue = Popped.queue
        /\ kit'.modified = kit.modified /\ ResultsIn(kit'.callbacks) = ResultsIn(kit.callbacks)
        /\ core.modified = TRUE => kit'.callbacks = kit.callbacks
        /\ core.modified # TRUE =>
             \A v \in LoadedViews(Popped) : About(kit'.callbacks, v) # {} /\ LastIs(kit'.callbacks, v, TRUE)
    BY <1>2, <1>7, <2>1 DEF Told, SameButCallbacks
  <2>3. LoadedViews(kit') = LoadedViews(kit) /\ LoadedViews(Popped) = LoadedViews(kit)
    BY <1>2, <2>2 DEF LoadedViews
  <2>4. core.applied \o msg.ids \in Seq(Id) /\ In(core.applied \o msg.ids) = In(core.applied) \cup In(msg.ids)
    BY <1>1, <1>4, InOfTwo DEF Types, CoreOk
  <2>5. core'.modified = TRUE /\ core'.applied = core.applied \o msg.ids /\ DOMAIN core' = {"loaded", "applied", "modified"}
    BY <1>1, <1>7 DEF Types, CoreOk
  <2>6. Applied \subseteq Applied'
    <3>1. Applied = In(core.applied)
      BY DEF Applied, In
    <3>2. Applied' = In(core'.applied)
      BY DEF Applied, In
    <3> QED BY <2>4, <2>5, <3>1, <3>2
  <2>7. Types'
    <3>1. CoreOk'
      BY <2>4, <2>5 DEF CoreOk
    <3> QED BY <1>1, <2>2, <3>1 DEF Types
  <2>8. OneSave'
    <3>1. Open' = Open /\ (Forked' => Forked) /\ ~Running'
      BY <1>1, <2>2 DEF Open, Forked, Running, NoOp
    <3>2. (Sent' => Sent) /\ (Queued' => Queued)
      BY <1>1, <1>2, <2>2 DEF Sent, Queued
    <3> QED BY <1>1, <1>2, <2>2, <3>1, <3>2, OneSaveKept
  <2>9. ProcsOk' /\ FileOk'
    BY <1>1, <1>5, <2>6 DEF ProcsOk, FileOk
  <2>10. StateOk'
    <3>1. core.modified \in BOOLEAN
      BY <1>1 DEF Types, CoreOk
    <3>2. CASE core.modified
      <4>1. kit'.callbacks = kit.callbacks
        BY <2>2, <3>2
      <4>2. LastIsTrue' /\ QuietIsTrue'
        BY <1>5, <2>2, <2>3, <2>5, <3>2, <4>1 DEF StateOk, LastIsTrue, QuietIsTrue, LastIs
      <4>3. WsdKnows' /\ ForcedIsSaving'
        BY <1>1, <1>5, <2>2 DEF StateOk, WsdKnows, ForcedIsSaving, Forked, Open
      <4>4. NothingStale' /\ UnmodifiedIsKept'
        BY <2>5 DEF NothingStale, UnmodifiedIsKept
      <4> QED BY <4>2, <4>3, <4>4 DEF StateOk
    <3>3. CASE ~core.modified
      <4>1. \A v \in LoadedViews(kit) : About(kit'.callbacks, v) # {} /\ LastIs(kit'.callbacks, v, TRUE)
        BY <2>2, <2>3, <3>3
      <4>2. LastIsTrue' /\ QuietIsTrue'
        BY <2>3, <2>5, <4>1 DEF LastIsTrue, QuietIsTrue
      <4>3. WsdKnows' /\ ForcedIsSaving'
        BY <1>1, <1>5, <2>2 DEF StateOk, WsdKnows, ForcedIsSaving, Forked, Open
      <4>4. NothingStale' /\ UnmodifiedIsKept'
        BY <2>5 DEF NothingStale, UnmodifiedIsKept
      <4> QED BY <4>2, <4>3, <4>4 DEF StateOk
    <3> QED BY <3>1, <3>2, <3>3
  <2> QED BY <2>7, <2>8, <2>9, <2>10 DEF KitInv
<1> QED BY <1>3, <1>6, <1>7

(* A view goes, and with the last one the process. *)
LEMMA Disconnects ==
  ASSUME KitInv, DisconnectSession
  PROVE  KitInv'
<1> DEFINE s == Head(kit.queue).session
           gone == [Popped EXCEPT !.sessions[s] = "none"]
<1>1. Types /\ OneSave /\ HandleInput({"disconnect"}) /\ UNCHANGED <<core, disk, toKit, wsd, raced, count>>
  BY DEF KitInv, DisconnectSession
<1>2. /\ KitOk(Popped) /\ Popped.sessions = kit.sessions /\ Popped.alive = kit.alive /\ Popped.running = kit.running
      /\ Popped.callbacks = kit.callbacks /\ Popped.modified = kit.modified
      /\ kit.running = NoOp /\ kit.alive
      /\ Single(SavesIn(kit.queue)) => Single(SavesIn(Popped.queue))
      /\ SavesIn(kit.queue) = {} => SavesIn(Popped.queue) = {}
  BY <1>1, Pops
<1>3. \E live : kit' = [gone EXCEPT !.alive = live]
  BY DEF DisconnectSession, OnUnload
<1>4. procs' = IF kit'.alive THEN procs ELSE {}
  BY DEF DisconnectSession
<1>5. /\ DOMAIN gone = KitFields /\ gone.sessions = [kit.sessions EXCEPT ![s] = "none"] /\ gone.queue = Popped.queue
      /\ gone.callbacks = kit.callbacks /\ gone.modified = kit.modified /\ gone.running = NoOp
  BY <1>2 DEF KitOk, KitFields
<1> HIDE DEF gone
<1>6. /\ DOMAIN kit' = KitFields /\ kit'.sessions = [kit.sessions EXCEPT ![s] = "none"] /\ kit'.queue = Popped.queue
      /\ kit'.callbacks = kit.callbacks /\ kit'.modified = kit.modified /\ kit'.running = NoOp
  BY <1>3, <1>5 DEF KitFields
<1>7. /\ DOMAIN kit'.sessions = Session
      /\ \A v \in Session : kit'.sessions[v] = "loaded" => kit.sessions[v] = "loaded"
  BY <1>2, <1>6 DEF KitOk
<1>8. KitOk(kit') /\ LoadedViews(kit') \subseteq LoadedViews(kit) /\ ~Running'
  BY <1>2, <1>6, <1>7 DEF KitOk, LoadedViews, Running, NoOp
<1>9. Types'
  BY <1>1, <1>8, KitTypes
<1>10. procs' \subseteq procs /\ (kit'.alive => procs' = procs)
  BY <1>4
<1>11. OneSave'
  <2>1. (Queued' => Queued) /\ (Sent' => Sent)
    BY <1>1, <1>2, <1>6 DEF Queued, Sent
  <2> QED BY <1>1, <1>2, <1>6, <1>8, <1>10, <2>1, OnlyMessages
<1> QED BY <1>1, <1>2, <1>6, <1>8, <1>9, <1>10, <1>11, NothingSaved

LEMMA Purges ==
  ASSUME KitInv, PurgeSessions
  PROVE  KitInv'
<1>1. /\ Types /\ OneSave /\ KitOk(kit) /\ kit.running = NoOp /\ UNCHANGED <<core, disk, toKit, wsd, raced, count>>
      /\ kit' = [kit EXCEPT !.alive = FALSE] /\ procs' = {}
  BY DEF KitInv, PurgeSessions, ProcessInputEnabled, Types
<1>2. /\ DOMAIN kit' = KitFields /\ kit'.sessions = kit.sessions /\ kit'.queue = kit.queue /\ kit'.running = NoOp
      /\ kit'.callbacks = kit.callbacks /\ kit'.modified = kit.modified /\ ~kit'.alive
  BY <1>1 DEF KitOk, KitFields
<1>3. KitOk(kit') /\ LoadedViews(kit') = LoadedViews(kit) /\ ~Running'
  BY <1>1, <1>2 DEF KitOk, NoOp, LoadedViews, Running
<1>4. Types'
  BY <1>1, <1>3, KitTypes
<1>5. OneSave'
  <2>1. (Queued' => Queued) /\ (Sent' => Sent)
    BY <1>1, <1>2 DEF Queued, Sent
  <2> QED BY <1>1, <1>2, <1>3, <2>1, OnlyMessages
<1> QED BY <1>1, <1>2, <1>3, <1>4, <1>5, NothingSaved

-----------------------------------------------------------------------------
(* Saves.                                                                     *)

(* A fork: the child takes what is applied, and until it reports, the Kit     *)
(* remembers that it has cleared the modified state.                          *)
LEMMA Forks ==
  ASSUME KitAssumption, KitInv, ForkToSave
  PROVE  KitInv'
<1> DEFINE child == [id |-> FreshPid, content |-> Applied, phase |-> "saving", sent |-> <<>>, completed |-> FALSE]
           forced == ForceDocUnmodified(Popped)
           forcing == [Popped EXCEPT !.modified = "UnModifiedButSaving"]
           told == SetCoreModified(forcing, FALSE)
<1>1. /\ Types /\ OneSave /\ HandleInput({"save"}) /\ UNCHANGED <<disk, toKit, wsd, count>>
      /\ procs' = procs \cup {child} /\ kit' = [forced EXCEPT !.bgSavesOngoing = @ + 1]
      /\ core' = [core EXCEPT !.modified = IF kit.modified = "Modified" THEN FALSE ELSE core.modified]
      /\ raced' = (raced \/ (/\ kit.modified = "Modified"
                             /\ \E i \in DOMAIN kit.callbacks : kit.callbacks[i].value))
  BY DEF KitInv, ForkToSave
<1>2. /\ KitOk(Popped) /\ Popped.sessions = kit.sessions /\ Popped.alive = kit.alive /\ Popped.running = kit.running
      /\ Popped.callbacks = kit.callbacks /\ Popped.modified = kit.modified
      /\ kit.running = NoOp /\ kit.alive /\ Head(kit.queue).type = "save"
      /\ Head(kit.queue).type = "save" => Queued
      /\ Head(kit.queue).type = "save" /\ Single(SavesIn(kit.queue)) => SavesIn(Popped.queue) = {}
  BY <1>1, Pops
<1>3. /\ Queued /\ ~Sent /\ ~Running /\ ~Answers /\ ~Forked /\ wsd.saves = 1 /\ SavesIn(Popped.queue) = {}
      /\ StateOk /\ ProcsOk /\ FileOk
  <2>1. Queued /\ Single(SavesIn(kit.queue))
    BY <1>1, <1>2 DEF OneSave
  <2> QED BY <1>1, <1>2, <2>1 DEF KitInv, OneSave
<1>4. child.content = Applied /\ ~child.completed /\ child.phase = "saving" /\ child.sent = <<>> /\ ProcessOk(child)
  BY DEF ProcessOk
<1> HIDE DEF child
<1>5. /\ core'.applied = core.applied /\ DOMAIN core' = DOMAIN core
      /\ core'.modified = IF kit.modified = "Modified" THEN FALSE ELSE core.modified
      /\ Applied' = Applied
  BY <1>1 DEF Types, CoreOk, Applied
<1>6. core.modified \in BOOLEAN /\ raced \in BOOLEAN
  BY <1>1 DEF Types, CoreOk
<1>7. Open' = {child} /\ Forked'
  BY <1>1, <1>3, <1>4 DEF Open, Forked
<1>8. ProcsOk' /\ FileOk'
  <2>1. ProcsOk'
    BY <1>1, <1>3, <1>4 DEF ProcsOk
  <2>2. child.sent # <<"success">>
    <3>1. <<>> # <<"success">>
      OBVIOUS
    <3> QED BY <1>4, <3>1
  <2>3. FileOk'
    BY <1>1, <1>3, <1>4, <1>5, <2>2 DEF FileOk
  <2> QED BY <2>1, <2>3
<1>9. ASSUME KitOk(forced), forced.sessions = kit.sessions, forced.queue = Popped.queue,
             forced.running = kit.running, ResultsIn(forced.callbacks) = ResultsIn(kit.callbacks)
      PROVE  /\ Types' /\ OneSave' /\ kit'.callbacks = forced.callbacks /\ kit'.modified = forced.modified
             /\ LoadedViews(kit') = LoadedViews(kit)
  <2> HIDE DEF forced
  <2>1. /\ DOMAIN kit' = KitFields /\ kit'.sessions = kit.sessions /\ kit'.queue = Popped.queue /\ kit'.running = kit.running
        /\ kit'.callbacks = forced.callbacks /\ kit'.modified = forced.modified
    BY <1>1, <1>9 DEF KitOk, KitFields
  <2>2. KitOk(kit')
    BY <1>9, <2>1 DEF KitOk
  <2>3. CoreOk'
    BY <1>1, <1>5, <1>6 DEF Types, CoreOk
  <2>4. Types'
    BY <1>1, <1>6, <2>2, <2>3 DEF Types
  <2>5. /\ ~Sent' /\ ~Queued' /\ ~Running' /\ ~Answers'
        /\ SavesIn(kit'.queue) = {} /\ ResultsIn(kit'.callbacks) = {} /\ SavesIn(toKit') = {}
    BY <1>1, <1>2, <1>3, <1>9, <2>1 DEF Sent, Queued, Running, Answers
  <2>6. OneSave'
    BY <1>1, <1>3, <1>7, <2>5 DEF OneSave, Single
  <2>7. LoadedViews(kit') = LoadedViews(kit)
    BY <2>1 DEF LoadedViews
  <2> QED BY <2>1, <2>4, <2>6, <2>7
<1>10. CASE kit.modified # "Modified"
  <2>1. forced = Popped
    BY <1>2, <1>10 DEF ForceDocUnmodified
  <2> HIDE DEF forced
  <2>2. /\ Types' /\ OneSave' /\ kit'.callbacks = kit.callbacks /\ kit'.modified = kit.modified
        /\ LoadedViews(kit') = LoadedViews(kit) /\ core'.modified = core.modified /\ raced' = raced
    BY <1>1, <1>2, <1>5, <1>6, <1>9, <1>10, <2>1
  <2>3. kit.modified # "UnModifiedButSaving"
    BY <1>3 DEF StateOk, ForcedIsSaving
  <2>4. LastIsTrue' /\ QuietIsTrue'
    BY <1>3, <2>2 DEF StateOk, LastIsTrue, QuietIsTrue
  <2>5. WsdKnows' /\ ForcedIsSaving' /\ NothingStale'
    BY <1>1, <1>3, <2>2, <2>3 DEF StateOk, WsdKnows, ForcedIsSaving, NothingStale
  <2>6. ~raced' => UnmodifiedIsKept'
    BY <1>1, <1>3, <1>4, <1>5, <2>2, <2>3 DEF StateOk, UnmodifiedIsKept
  <2>7. StateOk'
    BY <2>4, <2>5, <2>6 DEF StateOk
  <2> QED BY <1>8, <2>2, <2>7 DEF KitInv
<1>11. CASE kit.modified = "Modified"
  <2>1. forced = told
    BY <1>2, <1>11 DEF ForceDocUnmodified
  <2>2. /\ KitOk(forcing) /\ forcing.sessions = kit.sessions /\ forcing.queue = Popped.queue
        /\ forcing.running = kit.running /\ forcing.callbacks = kit.callbacks
        /\ forcing.modified = "UnModifiedButSaving"
    BY <1>2 DEF KitOk, KitFields, DocumentState
  <2> HIDE DEF forcing
  <2>3. Told(forcing, told, FALSE)
    BY <2>2, CoreTold
  <2> HIDE DEF told, forced
  <2>4. LoadedViews(forcing) = LoadedViews(kit)
    BY <2>2 DEF LoadedViews
  <2>5. /\ KitOk(forced) /\ forced.sessions = kit.sessions /\ forced.queue = Popped.queue
        /\ forced.running = kit.running /\ ResultsIn(forced.callbacks) = ResultsIn(kit.callbacks)
        /\ forced.modified = "UnModifiedButSaving"
        /\ ~core.modified => forced.callbacks = kit.callbacks
        /\ core.modified =>
             \A v \in LoadedViews(kit) : About(forced.callbacks, v) # {} /\ LastIs(forced.callbacks, v, FALSE)
        /\ NoneTrue(kit.callbacks) => NoneTrue(forced.callbacks)
    BY <1>6, <2>1, <2>2, <2>3, <2>4 DEF Told, SameButCallbacks
  <2>6. /\ Types' /\ OneSave' /\ kit'.callbacks = forced.callbacks /\ kit'.modified = "UnModifiedButSaving"
        /\ LoadedViews(kit') = LoadedViews(kit) /\ core'.modified = FALSE
    BY <1>5, <1>9, <1>11, <2>5
  <2>7. LastIsTrue' /\ QuietIsTrue'
    <3>1. CASE core.modified
      <4>1. \A v \in LoadedViews(kit) : About(kit'.callbacks, v) # {} /\ LastIs(kit'.callbacks, v, FALSE)
        BY <2>5, <2>6, <3>1
      <4> QED BY <2>6, <4>1 DEF LastIsTrue, QuietIsTrue
    <3>2. CASE ~core.modified
      <4>1. kit'.callbacks = kit.callbacks /\ core'.modified = core.modified
        BY <1>6, <2>5, <2>6, <3>2
      <4>2. LastIsTrue'
        BY <1>3, <2>6, <4>1 DEF StateOk, LastIsTrue
      <4>3. QuietIsTrue'
        BY <1>3, <1>11, <2>6, <3>2, <4>1 DEF StateOk, QuietIsTrue
      <4> QED BY <4>2, <4>3
    <3> QED BY <1>6, <3>1, <3>2
  <2>8. WsdKnows' /\ ForcedIsSaving'
    BY <1>1, <1>3, <1>7, <1>11, <2>6 DEF StateOk, WsdKnows, ForcedIsSaving
  <2>9. ~raced' => NothingStale'
    <3>1. ~raced' => NoneTrue(kit.callbacks)
      BY <1>1, <1>11 DEF NoneTrue
    <3> QED BY <2>5, <2>6, <3>1 DEF NothingStale
  <2>10. UnmodifiedIsKept'
    BY <1>4, <1>5, <1>7, <2>6 DEF UnmodifiedIsKept
  <2>11. StateOk'
    BY <2>7, <2>8, <2>9, <2>10 DEF StateOk
  <2> QED BY <1>8, <2>6, <2>11 DEF KitInv
<1> QED BY <1>10, <1>11

(* A save in the foreground begins. *)
LEMMA StartsSave ==
  ASSUME KitInv, StartSave
  PROVE  KitInv'
<1> DEFINE run == [op |-> "save", session |-> Saver]
<1>1. /\ Types /\ OneSave /\ HandleInput({"save"}) /\ UNCHANGED <<core, procs, disk, toKit, wsd, raced>>
      /\ kit' = [Popped EXCEPT !.running = run]
      /\ count' = count \/ Counts("events", MaxEvents)
  BY DEF KitInv, StartSave, Fails
<1>2. /\ KitOk(Popped) /\ Popped.sessions = kit.sessions /\ Popped.alive = kit.alive
      /\ Popped.callbacks = kit.callbacks /\ Popped.modified = kit.modified
      /\ kit.alive /\ Head(kit.queue).type = "save" /\ MessageOk(Head(kit.queue))
      /\ Head(kit.queue).type = "save" => Queued
      /\ Head(kit.queue).type = "save" /\ Single(SavesIn(kit.queue)) => SavesIn(Popped.queue) = {}
  BY <1>1, Pops
<1>3. Queued /\ ~Sent /\ ~Answers /\ ~Forked /\ wsd.saves = 1 /\ SavesIn(Popped.queue) = {} /\ Saver \in Session
  <2>1. Queued /\ Single(SavesIn(kit.queue))
    BY <1>1, <1>2 DEF OneSave
  <2> QED BY <1>1, <1>2, <2>1 DEF OneSave, MessageOk, Saver
<1>4. /\ DOMAIN kit' = KitFields /\ kit'.sessions = kit.sessions /\ kit'.alive = kit.alive /\ kit'.queue = Popped.queue
      /\ kit'.callbacks = kit.callbacks /\ kit'.modified = kit.modified /\ kit'.running = run
  BY <1>1, <1>2 DEF KitOk, KitFields
<1>5. run.op = "save" /\ run.session = Saver
  OBVIOUS
<1> HIDE DEF run
<1>6. KitOk(kit') /\ LoadedViews(kit') = LoadedViews(kit)
  BY <1>2, <1>3, <1>4, <1>5 DEF KitOk, LoadedViews
<1>7. Types'
  BY <1>1, <1>6, KitTypes, Counted
<1>8. OneSave'
  <2>1. ~Sent' /\ ~Queued' /\ ~Answers' /\ ~Forked' /\ Open' = Open /\ SavesIn(kit'.queue) = {}
    BY <1>1, <1>3, <1>4 DEF Sent, Queued, Answers, Forked, Open
  <2> QED BY <1>1, <1>3, <1>4, <2>1 DEF OneSave, Single
<1> QED BY <1>1, <1>2, <1>4, <1>6, <1>7, <1>8, NothingSaved

(* A save in the foreground ends: nothing else saves, and all that is applied *)
(* is in the file.                                                            *)
LEMMA FinishesSave ==
  ASSUME KitAssumption, KitInv, NEW ok \in BOOLEAN, FinishSave(ok)
  PROVE  KitInv' /\ disk \subseteq disk'
<1> DEFINE idle == [kit EXCEPT !.running = NoOp]
           told == IF ok THEN SetCoreModified(idle, FALSE) ELSE idle
           cb == [view |-> kit.running.session, type |-> "result", value |-> ok]
<1>1. /\ Types /\ OneSave /\ StateOk /\ ProcsOk /\ FileOk /\ kit.alive /\ Running
      /\ UNCHANGED <<procs, toKit, wsd, raced>>
      /\ count' = count \/ Counts("events", MaxEvents)
      /\ kit' = [told EXCEPT !.callbacks = Append(told.callbacks, cb)]
      /\ core' = IF ok THEN [core EXCEPT !.modified = FALSE] ELSE core
      /\ disk' = IF ok THEN Applied ELSE disk
  BY DEF KitInv, FinishSave, Running, Fails
<1>2. /\ KitOk(idle) /\ idle.sessions = kit.sessions /\ idle.queue = kit.queue /\ idle.running = NoOp
      /\ idle.callbacks = kit.callbacks /\ idle.modified = kit.modified
  BY <1>1 DEF Types, KitOk, KitFields, NoOp
<1> HIDE DEF idle
<1>3. LoadedViews(idle) = LoadedViews(kit)
  BY <1>2 DEF LoadedViews
<1>4. /\ KitOk(told) /\ SameButCallbacks(idle, told) /\ ResultsIn(told.callbacks) = ResultsIn(kit.callbacks)
      /\ (~ok \/ ~core.modified) => told.callbacks = kit.callbacks
      /\ ok /\ core.modified =>
           \A v \in LoadedViews(kit) : About(told.callbacks, v) # {} /\ LastIs(told.callbacks, v, FALSE)
  <2>1. core.modified \in BOOLEAN
    BY <1>1 DEF Types, CoreOk
  <2>2. CASE ~ok
    <3>1. told = idle
      BY <2>2
    <3> HIDE DEF told
    <3> QED BY <1>2, <2>2, <3>1 DEF SameButCallbacks
  <2>3. CASE ok
    <3>1. Told(idle, told, FALSE)
      BY <1>2, <2>3, CoreTold
    <3> HIDE DEF told
    <3> QED BY <1>2, <1>3, <2>1, <2>3, <3>1 DEF Told
  <2> QED BY <2>2, <2>3
<1>5. CallbackOk(cb) /\ cb.type = "result"
  BY <1>1 DEF CallbackOk, Types, KitOk, Running
<1> HIDE DEF told, cb
<1>6. LET q == Append(told.callbacks, cb)
      IN  /\ CallbacksOk(q) /\ (ResultsIn(told.callbacks) = {} => Single(ResultsIn(q)))
          /\ NoneTrue(told.callbacks) => NoneTrue(q)
          /\ \A v, value : About(q, v) = About(told.callbacks, v)
                           /\ (LastIs(told.callbacks, v, value) => LastIs(q, v, value))
  <2>1. CallbacksOk(told.callbacks)
    BY <1>4 DEF KitOk
  <2> QED BY <1>5, <2>1, CallbackAppended
<1>7. /\ DOMAIN kit' = KitFields /\ kit'.sessions = kit.sessions /\ kit'.queue = kit.queue /\ kit'.running = NoOp
      /\ kit'.callbacks = Append(told.callbacks, cb) /\ kit'.modified = kit.modified
  BY <1>1, <1>2, <1>4 DEF KitOk, KitFields, SameButCallbacks
<1>8. ~Sent /\ ~Queued /\ ~Answers /\ ~Forked /\ wsd.saves = 1
  BY <1>1 DEF OneSave
<1>9. \A p \in procs : p.completed /\ p.phase # "saving" /\ p.sent = <<>>
  BY <1>1, <1>8 DEF Forked, Open, ProcsOk, ProcessOk
<1>10. /\ core'.applied = core.applied /\ DOMAIN core' = DOMAIN core /\ Applied' = Applied
       /\ core'.modified = IF ok THEN FALSE ELSE core.modified
  BY <1>1 DEF Types, CoreOk, Applied
<1>11. KitOk(kit') /\ LoadedViews(kit') = LoadedViews(kit)
  BY <1>2, <1>6, <1>7 DEF KitOk, LoadedViews, NoOp
<1>12. Types'
  <2>1. CoreOk'
    BY <1>1, <1>10 DEF Types, CoreOk
  <2>2. count' \in [requests : Nat, events : Nat]
    <3>1. count' = count \/ \E e \in {"requests", "events"} : count' = [count EXCEPT ![e] = @ + 1]
      BY <1>1, Counted
    <3> QED BY <1>1, <3>1 DEF Types
  <2> QED BY <1>1, <1>11, <2>1, <2>2 DEF Types
<1>13. OneSave'
  <2>1. ~Sent' /\ ~Queued' /\ ~Forked' /\ ~Running' /\ Open' = Open
    BY <1>1, <1>7, <1>8 DEF Sent, Queued, Forked, Running, Open, NoOp
  <2>2. Single(ResultsIn(kit'.callbacks))
    BY <1>4, <1>6, <1>7, <1>8 DEF Answers
  <2> QED BY <1>1, <1>7, <1>8, <2>1, <2>2 DEF OneSave
<1>14. ProcsOk'
  BY <1>1 DEF ProcsOk
<1>15. <<>> # <<"success">>
  OBVIOUS
<1>16. FileOk' /\ disk \subseteq disk'
  BY <1>1, <1>9, <1>10, <1>15 DEF FileOk
<1>17. StateOk'
  <2>1. core.modified \in BOOLEAN
    BY <1>1 DEF Types, CoreOk
  <2>2. LastIsTrue' /\ QuietIsTrue'
    <3>1. CASE ok /\ core.modified
      <4>1. \A v \in LoadedViews(kit) : About(kit'.callbacks, v) # {} /\ LastIs(kit'.callbacks, v, FALSE)
        BY <1>4, <1>6, <1>7, <3>1
      <4> QED BY <1>10, <1>11, <3>1, <4>1 DEF LastIsTrue, QuietIsTrue
    <3>2. CASE ~ok \/ ~core.modified
      <4>1. core'.modified = core.modified /\ told.callbacks = kit.callbacks
        BY <1>4, <1>10, <2>1, <3>2
      <4>2. LastIsTrue'
        BY <1>1, <1>6, <1>7, <1>11, <4>1 DEF StateOk, LastIsTrue
      <4>3. QuietIsTrue'
        BY <1>1, <1>6, <1>7, <1>11, <4>1 DEF StateOk, QuietIsTrue
      <4> QED BY <4>2, <4>3
    <3> QED BY <2>1, <3>1, <3>2
  <2>3. kit.modified # "UnModifiedButSaving"
    BY <1>1, <1>8 DEF StateOk, ForcedIsSaving
  <2>4. WsdKnows' /\ ForcedIsSaving' /\ NothingStale'
    BY <1>1, <1>7, <2>3 DEF StateOk, WsdKnows, ForcedIsSaving, NothingStale
  <2>5. ~raced' => UnmodifiedIsKept'
    <3>1. CASE ok
      BY <1>1, <1>9, <1>10, <3>1 DEF UnmodifiedIsKept
    <3>2. CASE ~ok
      BY <1>1, <1>7, <1>10, <2>3, <3>2 DEF StateOk, UnmodifiedIsKept
    <3> QED BY <3>1, <3>2
  <2> QED BY <2>2, <2>4, <2>5 DEF StateOk
<1> QED BY <1>12, <1>13, <1>14, <1>16, <1>17 DEF KitInv

(* What a child does by itself: it is the one that saves, and remains so.     *)
LEMMA ChildMoves ==
  ASSUME KitInv, NEW p \in procs, NEW q, Becomes(p, q), ProcessOk(q), q.content = p.content, q.completed = p.completed,
         q.phase # "saving",
         UNCHANGED <<kit, core, toKit, wsd, raced>>,
         count' = count \/ Counts("events", MaxEvents),
         \/ disk' = disk /\ (q.sent = <<"success">> => p.sent = <<"success">>)
         \/ disk' = p.content /\ p.phase = "saving"
  PROVE  KitInv' /\ disk \subseteq disk'
<1>1. Types /\ OneSave /\ ProcsOk /\ FileOk /\ procs' = (procs \ {p}) \cup {q} /\ ProcessOk(p)
  BY DEF KitInv, Becomes, ProcsOk
<1>2. Types'
  <2>1. KitOk(kit')
    BY <1>1 DEF Types
  <2> QED BY <1>1, <2>1, KitTypes, Counted
<1>3. Open' = IF p \in Open THEN (Open \ {p}) \cup {q} ELSE Open \ {p}
  BY <1>1 DEF Open
<1>4. Single(Open) /\ Single(Open') /\ (Forked' => Forked)
  BY <1>1, <1>3 DEF OneSave, Single, Forked
<1>5. OneSave'
  <2>1. (Sent' => Sent) /\ (Queued' => Queued) /\ (Running' => Running)
    BY DEF Sent, Queued, Running
  <2>2. ResultsIn(kit'.callbacks) \subseteq ResultsIn(kit.callbacks)
    OBVIOUS
  <2> QED BY <1>1, <1>4, <2>1, <2>2, OneSaveKept
<1>6. ProcsOk'
  BY <1>1 DEF ProcsOk
<1>7. Applied' = Applied
  BY DEF Applied
<1>8. ASSUME p.phase = "saving", NEW r \in procs, r # p
      PROVE  r.phase # "saving" /\ r.sent # <<"success">>
  <2>1. p \in Open /\ r \notin Open
    BY <1>1, <1>4, <1>8 DEF Open, ProcessOk, Single
  <2>2. r.completed /\ ProcessOk(r)
    BY <1>1, <2>1 DEF Open, ProcsOk
  <2>3. <<>> # <<"success">>
    OBVIOUS
  <2> QED BY <2>2, <2>3 DEF ProcessOk
<1>9. FileOk' /\ disk \subseteq disk'
  <2>1. CASE disk' = disk /\ (q.sent = <<"success">> => p.sent = <<"success">>)
    BY <1>1, <1>7, <2>1 DEF FileOk
  <2>2. CASE disk' = p.content /\ p.phase = "saving"
    BY <1>1, <1>7, <1>8, <2>2 DEF FileOk
  <2> QED BY <2>1, <2>2
<1>10. ASSUME kit'.alive PROVE StateOk'
  <2>1. StateOk
    BY <1>10 DEF KitInv
  <2>2. \A o \in Open : \E x \in Open' : x.content = o.content
    BY <1>3
  <2>3. \A x \in procs' : x.phase = "saving" => x \in procs
    BY <1>1
  <2>4. CASE disk' = disk
    BY <2>1, <2>2, <2>3, <2>4, StateKept
  <2>5. CASE disk' = p.content /\ p.phase = "saving"
    <3>1. LastIsTrue' /\ QuietIsTrue' /\ WsdKnows' /\ (~raced' => NothingStale')
      BY <2>1 DEF StateOk, LastIsTrue, QuietIsTrue, WsdKnows, NothingStale
    <3>2. p \in Open /\ q \in Open' /\ Open = {p}
      BY <1>1, <1>3, <1>4, <2>5 DEF Open, ProcessOk, Single
    <3>3. ForcedIsSaving'
      BY <3>2 DEF ForcedIsSaving, Forked
    <3>4. \A x \in procs' : x.phase # "saving"
      BY <1>1, <1>8, <2>5
    <3>5. ~raced' => UnmodifiedIsKept'
      BY <1>7, <2>1, <2>5, <3>2, <3>4 DEF StateOk, UnmodifiedIsKept
    <3> QED BY <3>1, <3>3, <3>5 DEF StateOk
  <2> QED BY <2>4, <2>5
<1> QED BY <1>2, <1>5, <1>6, <1>9, <1>10 DEF KitInv

(* The child has stored the document, or could not. *)
LEMMA ChildSaved ==
  ASSUME KitInv, NEW p \in procs, NEW ok \in BOOLEAN, ChildSaves(p, ok)
  PROVE  KitInv' /\ disk \subseteq disk'
<1> DEFINE told == IF ok THEN "success" ELSE "failure"
           q == [p EXCEPT !.phase = "stored", !.sent = Append(p.sent, told)]
<1>1. /\ p.phase = "saving" /\ UNCHANGED <<kit, core, toKit, wsd, raced>> /\ Becomes(p, q)
      /\ count' = count \/ Counts("events", MaxEvents)
      /\ disk' = IF ok THEN p.content ELSE disk
  BY DEF ChildSaves, Fails
<1>2. ProcessOk(p) /\ p.sent = <<>> /\ ~p.completed
  BY <1>1 DEF KitInv, ProcsOk, ProcessOk
<1>3. Append(<<>>, told) = <<told>>
  OBVIOUS
<1>4. q = [p EXCEPT !.phase = "stored", !.sent = <<told>>]
  BY <1>2, <1>3
<1> HIDE DEF q
<1>5. /\ DOMAIN q = {"id", "content", "phase", "sent", "completed"} /\ q.phase = "stored" /\ q.sent = <<told>>
      /\ q.content = p.content /\ q.completed = p.completed
  BY <1>2, <1>4 DEF ProcessOk
<1>6. ProcessOk(q)
  BY <1>2, <1>5 DEF ProcessOk
<1>7. CASE ok
  BY <1>1, <1>5, <1>6, <1>7, ChildMoves
<1>8. CASE ~ok
  <2>1. q.sent # <<"success">>
    <3>1. <<"failure">> # <<"success">>
      OBVIOUS
    <3> QED BY <1>5, <1>8, <3>1
  <2> QED BY <1>1, <1>5, <1>6, <1>8, <2>1, ChildMoves
<1> QED BY <1>7, <1>8

(* It exits. *)
LEMMA ChildExited ==
  ASSUME KitInv, NEW p \in procs, ChildExits(p)
  PROVE  KitInv' /\ disk \subseteq disk'
<1> DEFINE q == [p EXCEPT !.phase = "exited"]
<1>1. /\ p.phase \in {"stored", "dismissed"} /\ UNCHANGED <<kit, core, disk, toKit, wsd, raced, count>> /\ Becomes(p, q)
  BY DEF ChildExits
<1>2. ProcessOk(p)
  BY DEF KitInv, ProcsOk
<1>3. /\ DOMAIN q = {"id", "content", "phase", "sent", "completed"} /\ q.phase = "exited" /\ q.sent = p.sent
      /\ q.content = p.content /\ q.completed = p.completed
  BY <1>2 DEF ProcessOk
<1> HIDE DEF q
<1>4. ProcessOk(q)
  BY <1>1, <1>2, <1>3 DEF ProcessOk
<1> QED BY <1>1, <1>3, <1>4, ChildMoves

(* It crashes while it saves: what it would have told is not told. *)
LEMMA ChildCrashed ==
  ASSUME OneByOne, KitInv, NEW p \in procs, ChildCrashes(p)
  PROVE  KitInv' /\ disk \subseteq disk'
<1> DEFINE q == [p EXCEPT !.phase = "crashed"]
<1>1. /\ p.phase = "saving" /\ UNCHANGED <<kit, core, disk, toKit, wsd, raced>> /\ Becomes(p, q)
      /\ Counts("events", MaxEvents)
  BY DEF ChildCrashes, Fails, OneByOne
<1>2. ProcessOk(p)
  BY DEF KitInv, ProcsOk
<1>3. /\ DOMAIN q = {"id", "content", "phase", "sent", "completed"} /\ q.phase = "crashed" /\ q.sent = p.sent
      /\ q.content = p.content /\ q.completed = p.completed
  BY <1>2 DEF ProcessOk
<1> HIDE DEF q
<1>4. ProcessOk(q)
  BY <1>1, <1>2, <1>3 DEF ProcessOk
<1> QED BY <1>1, <1>3, <1>4, ChildMoves

(* It asks, and waits. *)
LEMMA ChildAsked ==
  ASSUME KitInv, NEW p \in procs, ChildAsks(p)
  PROVE  KitInv' /\ disk \subseteq disk'
<1> DEFINE q == [p EXCEPT !.phase = "asking", !.sent = Append(p.sent, "jsdialog")]
<1>1. /\ p.phase = "saving" /\ UNCHANGED <<kit, core, disk, toKit, wsd, raced>> /\ Becomes(p, q)
      /\ Counts("events", MaxEvents)
  BY DEF ChildAsks, Fails
<1>2. ProcessOk(p) /\ p.sent = <<>>
  BY <1>1 DEF KitInv, ProcsOk, ProcessOk
<1>3. Append(<<>>, "jsdialog") = <<"jsdialog">>
  OBVIOUS
<1>4. q = [p EXCEPT !.phase = "asking", !.sent = <<"jsdialog">>]
  BY <1>2, <1>3
<1> HIDE DEF q
<1>5. /\ DOMAIN q = {"id", "content", "phase", "sent", "completed"} /\ q.phase = "asking" /\ q.sent = <<"jsdialog">>
      /\ q.content = p.content /\ q.completed = p.completed
  BY <1>2, <1>4 DEF ProcessOk
<1>6. ProcessOk(q)
  BY <1>1, <1>2, <1>5 DEF ProcessOk
<1>7. q.sent # <<"success">>
  <2>1. <<"jsdialog">> # <<"success">>
    OBVIOUS
  <2> QED BY <1>5, <2>1
<1> QED BY <1>1, <1>5, <1>6, <1>7, ChildMoves

-----------------------------------------------------------------------------
(* The answers of children.                                                   *)

(* What is left of the child p once it has been heard. *)
HeardFrom(p) ==
  \A x \in procs' :
    \/ x \in procs /\ x # p
    \/ x.completed /\ ProcessOk(x) /\ x.phase # "saving" /\ x.content = p.content

(* No save is open any more. *)
LEMMA SaveIsOver ==
  ASSUME KitInv, NEW p \in Open, HeardFrom(p), disk' = disk, Applied' = Applied
  PROVE  /\ ~Sent /\ ~Queued /\ ~Running /\ ~Answers /\ wsd.saves = 1 /\ Single(Open)
         /\ Open' = {} /\ ProcsOk' /\ FileOk'
         /\ \A x \in procs' : x.phase # "saving"
<1>1. OneSave /\ Forked /\ ProcsOk /\ FileOk /\ p \in procs /\ Single(Open)
  BY DEF KitInv, OneSave, Forked, Open
<1>2. ~Sent /\ ~Queued /\ ~Running /\ ~Answers /\ wsd.saves = 1
  BY <1>1 DEF OneSave
<1>3. ASSUME NEW x \in procs' PROVE x.completed /\ ProcessOk(x) /\ x.phase # "saving" /\ x.content \subseteq Applied
  <2>1. CASE x \in procs /\ x # p
    <3>1. x \notin Open /\ ProcessOk(x)
      BY <1>1, <2>1 DEF Single, ProcsOk
    <3>2. x.completed
      BY <2>1, <3>1 DEF Open
    <3> QED BY <1>1, <2>1, <3>1, <3>2 DEF ProcessOk, FileOk
  <2>2. CASE x.completed /\ ProcessOk(x) /\ x.phase # "saving" /\ x.content = p.content
    BY <1>1, <2>2 DEF FileOk
  <2> QED BY <2>1, <2>2 DEF HeardFrom
<1>4. Open' = {}
  BY <1>3 DEF Open
<1>5. ProcsOk'
  BY <1>3 DEF ProcsOk
<1>6. FileOk'
  <2>1. <<>> # <<"success">>
    OBVIOUS
  <2>2. \A x \in procs' : x.sent = <<>>
    BY <1>3 DEF ProcessOk
  <2> QED BY <1>1, <1>3, <2>1, <2>2 DEF FileOk
<1> QED BY <1>1, <1>2, <1>3, <1>4, <1>5, <1>6

(* With it goes the last save. *)
LEMMA NoSaveIsLeft ==
  ASSUME KitInv, ~Sent, ~Queued, ~Running, ~Answers, Open' = {}, toKit' = toKit, kit'.queue = kit.queue,
         kit'.running = kit.running, ResultsIn(kit'.callbacks) = ResultsIn(kit.callbacks), wsd'.saves = 0
  PROVE  OneSave'
<1>1. ~Sent' /\ ~Queued' /\ ~Running' /\ ~Answers' /\ ~Forked'
  BY DEF Sent, Queued, Running, Answers, Forked
<1>2. Single(SavesIn(toKit')) /\ Single(SavesIn(kit'.queue)) /\ Single(ResultsIn(kit'.callbacks)) /\ Single(Open')
  BY <1>1 DEF Sent, Queued, Answers, Single
<1> QED BY <1>1, <1>2 DEF OneSave

(* A save has failed: what the fork cleared is modified again. *)
LEMMA FailureReported ==
  ASSUME KitAssumption, KitInv, kit.alive, NEW p \in Open, HeardFrom(p),
         NEW k, KitOk(k), k.sessions = kit.sessions, k.queue = kit.queue, k.running = kit.running,
         k.callbacks = kit.callbacks, k.modified = kit.modified,
         kit' = ReportFailedSave(k), core' = CoreAfterFailure, wsd' = Answered(wsd),
         UNCHANGED <<disk, toKit, raced, count>>
  PROVE  KitInv'
<1> DEFINE marked == [k EXCEPT !.modified = "Modified"]
           updated == UpdateModifiedOnFailedBgSave(k)
<1>1. Types /\ StateOk /\ core.modified \in BOOLEAN
  BY DEF KitInv, Types, CoreOk
<1>2. /\ core'.applied = core.applied /\ DOMAIN core' = DOMAIN core /\ Applied' = Applied
      /\ core'.modified = (core.modified \/ kit.modified = "UnModifiedButSaving")
  BY <1>1 DEF Types, CoreOk, Applied, CoreAfterFailure
<1>3. /\ ~Sent /\ ~Queued /\ ~Running /\ ~Answers /\ wsd.saves = 1 /\ Single(Open)
      /\ Open' = {} /\ ProcsOk' /\ FileOk' /\ \A x \in procs' : x.phase # "saving"
  BY <1>2, SaveIsOver
<1>4. wsd' \in WsdState /\ wsd'.modified = wsd.modified /\ wsd'.saves = 0
  BY <1>1, <1>3, AnsweredOnce DEF Types
<1>5. /\ KitOk(marked) /\ marked.sessions = kit.sessions /\ marked.queue = kit.queue /\ marked.running = kit.running
      /\ marked.callbacks = kit.callbacks /\ marked.modified = "Modified"
  BY DEF KitOk, KitFields, DocumentState
<1>6. kit' = [updated EXCEPT !.bgSaveDisabled = TRUE]
  BY DEF ReportFailedSave
<1>7. /\ updated = IF kit.modified = "UnModifiedButSaving" THEN SetCoreModified(marked, TRUE) ELSE k
  BY DEF UpdateModifiedOnFailedBgSave
<1> HIDE DEF marked, updated
<1>8. LoadedViews(marked) = LoadedViews(kit)
  BY <1>5 DEF LoadedViews
<1>9. /\ KitOk(updated) /\ updated.sessions = kit.sessions /\ updated.queue = kit.queue
      /\ updated.running = kit.running /\ ResultsIn(updated.callbacks) = ResultsIn(kit.callbacks)
      /\ updated.modified = IF kit.modified = "UnModifiedButSaving" THEN "Modified" ELSE kit.modified
      /\ (kit.modified # "UnModifiedButSaving" \/ core.modified) => updated.callbacks = kit.callbacks
      /\ kit.modified = "UnModifiedButSaving" /\ ~core.modified =>
           \A v \in LoadedViews(kit) : About(updated.callbacks, v) # {} /\ LastIs(updated.callbacks, v, TRUE)
  <2>1. CASE kit.modified # "UnModifiedButSaving"
    BY <1>7, <2>1
  <2>2. CASE kit.modified = "UnModifiedButSaving"
    <3>1. Told(marked, updated, TRUE)
      BY <1>5, <1>7, <2>2, CoreTold
    <3> QED BY <1>1, <1>5, <1>8, <2>2, <3>1 DEF Told, SameButCallbacks
  <2> QED BY <2>1, <2>2
<1>10. /\ DOMAIN kit' = KitFields /\ kit'.sessions = kit.sessions /\ kit'.queue = kit.queue /\ kit'.running = kit.running
       /\ kit'.callbacks = updated.callbacks /\ kit'.modified = updated.modified
  BY <1>6, <1>9 DEF KitOk, KitFields
<1>11. KitOk(kit') /\ LoadedViews(kit') = LoadedViews(kit)
  BY <1>9, <1>10 DEF KitOk, LoadedViews
<1>12. Types'
  <2>1. CoreOk'
    BY <1>1, <1>2 DEF Types, CoreOk
  <2> QED BY <1>1, <1>4, <1>11, <2>1 DEF Types
<1>13. OneSave'
  BY <1>3, <1>4, <1>9, <1>10, NoSaveIsLeft
<1>14. StateOk'
  <2>1. LastIsTrue' /\ QuietIsTrue'
    <3>1. CASE kit.modified = "UnModifiedButSaving" /\ ~core.modified
      <4>1. \A v \in LoadedViews(kit) : About(kit'.callbacks, v) # {} /\ LastIs(kit'.callbacks, v, TRUE)
        BY <1>9, <1>10, <3>1
      <4>2. core'.modified = TRUE
        BY <1>2, <3>1
      <4> QED BY <1>11, <4>1, <4>2 DEF LastIsTrue, QuietIsTrue
    <3>2. CASE kit.modified # "UnModifiedButSaving" \/ core.modified
      <4>1. kit'.callbacks = kit.callbacks /\ core'.modified = core.modified
        BY <1>1, <1>2, <1>9, <1>10, <3>2
      <4>2. LastIsTrue'
        BY <1>1, <1>11, <4>1 DEF StateOk, LastIsTrue
      <4>3. kit'.modified = kit.modified \/ (kit'.modified = "Modified" /\ core.modified)
        BY <1>9, <1>10, <3>2
      <4>4. QuietIsTrue'
        BY <1>1, <1>11, <4>1, <4>3 DEF StateOk, QuietIsTrue
      <4> QED BY <4>2, <4>4
    <3> QED BY <1>1, <3>1, <3>2
  <2>2. kit'.modified # "UnModifiedButSaving" /\ (kit'.modified # "UnModified" <=> kit.modified # "UnModified")
    BY <1>9, <1>10
  <2>3. WsdKnows'
    BY <1>1, <1>4, <2>2 DEF StateOk, WsdKnows
  <2>4. ForcedIsSaving' /\ NothingStale'
    BY <2>2 DEF ForcedIsSaving, NothingStale
  <2>5. ~raced' => UnmodifiedIsKept'
    BY <1>1, <1>2, <1>3 DEF StateOk, UnmodifiedIsKept
  <2> QED BY <2>1, <2>3, <2>4, <2>5 DEF StateOk
<1> QED BY <1>3, <1>12, <1>13, <1>14 DEF KitInv

(* A message of a child. *)
LEMMA ChildHeard ==
  ASSUME KitAssumption, KitInv, NEW p \in procs, BgSaveMessage(p)
  PROVE  KitInv' /\ disk \subseteq disk'
<1> DEFINE q == [p EXCEPT !.sent = Tail(p.sent), !.completed = TRUE]
<1>1. Types /\ StateOk /\ kit.alive /\ p.sent # <<>> /\ UNCHANGED <<disk, toKit, raced, count>> /\ ProcsOk /\ FileOk
  BY DEF KitInv, BgSaveMessage
<1>2. ProcessOk(p)
  BY <1>1 DEF ProcsOk
<1>3. p \in Open
  BY <1>1, <1>2 DEF ProcessOk, Open
<1>4. \A m : Head(<<m>>) = m /\ Tail(<<m>>) = <<>>
  OBVIOUS
<1>5. /\ Tail(p.sent) = <<>> /\ p.phase # "saving"
      /\ Head(p.sent) = "success" => p.sent = <<"success">> /\ p.phase # "asking"
      /\ Head(p.sent) = "failure" => p.phase # "asking"
  BY <1>1, <1>2, <1>4 DEF ProcessOk
<1>6. /\ DOMAIN q = {"id", "content", "phase", "sent", "completed"} /\ q.phase = p.phase /\ q.sent = <<>>
      /\ q.content = p.content /\ q.completed = TRUE
  BY <1>2, <1>5 DEF ProcessOk
<1>7. \/ /\ Head(p.sent) = "success"
         /\ kit' = NotifySyntheticUnmodified(kit)
         /\ wsd' = [Answered(wsd) EXCEPT !.modified = IF kit.modified = "UnModifiedButSaving" THEN FALSE ELSE @]
         /\ Becomes(p, q) /\ core' = core
      \/ /\ Head(p.sent) = "failure"
         /\ kit' = ReportFailedSave(kit) /\ core' = CoreAfterFailure /\ wsd' = Answered(wsd) /\ Becomes(p, q)
      \/ /\ Head(p.sent) = "jsdialog"
         /\ kit' = ReportFailedSave(kit) /\ core' = CoreAfterFailure /\ wsd' = Answered(wsd)
         /\ Becomes(p, TerminateSave(q))
  BY DEF BgSaveMessage
<1> HIDE DEF q
<1>8. ASSUME Becomes(p, q), p.phase # "asking" PROVE HeardFrom(p)
  <2>1. ProcessOk(q) /\ q.phase # "saving"
    BY <1>1, <1>2, <1>5, <1>6, <1>8 DEF ProcessOk
  <2> QED BY <1>6, <1>8, <2>1 DEF HeardFrom, Becomes
<1>9. ASSUME Becomes(p, TerminateSave(q)) PROVE HeardFrom(p)
  <2> DEFINE t == TerminateSave(q)
  <2>1. /\ DOMAIN t = {"id", "content", "phase", "sent", "completed"} /\ t.sent = <<>> /\ t.content = p.content
        /\ t.completed = TRUE /\ t.phase = IF p.phase = "asking" THEN "dismissed" ELSE p.phase
    BY <1>6 DEF TerminateSave
  <2> HIDE DEF t
  <2>2. ProcessOk(t) /\ t.phase # "saving"
    BY <1>1, <1>2, <1>5, <2>1 DEF ProcessOk
  <2>3. Becomes(p, t)
    BY <1>9 DEF t
  <2> QED BY <2>1, <2>2, <2>3 DEF HeardFrom, Becomes
<1>10. CASE Head(p.sent) # "success"
  <2>1. kit' = ReportFailedSave(kit) /\ core' = CoreAfterFailure /\ wsd' = Answered(wsd) /\ HeardFrom(p)
    BY <1>5, <1>7, <1>8, <1>9, <1>10
  <2>2. KitOk(kit)
    BY <1>1 DEF Types
  <2> QED BY <1>1, <1>3, <2>1, <2>2, FailureReported
<1>11. CASE Head(p.sent) = "success"
  <2>1. /\ kit' = NotifySyntheticUnmodified(kit) /\ core' = core /\ HeardFrom(p)
        /\ wsd' = [Answered(wsd) EXCEPT !.modified = IF kit.modified = "UnModifiedButSaving" THEN FALSE ELSE @]
    BY <1>5, <1>7, <1>8, <1>11
  <2>2. Applied' = Applied
    BY <2>1 DEF Applied
  <2>3. /\ ~Sent /\ ~Queued /\ ~Running /\ ~Answers /\ wsd.saves = 1 /\ Single(Open)
        /\ Open' = {} /\ ProcsOk' /\ FileOk' /\ \A x \in procs' : x.phase # "saving"
    BY <1>1, <1>3, <2>1, <2>2, SaveIsOver
  <2>4. Answered(wsd) \in WsdState /\ Answered(wsd).modified = wsd.modified /\ Answered(wsd).saves = 0
    BY <1>1, <2>3, AnsweredOnce DEF Types
  <2>5. /\ wsd' \in WsdState /\ wsd'.saves = 0
        /\ wsd'.modified = IF kit.modified = "UnModifiedButSaving" THEN FALSE ELSE wsd.modified
    BY <2>1, <2>4 DEF WsdState
  <2>6. KitOk(kit)
    BY <1>1 DEF Types
  <2>7. /\ DOMAIN kit' = KitFields /\ kit'.sessions = kit.sessions /\ kit'.queue = kit.queue
        /\ kit'.running = kit.running /\ kit'.callbacks = kit.callbacks
        /\ kit'.modified = IF kit.modified = "UnModifiedButSaving" THEN "UnModified" ELSE kit.modified
    BY <2>1, <2>6 DEF KitOk, KitFields, NotifySyntheticUnmodified
  <2>8. KitOk(kit') /\ LoadedViews(kit') = LoadedViews(kit)
    BY <2>6, <2>7 DEF KitOk, LoadedViews, DocumentState
  <2>9. Types'
    <3>1. CoreOk'
      BY <1>1, <2>1 DEF Types, CoreOk
    <3> QED BY <1>1, <2>5, <2>8, <3>1 DEF Types
  <2>10. OneSave'
    BY <1>1, <2>3, <2>5, <2>7, NoSaveIsLeft
  <2>11. StateOk'
    <3>1. LastIsTrue'
      BY <1>1, <2>1, <2>7, <2>8 DEF StateOk, LastIsTrue
    <3>2. QuietIsTrue'
      BY <1>1, <2>1, <2>7, <2>8 DEF StateOk, QuietIsTrue
    <3>3. WsdKnows' /\ ForcedIsSaving' /\ NothingStale'
      BY <1>1, <2>5, <2>7 DEF StateOk, WsdKnows, ForcedIsSaving, NothingStale
    <3>4. disk = p.content
      BY <1>1, <1>5, <1>11 DEF FileOk
    <3>5. \A o \in Open : o = p
      BY <1>3, <2>3 DEF Single
    <3>6. ~raced' => UnmodifiedIsKept'
      BY <1>1, <2>1, <2>2, <2>3, <3>4, <3>5 DEF StateOk, UnmodifiedIsKept
    <3> QED BY <3>1, <3>2, <3>3, <3>6 DEF StateOk
  <2> QED BY <1>1, <2>3, <2>9, <2>10, <2>11 DEF KitInv
<1> QED BY <1>1, <1>10, <1>11

(* A child is gone. *)
LEMMA ChildGone ==
  ASSUME KitAssumption, KitInv, NEW p \in procs, BgSaveDisconnect(p)
  PROVE  KitInv' /\ disk \subseteq disk'
<1> DEFINE k == [kit EXCEPT !.bgSavesOngoing = @ - 1]
<1>1. /\ Types /\ OneSave /\ StateOk /\ ProcsOk /\ kit.alive /\ KitOk(kit) /\ procs' = procs \ {p}
      /\ UNCHANGED <<disk, toKit, raced, count>>
  BY DEF KitInv, BgSaveDisconnect, Types
<1>2. ProcessOk(p)
  BY <1>1 DEF ProcsOk
<1>3. /\ KitOk(k) /\ k.sessions = kit.sessions /\ k.queue = kit.queue /\ k.running = kit.running
      /\ k.callbacks = kit.callbacks /\ k.modified = kit.modified /\ k.alive = kit.alive
  BY <1>1 DEF KitOk, KitFields
<1>4. \/ ~p.completed /\ kit' = ReportFailedSave(k) /\ core' = CoreAfterFailure /\ wsd' = Answered(wsd)
      \/ p.completed /\ kit' = k /\ core' = core /\ wsd' = wsd
  <2>1. p.phase = "crashed" => ~p.completed
    BY <1>2 DEF ProcessOk
  <2> QED BY <2>1 DEF BgSaveDisconnect
<1> HIDE DEF k
<1>5. CASE ~p.completed
  <2>1. p \in Open /\ HeardFrom(p)
    BY <1>1, <1>5 DEF Open, HeardFrom
  <2> QED BY <1>1, <1>3, <1>4, <1>5, <2>1, FailureReported
<1>6. CASE p.completed
  <2>1. kit' = k /\ core' = core /\ wsd' = wsd
    BY <1>4, <1>6
  <2>2. Open' = Open /\ Applied' = Applied /\ LoadedViews(kit') = LoadedViews(kit)
    BY <1>1, <1>3, <1>6, <2>1 DEF Open, Applied, LoadedViews
  <2>3. Types'
    BY <1>1, <1>3, <2>1, KitTypes
  <2>4. OneSave'
    <3>1. (Sent' => Sent) /\ (Queued' => Queued) /\ (Running' => Running)
      BY <1>1, <1>3, <2>1 DEF Sent, Queued, Running
    <3> QED BY <1>1, <1>3, <2>1, <3>1, OnlyMessages
  <2>5. ProcsOk' /\ FileOk'
    BY <1>1, <2>2 DEF KitInv, ProcsOk, FileOk
  <2>6. StateOk'
    <3>1. \A o \in Open : \E x \in Open' : x.content = o.content
      BY <2>2
    <3> QED BY <1>1, <1>3, <2>1, <2>2, <3>1, StateKept
  <2> QED BY <1>1, <2>3, <2>4, <2>5, <2>6 DEF KitInv
<1> QED BY <1>1, <1>5, <1>6

-----------------------------------------------------------------------------
(* wsd.                                                                       *)

(* wsd sends something, and the Kit does nothing. *)
LEMMA WsdSends ==
  ASSUME KitInv, UNCHANGED <<kit, core, procs, disk, raced>>, QueueOk(toKit'),
         wsd' \in WsdState, wsd'.modified = wsd.modified, OneSave',
         count' = count \/ \E e \in {"requests", "events"} : count' = [count EXCEPT ![e] = @ + 1]
  PROVE  KitInv'
<1>1. Types /\ KitOk(kit')
  BY DEF KitInv, Types
<1>2. Types'
  <2>1. CoreOk'
    BY <1>1 DEF Types, CoreOk
  <2>2. count' \in [requests : Nat, events : Nat]
    BY <1>1 DEF Types
  <2> QED BY <1>1, <2>1, <2>2 DEF Types
<1>3. LoadedViews(kit') \subseteq LoadedViews(kit)
  OBVIOUS
<1> QED BY <1>2, <1>3, NothingSaved

LEMMA Joins ==
  ASSUME KitInv, NEW s \in Session, JoinDocument(s)
  PROVE  KitInv'
<1> DEFINE one == [type |-> "session", session |-> s]
           two == [type |-> "load", session |-> s]
<1>1. Types /\ OneSave /\ UNCHANGED <<kit, core, procs, disk, raced, count>> /\ QueueOk(toKit)
      /\ wsd' = [wsd EXCEPT !.sessions = @ \cup {s}]
  BY DEF KitInv, JoinDocument, Types
<1>2. toKit' = Append(toKit, one) \o <<>> \/ toKit' = Append(toKit, one) \o <<two>>
  BY DEF JoinDocument
<1>3. MessageOk(one) /\ MessageOk(two) /\ one.type # "save" /\ two.type # "save"
  BY DEF MessageOk, TextTypes
<1> HIDE DEF one, two
<1>4. toKit' = Append(toKit, one) \/ toKit' = Append(Append(toKit, one), two)
  <2>1. toKit \in Seq(In(toKit) \cup {one, two})
    BY <1>1 DEF QueueOk
  <2>2. Append(toKit, one) \in Seq(In(toKit) \cup {one, two})
    BY <2>1
  <2>3. \A S : \A q \in Seq(S) : q \o <<>> = q
    OBVIOUS
  <2>4. \A S : \A q \in Seq(S) : \A x \in S : q \o <<x>> = Append(q, x)
    OBVIOUS
  <2> QED BY <1>2, <2>2, <2>3, <2>4
<1>5. QueueOk(Append(toKit, one)) /\ SavesIn(Append(toKit, one)) = SavesIn(toKit)
  BY <1>1, <1>3, MessageAppended
<1>6. /\ QueueOk(Append(Append(toKit, one), two))
      /\ SavesIn(Append(Append(toKit, one), two)) = SavesIn(Append(toKit, one))
  BY <1>3, <1>5, MessageAppended
<1>7. QueueOk(toKit') /\ SavesIn(toKit') = SavesIn(toKit)
  BY <1>4, <1>5, <1>6
<1>8. wsd' \in WsdState /\ wsd'.modified = wsd.modified /\ wsd'.saves = wsd.saves
  <2>1. wsd \in WsdState
    BY <1>1 DEF Types
  <2>2. wsd.sessions \cup {s} \in SUBSET Session
    BY <2>1 DEF WsdState
  <2> QED BY <1>1, <2>1, <2>2 DEF WsdState
<1>9. OneSave'
  <2>1. (Sent' => Sent) /\ (Queued' => Queued) /\ (Running' => Running)
    BY <1>1, <1>7 DEF Sent, Queued, Running
  <2> QED BY <1>1, <1>7, <1>8, <2>1, OnlyMessages
<1> QED BY <1>1, <1>7, <1>8, <1>9, WsdSends

LEMMA Leaves ==
  ASSUME KitInv, NEW s \in Session, Leave(s)
  PROVE  KitInv'
<1> DEFINE msg == [type |-> "disconnect", session |-> s]
<1>1. Types /\ OneSave /\ UNCHANGED <<kit, core, procs, disk, raced>> /\ QueueOk(toKit) /\ Counts("events", MaxEvents)
      /\ wsd' = [wsd EXCEPT !.sessions = @ \ {s}] /\ toKit' = Append(toKit, msg)
  BY DEF KitInv, Leave, Types
<1>2. MessageOk(msg) /\ msg.type # "save"
  BY DEF MessageOk, TextTypes
<1> HIDE DEF msg
<1>3. QueueOk(toKit') /\ SavesIn(toKit') = SavesIn(toKit)
  BY <1>1, <1>2, MessageAppended
<1>4. wsd' \in WsdState /\ wsd'.modified = wsd.modified /\ wsd'.saves = wsd.saves
  <2>1. wsd \in WsdState
    BY <1>1 DEF Types
  <2>2. wsd.sessions \ {s} \in SUBSET Session
    BY <2>1 DEF WsdState
  <2> QED BY <1>1, <2>1, <2>2 DEF WsdState
<1>5. OneSave'
  <2>1. (Sent' => Sent) /\ (Queued' => Queued) /\ (Running' => Running)
    BY <1>1, <1>3 DEF Sent, Queued, Running
  <2> QED BY <1>1, <1>3, <1>4, <2>1, OnlyMessages
<1> QED BY <1>1, <1>3, <1>4, <1>5, WsdSends, Counted

LEMMA Inputs ==
  ASSUME KitAssumption, KitInv, NEW s \in Session, NEW type \in InputTypes, Input(s, type)
  PROVE  KitInv'
<1> DEFINE msg == [type |-> type, session |-> s, ids |-> <<<<s, count.requests + 1>>>>]
<1>1. Types /\ OneSave /\ UNCHANGED <<kit, core, procs, disk, wsd, raced>> /\ QueueOk(toKit)
      /\ Counts("requests", MaxRequests) /\ toKit' = Append(toKit, msg)
  BY DEF KitInv, Input, Types
<1>2. <<<<s, count.requests + 1>>>> \in Seq(Id)
  <2>1. count.requests + 1 \in Nat
    BY <1>1 DEF Types
  <2>2. <<s, count.requests + 1>> \in Id
    BY <2>1 DEF Id
  <2> HIDE DEF Id
  <2>3. \A x \in Id : <<x>> \in Seq(Id)
    OBVIOUS
  <2> QED BY <2>2, <2>3
<1>3. type \in TextTypes /\ type # "save"
  BY DEF KitAssumption, TextTypes
<1>4. MessageOk(msg) /\ msg.type # "save"
  BY <1>2, <1>3 DEF MessageOk
<1> HIDE DEF msg
<1>5. QueueOk(toKit') /\ SavesIn(toKit') = SavesIn(toKit)
  BY <1>1, <1>4, MessageAppended
<1>6. wsd' \in WsdState /\ wsd'.modified = wsd.modified /\ wsd'.saves = wsd.saves
  BY <1>1 DEF Types
<1>7. OneSave'
  <2>1. (Sent' => Sent) /\ (Queued' => Queued) /\ (Running' => Running)
    BY <1>1, <1>5 DEF Sent, Queued, Running
  <2> QED BY <1>1, <1>5, <1>6, <2>1, OnlyMessages
<1> QED BY <1>1, <1>5, <1>6, <1>7, WsdSends, Counted

(* The only step that asks for a save: none is unanswered. *)
LEMMA AsksToSave ==
  ASSUME OneByOne, KitInv, NEW s \in Session, Save(s)
  PROVE  KitInv'
<1> DEFINE msg == [type |-> "save", session |-> s]
<1>1. Types /\ OneSave /\ UNCHANGED <<kit, core, procs, disk, raced>> /\ QueueOk(toKit) /\ wsd.saves = 0
      /\ Counts("requests", MaxRequests)
      /\ wsd' = [wsd EXCEPT !.saves = wsd.saves + 1] /\ toKit' = Append(toKit, msg)
  BY DEF KitInv, Save, Types, OneByOne
<1>2. MessageOk(msg) /\ msg.type = "save"
  BY DEF MessageOk, TextTypes
<1> HIDE DEF msg
<1>3. ~Sent /\ ~Queued /\ ~Running /\ ~Answers /\ ~Forked
  BY <1>1 DEF OneSave
<1>4. QueueOk(toKit') /\ Single(SavesIn(toKit'))
  BY <1>1, <1>2, <1>3, MessageAppended DEF Sent
<1>5. wsd' \in WsdState /\ wsd'.modified = wsd.modified /\ wsd'.saves = 1
  <2>1. wsd \in WsdState /\ wsd.saves + 1 = 1
    BY <1>1 DEF Types
  <2> QED BY <1>1, <2>1 DEF WsdState
<1>6. OneSave'
  <2>1. ~Queued' /\ ~Running' /\ ~Answers' /\ ~Forked' /\ Open' = Open
    BY <1>1, <1>3 DEF Queued, Running, Answers, Forked, Open
  <2>2. kit' = kit
    BY <1>1
  <2> QED BY <1>1, <1>4, <1>5, <2>1, <2>2 DEF OneSave
<1> QED BY <1>1, <1>4, <1>5, <1>6, WsdSends, Counted
-----------------------------------------------------------------------------
(* The theorems.                                                              *)

LEMMA InitKept ==
  ASSUME Init
  PROVE  KitInv
<1>1. <<>> \in Seq(In(<<>>)) /\ In(<<>>) = {} /\ DOMAIN <<>> = {} /\ <<>> \in Seq(Id)
  <2>1. \A S : <<>> \in Seq(S)
    OBVIOUS
  <2> QED BY <2>1 DEF In
<1>2. QueueOk(<<>>) /\ CallbacksOk(<<>>)
  BY <1>1 DEF QueueOk, CallbacksOk
<1>3. /\ DOMAIN kit = KitFields /\ kit.sessions = [s \in Session |-> "none"] /\ kit.running = NoOp /\ kit.queue = <<>>
      /\ kit.callbacks = <<>> /\ kit.modified = "UnModified"
  BY DEF Init, KitFields
<1>4. /\ core.applied = <<>> /\ core.modified = FALSE /\ DOMAIN core = {"loaded", "applied", "modified"}
      /\ procs = {} /\ disk = {} /\ toKit = <<>> /\ wsd.saves = 0 /\ wsd.modified = FALSE /\ raced = FALSE
  BY DEF Init
<1>5. KitOk(kit)
  BY <1>2, <1>3 DEF KitOk, NoOp, DocumentState
<1>6. CoreOk
  BY <1>1, <1>4 DEF CoreOk
<1>7. wsd \in WsdState /\ count \in [requests : Nat, events : Nat]
  BY DEF Init, WsdState
<1>8. Types
  BY <1>2, <1>4, <1>5, <1>6, <1>7 DEF Types
<1>9. ~Sent /\ ~Queued /\ ~Running /\ ~Answers /\ ~Forked /\ Open = {}
  BY <1>1, <1>3, <1>4 DEF Sent, Queued, Running, Answers, Forked, Open, SavesIn, ResultsIn, NoOp
<1>10. OneSave
  BY <1>4, <1>9 DEF OneSave, Single, Sent, Queued, Answers
<1>11. Applied = {}
  BY <1>1, <1>4 DEF Applied
<1>12. ProcsOk /\ FileOk
  BY <1>4, <1>11 DEF ProcsOk, FileOk
<1>13. LoadedViews(kit) = {}
  BY <1>3 DEF LoadedViews
<1>14. StateOk
  <2>1. LastIsTrue /\ QuietIsTrue
    BY <1>13 DEF LastIsTrue, QuietIsTrue
  <2>2. WsdKnows /\ ForcedIsSaving /\ NothingStale
    BY <1>3, <1>4 DEF WsdKnows, ForcedIsSaving, NothingStale
  <2>3. UnmodifiedIsKept
    BY <1>4, <1>11 DEF UnmodifiedIsKept
  <2> QED BY <2>1, <2>2, <2>3 DEF StateOk
<1> QED BY <1>8, <1>10, <1>12, <1>14 DEF KitInv

(* No step breaks the invariant, and none takes anything out of the file. *)
LEMMA StepKept ==
  ASSUME KitAssumption, OneByOne, KitInv, [Next]_vars
  PROVE  KitInv' /\ disk \subseteq disk'
<1>1. CASE UNCHANGED vars
  <2>1. UNCHANGED <<kit, core, procs, disk, toKit, wsd, raced, count>>
    BY <1>1 DEF vars
  <2>2. Types /\ OneSave
    BY DEF KitInv
  <2>3. OneSave'
    <3>1. (Sent' => Sent) /\ (Queued' => Queued) /\ (Running' => Running)
      BY <2>1 DEF Sent, Queued, Running
    <3> QED BY <2>1, <2>2, <3>1, OnlyMessages
  <2>4. QueueOk(toKit') /\ wsd' \in WsdState
    BY <2>1, <2>2 DEF Types
  <2> QED BY <2>1, <2>3, <2>4, WsdSends
<1>2. CASE DrainCallbacks
  <2>1. disk' = disk
    BY <1>2 DEF DrainCallbacks
  <2> QED BY <1>2, <2>1, Drains
<1>3. CASE ReceiveMessage
  <2>1. disk' = disk
    BY <1>3 DEF ReceiveMessage
  <2> QED BY <1>3, <2>1, Receives
<1>4. CASE StartLoad
  <2>1. disk' = disk
    BY <1>4 DEF StartLoad
  <2> QED BY <1>4, <2>1, StartsLoad
<1>5. CASE FinishLoad
  <2>1. disk' = disk
    BY <1>5 DEF FinishLoad
  <2> QED BY <1>5, <2>1, FinishesLoad
<1>6. CASE FailLoad
  <2>1. disk' = disk
    BY <1>6 DEF FailLoad
  <2> QED BY <1>6, <2>1, FailsLoad
<1>7. CASE ApplyInput
  <2>1. disk' = disk
    BY <1>7 DEF ApplyInput
  <2> QED BY <1>7, <2>1, AppliesInput
<1>8. CASE DisconnectSession
  <2>1. disk' = disk
    BY <1>8 DEF DisconnectSession
  <2> QED BY <1>8, <2>1, Disconnects
<1>9. CASE PurgeSessions
  <2>1. disk' = disk
    BY <1>9 DEF PurgeSessions
  <2> QED BY <1>9, <2>1, Purges
<1>10. CASE ForkToSave
  <2>1. disk' = disk
    BY <1>10 DEF ForkToSave
  <2> QED BY <1>10, <2>1, Forks
<1>11. CASE StartSave
  <2>1. disk' = disk
    BY <1>11 DEF StartSave
  <2> QED BY <1>11, <2>1, StartsSave
<1>12. CASE FinishSave(TRUE) \/ FinishSave(FALSE)
  <2>1. TRUE \in BOOLEAN /\ FALSE \in BOOLEAN
    OBVIOUS
  <2> QED BY <1>12, <2>1, FinishesSave
<1>13. ASSUME NEW p \in procs, ChildSaves(p, TRUE) \/ ChildSaves(p, FALSE) PROVE KitInv' /\ disk \subseteq disk'
  <2>1. TRUE \in BOOLEAN /\ FALSE \in BOOLEAN
    OBVIOUS
  <2> QED BY <1>13, <2>1, ChildSaved
<1>14. ASSUME NEW p \in procs, ChildExits(p) \/ ChildCrashes(p) \/ ChildAsks(p) PROVE KitInv' /\ disk \subseteq disk'
  BY <1>14, ChildExited, ChildCrashed, ChildAsked
<1>15. ASSUME NEW p \in procs, BgSaveMessage(p) \/ BgSaveDisconnect(p) PROVE KitInv' /\ disk \subseteq disk'
  BY <1>15, ChildHeard, ChildGone
<1>16. ASSUME NEW s \in Session, JoinDocument(s) \/ Leave(s) \/ Save(s) PROVE KitInv' /\ disk \subseteq disk'
  <2>1. disk' = disk
    BY <1>16 DEF JoinDocument, Leave, Save
  <2> QED BY <1>16, <2>1, Joins, Leaves, AsksToSave
<1>17. ASSUME NEW s \in Session, NEW type \in InputTypes, Input(s, type) PROVE KitInv' /\ disk \subseteq disk'
  <2>1. disk' = disk
    BY <1>17 DEF Input
  <2> QED BY <1>17, <2>1, Inputs
<1>18. Kit \/ Failure \/ Wsd \/ UNCHANGED vars
  BY DEF Next
<1>19. CASE Kit
  BY <1>2, <1>3, <1>4, <1>5, <1>7, <1>8, <1>9, <1>10, <1>11, <1>12, <1>13, <1>14, <1>15, <1>19 DEF Kit
<1>20. CASE Failure
  BY <1>6, <1>12, <1>13, <1>14, <1>20 DEF Failure
<1>21. CASE Wsd
  BY <1>16, <1>17, <1>21 DEF Wsd
<1> QED BY <1>1, <1>18, <1>19, <1>20, <1>21

LEMMA InvariantHolds ==
  ASSUME KitAssumption, OneByOne
  PROVE  Spec => []KitInv
<1>1. Init => KitInv
  BY InitKept
<1>2. KitInv /\ [Next]_vars => KitInv'
  BY StepKept
<1> QED BY <1>1, <1>2, PTL DEF Spec

(* What has been saved once is not lost from the file by another save: no     *)
(* older save is written last (BgSaveParentWebSocketHandler, saveDocument).   *)
THEOREM FilesOnlyGrow ==
  ASSUME KitAssumption, OneByOne
  PROVE  Spec => FileNeverGoesBack
<1>1. Spec => []KitInv
  BY InvariantHolds
<1>2. KitInv /\ [Next]_vars => [disk \subseteq disk']_vars
  BY StepKept
<1> QED BY <1>1, <1>2, PTL DEF Spec, FileNeverGoesBack

(* A document at rest that wsd takes for unmodified is the one in the file,   *)
(* unless a 'modified' was still queued when a fork cleared the state         *)
(* (forceDocUnmodifiedForBgSave, trackDocModifiedState).                      *)
THEOREM UnmodifiedIsInTheFile ==
  ASSUME KitAssumption, OneByOne
  PROVE  Spec => []UnmodifiedIsSavedOrRaced
<1>1. Spec => []KitInv
  BY InvariantHolds
<1>2. KitInv => UnmodifiedIsSavedOrRaced
  <2> SUFFICES ASSUME KitInv, ~raced, AtRest, ~wsd.modified PROVE Applied = disk
    BY DEF UnmodifiedIsSavedOrRaced, UnmodifiedIsSaved
  <2>1. StateOk /\ kit.callbacks = <<>> /\ procs = {} /\ core.modified \in BOOLEAN
    BY DEF KitInv, AtRest, Types, CoreOk
  <2>2. kit.modified = "UnModified"
    BY <2>1 DEF StateOk, WsdKnows
  <2>3. PICK v \in LoadedViews(kit) : TRUE
    BY DEF AtRest, HaveLoadedSessions, LoadedViews
  <2>4. About(kit.callbacks, v) = {}
    BY <2>1 DEF About
  <2>5. ~core.modified
    BY <2>1, <2>2, <2>3, <2>4 DEF StateOk, QuietIsTrue
  <2> QED BY <2>1, <2>2, <2>5 DEF StateOk, UnmodifiedIsKept
<1> QED BY <1>1, <1>2, PTL
================================================================================
