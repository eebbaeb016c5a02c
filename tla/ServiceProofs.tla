----------------------------- MODULE ServiceProofs ----------------------------
(* What the services around a document promise, for any sessions, monitors,   *)
(* fonts, documents and consoles.                                             *)
(*                                                                            *)
(* Rights: what the storage does not allow a user is not done in his name.    *)
(* The flags of a session do not stay within its rights: a session that may   *)
(* only comment, loses the lock and gets it back is no longer read-only       *)
(* (attemptlock). What keeps the document safe is that the view has the flags *)
(* of the load, so the invariant is about those on their way: they are right  *)
(* while the session is about to load (FlagsAreRight), in the line that loads *)
(* (LinesAreRight), and in the view (ViewsAreRight); and nothing is on its    *)
(* way for a session whose user nobody knows yet (NothingAsked).              *)
(*                                                                            *)
(* Views: Core does what a client asks in the view of that client.            *)
(*                                                                            *)
(* Monitors: a listed monitor is on its way to be connected or has one        *)
(* connection, and no monitor has two.                                        *)
(*                                                                            *)
(* Fonts: what the messages on their way make of ForKit is what is known of   *)
(* the fonts (Told). An order of downloads is a list of any length, so the    *)
(* argument goes along it (FoldExists of Induction).                          *)
(*                                                                            *)
(* Admin: what the calls on their way make of the model is what the brokers   *)
(* have (Leads), and no call finds a document of another Kit (Barriers).      *)
(*                                                                            *)
(* Quarantine: the last copy of a document is never older than the version    *)
(* that counts (AsJailed), and the last entry of a document denotes what was  *)
(* quarantined last, since a name in a directory is of one file (OneOfAName). *)
EXTENDS Services, Induction, FiniteSetTheorems

(* The rights.                                                               *)

(* Flags, lines and views.                                                    *)
FlagsType ==
  [permission : BOOLEAN, writable : BOOLEAN, readOnly : BOOLEAN,
   comments : BOOLEAN, redlines : BOOLEAN, lockFailed : BOOLEAN]
ViewType == [readOnly : BOOLEAN, comments : BOOLEAN, redlines : BOOLEAN]
LineOnItsWay ==
  [cmd : {"load"}, what : ViewType] \cup [cmd : {"change"}, what : Change]
    \cup [cmd : {"export", "dummy"}, what : Export] \cup [cmd : {"view"}, what : {"view"}]

RightsTypes ==
  /\ info \in [Session -> Info] /\ viewFile \in BOOLEAN
  /\ flags \in [Session -> FlagsType] /\ view \in [Session -> ViewType]
  /\ stage \in [Session -> {"new", "added", "loading", "loaded", "gone"}]
  /\ queue \in [Session -> Seq(LineOnItsWay)]
  /\ changes \subseteq Session \X Change /\ exported \subseteq Session \X Export /\ saves \subseteq Session

(* Flags, of a session, a line or a view, that allow no more than the storage *)
(* allows the user.                                                           *)
Right(s, f) == \A what \in Change : CoreAllows(f, what) => Allowed(s, what)

FlagsAreRight ==
  \A s \in Session :
    /\ stage[s] = "new" => flags[s] = NewFlags(info[s])
    /\ stage[s] = "added" => Right(s, flags[s])
    /\ stage[s] # "new" /\ info[s].access = "view" => ~flags[s].writable
LinesAreRight ==
  \A s \in Session : \A i \in DOMAIN queue[s] : queue[s][i].cmd = "load" => Right(s, queue[s][i].what)
NothingAsked == \A s \in Session : stage[s] = "new" => queue[s] = <<>>
ViewsAreRight == \A s \in Session : Right(s, view[s])

RightsInv == RightsTypes /\ FlagsAreRight /\ LinesAreRight /\ NothingAsked /\ ViewsAreRight /\ RightsAreKept
-----------------------------------------------------------------------------
(* The flags.                                                                 *)

(* What the storage says of a user. *)
LEMMA InfoType ==
  ASSUME RightsAssumption, NEW i \in Info
  PROVE  /\ i.access \in Access /\ i.readOnlyUrl \in BOOLEAN /\ i.lockedUser \in BOOLEAN
         /\ i.disabled \in SUBSET {"copy", "print", "export"}
BY DEF RightsAssumption

(* The flags that a session starts with. *)
LEMMA NewFlagsType ==
  ASSUME RightsAssumption, NEW i \in Info
  PROVE  /\ NewFlags(i) \in FlagsType /\ (NewFlags(i).readOnly <=> i.readOnlyUrl)
         /\ ~NewFlags(i).comments /\ ~NewFlags(i).redlines
<1>1. i.readOnlyUrl \in BOOLEAN
  BY InfoType
<1>2. (~i.readOnlyUrl) \in BOOLEAN
  OBVIOUS
<1> QED BY <1>1, <1>2, Zenon DEF NewFlags, FlagsType

(* A session that may not write to the storage may not change anything. *)
LEMMA NotWritable ==
  ASSUME NEW f \in FlagsType
  PROVE  LET g == SetWritable(f, FALSE)
         IN  g \in FlagsType /\ ~g.writable /\ g.readOnly /\ ~g.comments /\ ~g.redlines
BY DEF SetWritable, FlagsType

(* One that may. *)
LEMMA Writable ==
  ASSUME NEW f \in FlagsType, NEW b \in BOOLEAN
  PROVE  LET g == SetReadOnly(SetWritable(f, TRUE), b)
         IN  /\ g \in FlagsType /\ (g.readOnly <=> b)
             /\ (g.comments <=> f.comments) /\ (g.redlines <=> f.redlines)
BY DEF SetWritable, SetReadOnly, FlagsType

(* One that has the permission to write. *)
LEMMA Permitted ==
  ASSUME NEW f \in FlagsType
  PROVE  LET g == SetWritePermission(f, TRUE)
         IN  /\ g \in FlagsType /\ (g.readOnly <=> f.readOnly)
             /\ (g.comments <=> f.comments) /\ (g.redlines <=> f.redlines)
BY DEF SetWritePermission, FlagsType

(* One that has not. *)
LEMMA NotPermitted ==
  ASSUME NEW f \in FlagsType
  PROVE  LET g == SetWritePermission(f, FALSE)
         IN  g \in FlagsType /\ ~g.writable /\ g.readOnly /\ ~g.comments /\ ~g.redlines
<1> DEFINE h == [f EXCEPT !.permission = FALSE]
<1>1. h \in FlagsType /\ SetWritePermission(f, FALSE) = SetWritable(h, FALSE)
  BY DEF SetWritePermission, FlagsType
<1> HIDE DEF h
<1> QED BY <1>1, NotWritable

(* What is said of a user's comments and tracked changes. *)
LEMMA Commenting ==
  ASSUME NEW f \in FlagsType
  PROVE  /\ LET g == OnlyComments(f)
            IN  g \in FlagsType /\ g.readOnly /\ g.comments /\ (g.redlines <=> f.redlines)
         /\ LET g == OnlyRedlines(f)
            IN  g \in FlagsType /\ g.readOnly /\ g.redlines /\ (g.comments <=> f.comments)
         /\ LET g == FullyWritable(f)
            IN  g \in FlagsType /\ ~g.readOnly /\ g.comments /\ (g.redlines <=> f.redlines)
<1> DEFINE t == SetReadOnly(SetWritable(f, TRUE), TRUE)
           u == SetReadOnly(SetWritable(f, TRUE), FALSE)
<1>1. /\ t \in FlagsType /\ t.readOnly /\ (t.comments <=> f.comments) /\ (t.redlines <=> f.redlines)
      /\ u \in FlagsType /\ ~u.readOnly /\ (u.comments <=> f.comments) /\ (u.redlines <=> f.redlines)
  BY Writable
<1>2. /\ OnlyComments(f) = [t EXCEPT !.comments = TRUE] /\ OnlyRedlines(f) = [t EXCEPT !.redlines = TRUE]
      /\ FullyWritable(f) = [u EXCEPT !.comments = TRUE]
  BY DEF OnlyComments, OnlyRedlines, FullyWritable
<1> HIDE DEF t, u
<1> QED BY <1>1, <1>2 DEF FlagsType

(* The flags are right once the storage has been asked. *)
LEMMA WithWopiInfoIsRight ==
  ASSUME RightsAssumption, RightsTypes, NEW s \in Session
  PROVE  LET f == WithWopiInfo(NewFlags(info[s]), info[s])
         IN  f \in FlagsType /\ Right(s, f) /\ (info[s].access = "view" => ~f.writable)
<1> DEFINE i == info[s]
           n == NewFlags(i)
           g == SetWritePermission(n, TRUE)
           f == WithWopiInfo(n, i)
<1>1. /\ i \in Info /\ viewFile \in BOOLEAN
      /\ i.access \in Access /\ i.readOnlyUrl \in BOOLEAN /\ i.lockedUser \in BOOLEAN
  BY InfoType DEF RightsTypes
<1>2. n \in FlagsType /\ (n.readOnly <=> i.readOnlyUrl) /\ ~n.comments /\ ~n.redlines
  BY <1>1, NewFlagsType
<1>3. g \in FlagsType /\ (g.readOnly <=> i.readOnlyUrl) /\ ~g.comments /\ ~g.redlines
  BY <1>2, Permitted
<1>4. /\ i.access = "comment" => f = OnlyComments(g)
      /\ i.access = "redlines" => f = OnlyRedlines(g)
      /\ i.access = "view" => f = SetWritePermission(n, FALSE)
      /\ i.access = "all" =>
           f = IF g.readOnly \/ i.lockedUser THEN SetWritable(g, FALSE)
               ELSE IF viewFile THEN OnlyComments(g) ELSE FullyWritable(g)
  BY <1>1 DEF WithWopiInfo, Access
<1> HIDE DEF f, g, n, i
<1>5. CASE i.access = "comment"
  <2>1. f \in FlagsType /\ f.readOnly /\ f.comments /\ ~f.redlines
    BY <1>3, <1>4, <1>5, Commenting
  <2> QED BY <1>5, <2>1 DEF f, n, i, Right, CoreAllows, Allowed, Change
<1>6. CASE i.access = "redlines"
  <2>1. f \in FlagsType /\ f.readOnly /\ ~f.comments /\ f.redlines
    BY <1>3, <1>4, <1>6, Commenting
  <2> QED BY <1>6, <2>1 DEF f, n, i, Right, CoreAllows, Allowed, Change
<1>7. CASE i.access = "view"
  <2>1. f \in FlagsType /\ ~f.writable /\ f.readOnly /\ ~f.comments /\ ~f.redlines
    BY <1>2, <1>4, <1>7, NotPermitted
  <2> QED BY <1>7, <2>1 DEF f, n, i, Right, CoreAllows
<1>8. CASE i.access = "all"
  <2>1. CASE g.readOnly \/ i.lockedUser
    <3>1. f \in FlagsType /\ f.readOnly /\ ~f.comments /\ ~f.redlines
      BY <1>3, <1>4, <1>8, <2>1, NotWritable
    <3> QED BY <1>8, <3>1 DEF f, n, i, Right, CoreAllows
  <2>2. CASE ~(g.readOnly \/ i.lockedUser) /\ viewFile
    <3>1. f \in FlagsType /\ f.readOnly /\ f.comments /\ ~f.redlines
      BY <1>3, <1>4, <1>8, <2>2, Commenting
    <3> QED BY <1>3, <1>8, <2>2, <3>1 DEF f, n, i, Right, CoreAllows, Allowed, Change
  <2>3. CASE ~(g.readOnly \/ i.lockedUser) /\ ~viewFile
    <3>1. f \in FlagsType
      BY <1>3, <1>4, <1>8, <2>3, Commenting
    <3> QED BY <1>3, <1>8, <2>3, <3>1 DEF f, n, i, Right, CoreAllows, Allowed
  <2> QED BY <2>1, <2>2, <2>3
<1> QED BY <1>1, <1>5, <1>6, <1>7, <1>8 DEF Access, f, n, i

(* What a line says is what the session may. *)
LEMMA LoadLineIsRight ==
  ASSUME NEW s \in Session, NEW f \in FlagsType, Right(s, f)
  PROVE  LoadLine(f) \in LineOnItsWay /\ LoadLine(f).cmd = "load" /\ Right(s, LoadLine(f).what)
<1> DEFINE v == [readOnly |-> f.readOnly, comments |-> f.comments, redlines |-> f.redlines]
<1>1. v \in ViewType /\ v.readOnly = f.readOnly /\ v.comments = f.comments /\ v.redlines = f.redlines
  <2>1. f.readOnly \in BOOLEAN /\ f.comments \in BOOLEAN /\ f.redlines \in BOOLEAN
    BY DEF FlagsType
  <2> QED BY <2>1, Zenon DEF ViewType
<1>2. LoadLine(f) = [cmd |-> "load", what |-> v]
  BY DEF LoadLine
<1> HIDE DEF v
<1>3. LoadLine(f) \in LineOnItsWay /\ LoadLine(f).cmd = "load" /\ LoadLine(f).what = v
  BY <1>1, <1>2 DEF LineOnItsWay
<1>4. Right(s, v)
  BY <1>1 DEF Right, CoreAllows
<1> QED BY <1>3, <1>4

(* Without the right to write, nothing is allowed. *)
LEMMA NothingIsRight ==
  ASSUME NEW s \in Session, NEW f, f.readOnly, ~f.comments, ~f.redlines
  PROVE  Right(s, f)
BY DEF Right, CoreAllows
-----------------------------------------------------------------------------
(* What most steps leave alone.                                               *)

(* What is allowed is said once and for all. *)
LEMMA RightStays ==
  ASSUME UNCHANGED <<info, viewFile>>
  PROVE  \A s, f : Right(s, f)' <=> Right(s, f)
BY DEF Right, CoreAllows, Allowed

(* A line is queued that does not load, or that is right. *)
LEMMA QueueIsRight ==
  ASSUME RightsInv, NEW s \in Session, NEW m \in LineOnItsWay, m.cmd = "load" => Right(s, m.what), Forward(s, m)
  PROVE  /\ queue' \in [Session -> Seq(LineOnItsWay)]
         /\ \A t \in Session : \A i \in DOMAIN queue'[t] :
              queue'[t][i].cmd = "load" => Right(t, queue'[t][i].what)
<1> DEFINE old == queue[s]
           new == Append(old, m)
<1>1. old \in Seq(LineOnItsWay) /\ queue' = [queue EXCEPT ![s] = new] /\ queue \in [Session -> Seq(LineOnItsWay)]
  BY DEF Forward, RightsInv, RightsTypes
<1>2. /\ Len(old) \in Nat /\ DOMAIN old = 1..Len(old) /\ DOMAIN new = 1..(Len(old) + 1)
      /\ new[Len(old) + 1] = m /\ (\A i \in DOMAIN old : new[i] = old[i]) /\ new \in Seq(LineOnItsWay)
  BY <1>1
<1>3. \A i \in DOMAIN new : i \in DOMAIN old \/ i = Len(old) + 1
  BY <1>2
<1>4. \A i \in DOMAIN old : old[i].cmd = "load" => Right(s, old[i].what)
  BY DEF RightsInv, LinesAreRight
<1> HIDE DEF old, new
<1>5. \A i \in DOMAIN new : new[i].cmd = "load" => Right(s, new[i].what)
  BY <1>2, <1>3, <1>4
<1>6. \A t \in Session : queue'[t] = IF t = s THEN new ELSE queue[t]
  BY <1>1
<1> QED BY <1>1, <1>2, <1>5, <1>6 DEF RightsInv, LinesAreRight

(* The first line is taken. *)
LEMMA TailIsRight ==
  ASSUME NEW s \in Session, NEW q \in Seq(LineOnItsWay), q # <<>>,
         \A i \in DOMAIN q : q[i].cmd = "load" => Right(s, q[i].what)
  PROVE  /\ Head(q) \in LineOnItsWay /\ Tail(q) \in Seq(LineOnItsWay)
         /\ Head(q).cmd = "load" => Right(s, Head(q).what)
         /\ \A i \in DOMAIN Tail(q) : Tail(q)[i].cmd = "load" => Right(s, Tail(q)[i].what)
<1> DEFINE new == Tail(q)
<1>1. /\ Len(q) \in Nat \ {0} /\ DOMAIN q = 1..Len(q) /\ DOMAIN new = 1..(Len(q) - 1)
      /\ Head(q) = q[1] /\ Head(q) \in LineOnItsWay /\ new \in Seq(LineOnItsWay)
      /\ \A i \in DOMAIN new : new[i] = q[i + 1]
  OBVIOUS
<1>2. 1 \in DOMAIN q /\ \A i \in DOMAIN new : i + 1 \in DOMAIN q
  BY <1>1
<1> HIDE DEF new
<1>3. \A i \in DOMAIN new : new[i].cmd = "load" => Right(s, new[i].what)
  BY <1>1, <1>2
<1> QED BY <1>1, <1>2, <1>3 DEF new

(* A message to the Kit that loads nothing. *)
LEMMA MessageKeeps ==
  ASSUME RightsInv, NEW s \in Session, NEW m \in LineOnItsWay, m.cmd # "load", stage[s] # "new", Forward(s, m),
         UNCHANGED <<info, viewFile, flags, stage, view, saves, changes, exported>>
  PROVE  RightsInv'
<1>1. queue' \in [Session -> Seq(LineOnItsWay)] /\ \A t \in Session : \A i \in DOMAIN queue'[t] :
        queue'[t][i].cmd = "load" => Right(t, queue'[t][i].what)
  BY QueueIsRight
<1>2. RightsTypes'
  BY <1>1 DEF RightsInv, RightsTypes
<1>3. FlagsAreRight' /\ ViewsAreRight' /\ LinesAreRight'
  BY <1>1, RightStays DEF RightsInv, FlagsAreRight, ViewsAreRight, LinesAreRight
<1>4. RightsAreKept'
  BY DEF RightsInv, RightsAreKept, Allowed
<1>5. NothingAsked'
  BY DEF RightsInv, NothingAsked, RightsTypes, Forward
<1> QED BY <1>2, <1>3, <1>4, <1>5 DEF RightsInv

(* The flags of sessions change, and nothing in the Kit does. *)
LEMMA FlagsKeep ==
  ASSUME RightsInv, UNCHANGED <<info, viewFile, queue, view, saves, changes, exported>>,
         flags' \in [Session -> FlagsType],
         stage' \in [Session -> {"new", "added", "loading", "loaded", "gone"}],
         \A s \in Session :
           /\ stage'[s] = "new" => stage[s] = "new" /\ flags'[s] = NewFlags(info[s])
           /\ stage'[s] = "added" => Right(s, flags'[s])
           /\ stage'[s] # "new" /\ info[s].access = "view" => ~flags'[s].writable
  PROVE  RightsInv'
<1>1. RightsTypes'
  BY DEF RightsInv, RightsTypes
<1>2. FlagsAreRight' /\ ViewsAreRight' /\ LinesAreRight' /\ NothingAsked'
  BY RightStays DEF RightsInv, FlagsAreRight, ViewsAreRight, LinesAreRight, NothingAsked
<1>3. RightsAreKept'
  BY DEF RightsInv, RightsAreKept, Allowed
<1> QED BY <1>1, <1>2, <1>3 DEF RightsInv
-----------------------------------------------------------------------------
(* The steps.                                                                 *)

(* At first nobody has done anything. *)
LEMMA RightsInitially == RightsAssumption /\ Init => RightsInv
<1> SUFFICES ASSUME RightsAssumption, Init
             PROVE  RightsInv
  OBVIOUS
<1>1. \A s \in Session : info[s] \in Info /\ NewFlags(info[s]) \in FlagsType
  BY NewFlagsType DEF Init
<1>2. NoView \in ViewType /\ NoView.readOnly /\ ~NoView.comments /\ ~NoView.redlines
  BY DEF NoView, ViewType
<1>3. <<>> \in Seq(LineOnItsWay)
  OBVIOUS
<1>4. RightsTypes
  BY <1>1, <1>2, <1>3 DEF Init, RightsTypes
<1>5. FlagsAreRight /\ LinesAreRight /\ NothingAsked
  BY DEF Init, FlagsAreRight, LinesAreRight, NothingAsked
<1>6. ViewsAreRight
  BY <1>2, NothingIsRight DEF Init, ViewsAreRight
<1>7. RightsAreKept
  BY DEF Init, RightsAreKept
<1> QED BY <1>4, <1>5, <1>6, <1>7 DEF RightsInv

(* A session comes in. *)
LEMMA SessionAddedKeeps ==
  ASSUME RightsAssumption, RightsInv, NEW s \in Session, NEW locks \in BOOLEAN, AddSession(s, locks)
  PROVE  RightsInv'
<1> DEFINE f == WithWopiInfo(NewFlags(info[s]), info[s])
           l == [f EXCEPT !.lockFailed = TRUE, !.readOnly = TRUE]
           g == LockIfEditing(f, locks)
<1>1. /\ flags[s] = NewFlags(info[s]) /\ flags' = [flags EXCEPT ![s] = g]
      /\ stage' = [stage EXCEPT ![s] = "added"]
      /\ UNCHANGED <<info, viewFile, queue, view, saves, changes, exported>>
  BY DEF AddSession, RightsInv, FlagsAreRight, RightsTypes
<1>2. f \in FlagsType /\ Right(s, f) /\ (info[s].access = "view" => ~f.writable)
  BY WithWopiInfoIsRight DEF RightsInv
<1> HIDE DEF f
<1>3. g = f \/ g = SetWritable(l, FALSE)
  <2>1. LockFailed(f) = l
    BY <1>2 DEF LockFailed, SetReadOnly, FlagsType
  <2> QED BY <2>1 DEF LockIfEditing
<1>4. l \in FlagsType
  BY <1>2 DEF FlagsType
<1> HIDE DEF l, g
<1>5. g \in FlagsType /\ Right(s, g) /\ (info[s].access = "view" => ~g.writable)
  BY <1>2, <1>3, <1>4, NotWritable, NothingIsRight
<1> QED BY <1>1, <1>5, FlagsKeep DEF RightsInv, RightsTypes, FlagsAreRight

(* It asks for the document. *)
LEMMA LoadKeeps ==
  ASSUME RightsInv, NEW s \in Session, Load(s)
  PROVE  RightsInv'
<1> DEFINE m == LoadLine(flags[s])
<1>1. /\ Forward(s, m) /\ stage[s] = "added" /\ stage' = [stage EXCEPT ![s] = "loading"]
      /\ UNCHANGED <<info, viewFile, flags, view, saves, changes, exported>>
  BY DEF Load
<1>2. m \in LineOnItsWay /\ Right(s, m.what)
  BY <1>1, LoadLineIsRight DEF RightsInv, RightsTypes, FlagsAreRight
<1> HIDE DEF m
<1>3. queue' \in [Session -> Seq(LineOnItsWay)] /\ \A t \in Session : \A i \in DOMAIN queue'[t] :
        queue'[t][i].cmd = "load" => Right(t, queue'[t][i].what)
  BY <1>1, <1>2, QueueIsRight
<1>4. RightsTypes'
  BY <1>1, <1>3 DEF RightsInv, RightsTypes
<1>5. FlagsAreRight'
  <2>1. \A t \in Session : stage'[t] = IF t = s THEN "loading" ELSE stage[t]
    BY <1>1 DEF RightsInv, RightsTypes
  <2> QED BY <1>1, <2>1, RightStays DEF RightsInv, FlagsAreRight
<1>6. ViewsAreRight' /\ LinesAreRight'
  BY <1>1, <1>3, RightStays DEF RightsInv, ViewsAreRight, LinesAreRight
<1>8. NothingAsked'
  BY <1>1 DEF RightsInv, RightsTypes, NothingAsked, Forward
<1>7. RightsAreKept'
  BY <1>1 DEF RightsInv, RightsAreKept, Allowed
<1> QED BY <1>4, <1>5, <1>6, <1>7, <1>8 DEF RightsInv

(* It works. *)
LEMMA CommandKeeps ==
  ASSUME RightsInv, NEW s \in Session,
         \/ ForwardView(s) \/ \E password \in BOOLEAN : DialogEvent(s, password)
         \/ \E what \in Change : ForwardChange(s, what)
         \/ \E what \in Export : ForwardExport(s, what)
  PROVE  RightsInv'
<1>1. PICK m \in LineOnItsWay : m.cmd # "load" /\ Forward(s, m)
  <2>1. CASE ForwardView(s)
    BY <2>1 DEF ForwardView, LineOnItsWay
  <2>2. CASE \E password \in BOOLEAN : DialogEvent(s, password)
    BY <2>2 DEF DialogEvent, LineOnItsWay, Change
  <2>3. ASSUME NEW what \in Change, ForwardChange(s, what)
        PROVE  \E m \in LineOnItsWay : m.cmd # "load" /\ Forward(s, m)
    BY <2>3 DEF ForwardChange, LineOnItsWay
  <2>4. ASSUME NEW what \in Export, ForwardExport(s, what)
        PROVE  \E m \in LineOnItsWay : m.cmd # "load" /\ Forward(s, m)
    <3>1. \E c \in {"export", "dummy"} : Forward(s, [cmd |-> c, what |-> what])
      BY <2>4 DEF ForwardExport
    <3> QED BY <3>1 DEF LineOnItsWay
  <2> QED BY <2>1, <2>2, <2>3, <2>4
<1>2. stage[s] # "new" /\ UNCHANGED <<info, viewFile, flags, stage, view, saves, changes, exported>>
  BY DEF ForwardView, DialogEvent, ForwardChange, ForwardExport, MayCommand, Here
<1> QED BY <1>1, <1>2, MessageKeeps

(* It saves. *)
LEMMA SaveKeeps ==
  ASSUME RightsInv, NEW s \in Session, Save(s)
  PROVE  RightsInv'
<1>1. /\ UNCHANGED <<info, viewFile, flags, stage, queue, view, changes, exported>>
      /\ stage[s] # "new" /\ saves' = IF flags[s].writable THEN saves \cup {s} ELSE saves
  BY DEF Save, MayCommand, Here
<1>2. RightsTypes'
  BY <1>1 DEF RightsInv, RightsTypes
<1>3. FlagsAreRight' /\ ViewsAreRight' /\ LinesAreRight' /\ NothingAsked'
  BY <1>1, RightStays DEF RightsInv, FlagsAreRight, ViewsAreRight, LinesAreRight, NothingAsked
<1>4. RightsAreKept'
  <2>1. flags[s].writable => info[s].access # "view"
    BY <1>1 DEF RightsInv, FlagsAreRight
  <2>2. \A x \in saves' : info[x].access # "view"
    BY <1>1, <2>1 DEF RightsInv, RightsAreKept
  <2> QED BY <1>1, <2>2 DEF RightsInv, RightsAreKept, Allowed
<1> QED BY <1>2, <1>3, <1>4 DEF RightsInv

(* It leaves, or another is made to. *)
LEMMA RemoveSessionKeeps ==
  ASSUME RightsInv, NEW s \in Session, NEW other \in Session, RemoveSession(s, other)
  PROVE  RightsInv'
<1>1. /\ UNCHANGED <<info, viewFile, flags, view, saves, changes, exported>>
      /\ stage' = [t \in Session |-> IF t \in {s, other} /\ stage[t] # "new" THEN "gone" ELSE stage[t]]
      /\ queue' = [t \in Session |-> IF t \in {s, other} THEN <<>> ELSE queue[t]]
  BY DEF RemoveSession
<1>2. RightsTypes'
  <2>1. <<>> \in Seq(LineOnItsWay)
    OBVIOUS
  <2>2. queue' \in [Session -> Seq(LineOnItsWay)]
    BY <1>1, <2>1 DEF RightsInv, RightsTypes
  <2>3. stage' \in [Session -> {"new", "added", "loading", "loaded", "gone"}]
    BY <1>1 DEF RightsInv, RightsTypes
  <2> QED BY <1>1, <2>2, <2>3 DEF RightsInv, RightsTypes
<1>3. FlagsAreRight'
  <2>1. \A t \in Session : stage'[t] = stage[t] \/ (stage[t] # "new" /\ stage'[t] = "gone")
    BY <1>1
  <2> QED BY <1>1, <2>1, RightStays DEF RightsInv, FlagsAreRight
<1>4. LinesAreRight' /\ NothingAsked'
  <2>1. \A t \in Session : queue'[t] = queue[t] \/ queue'[t] = <<>>
    BY <1>1
  <2>2. \A t \in Session : stage'[t] = "new" => stage[t] = "new"
    BY <1>1
  <2> QED BY <1>1, <2>1, <2>2, RightStays DEF RightsInv, LinesAreRight, NothingAsked
<1>5. ViewsAreRight' /\ RightsAreKept'
  BY <1>1, RightStays DEF RightsInv, ViewsAreRight, RightsAreKept, Allowed
<1> QED BY <1>2, <1>3, <1>4, <1>5 DEF RightsInv

(* The lock is had again, or lost. *)
LEMMA LockKeeps ==
  ASSUME RightsInv, NEW s \in Session, LockIsLost(s) \/ \E locks \in BOOLEAN : AttemptLock(s, locks)
  PROVE  RightsInv'
<1>1. /\ stage[s] \in {"loading", "loaded"} /\ stage' = stage
      /\ UNCHANGED <<info, viewFile, queue, view, saves, changes, exported>>
  BY DEF LockIsLost, AttemptLock, MayCommand, Here
<1>2. PICK f \in FlagsType : flags' = [flags EXCEPT ![s] = f] /\ (f.writable <=> flags[s].writable)
  <2>1. flags[s] \in FlagsType
    BY DEF RightsInv, RightsTypes
  <2>2. /\ LockFailed(flags[s]) \in FlagsType /\ SetReadOnly(flags[s], FALSE) \in FlagsType
        /\ (LockFailed(flags[s]).writable <=> flags[s].writable)
        /\ (SetReadOnly(flags[s], FALSE).writable <=> flags[s].writable)
    BY <2>1 DEF LockFailed, SetReadOnly, FlagsType
  <2>3. \/ flags' = [flags EXCEPT ![s] = LockFailed(flags[s])]
        \/ flags' = [flags EXCEPT ![s] = SetReadOnly(flags[s], FALSE)]
    BY DEF LockIsLost, AttemptLock
  <2> QED BY <2>2, <2>3
<1> QED BY <1>1, <1>2, FlagsKeep DEF RightsInv, RightsTypes, FlagsAreRight

(* Nobody may save any more. *)
LEMMA StorageIsFullKeeps ==
  ASSUME RightsInv, StorageIsFull
  PROVE  RightsInv'
<1>1. /\ flags' = [s \in Session |-> IF stage[s] \in {"new", "gone"} THEN flags[s]
                                                                     ELSE SetWritable(flags[s], FALSE)]
      /\ stage' = stage /\ UNCHANGED <<info, viewFile, queue, view, saves, changes, exported>>
  BY DEF StorageIsFull
<1>2. \A s \in Session : LET g == SetWritable(flags[s], FALSE)
                         IN  g \in FlagsType /\ ~g.writable /\ Right(s, g)
  BY NotWritable, NothingIsRight DEF RightsInv, RightsTypes
<1>3. \A s \in Session : \/ stage[s] \in {"new", "gone"} /\ flags'[s] = flags[s]
                         \/ stage[s] # "new" /\ ~flags'[s].writable /\ Right(s, flags'[s])
  BY <1>1, <1>2
<1>4. flags' \in [Session -> FlagsType]
  BY <1>1, <1>2 DEF RightsInv, RightsTypes
<1> QED BY <1>1, <1>3, <1>4, FlagsKeep DEF RightsInv, RightsTypes, FlagsAreRight

(* The Kit takes a line. *)
LEMMA KitHandlesKeeps ==
  ASSUME RightsInv, NEW s \in Session, KitHandles(s)
  PROVE  RightsInv'
<1> DEFINE m == Head(queue[s])
<1>1. /\ UNCHANGED <<info, viewFile, flags, saves>> /\ queue[s] # <<>>
      /\ queue' = [queue EXCEPT ![s] = Tail(queue[s])] /\ queue \in [Session -> Seq(LineOnItsWay)]
      /\ view \in [Session -> ViewType] /\ stage \in [Session -> {"new", "added", "loading", "loaded", "gone"}]
  BY DEF KitHandles, RightsInv, RightsTypes
<1>2. /\ m \in LineOnItsWay /\ Tail(queue[s]) \in Seq(LineOnItsWay)
      /\ m.cmd = "load" => Right(s, m.what)
      /\ \A i \in DOMAIN Tail(queue[s]) : Tail(queue[s])[i].cmd = "load" => Right(s, Tail(queue[s])[i].what)
  BY <1>1, TailIsRight DEF RightsInv, LinesAreRight
<1>3. \/ m.cmd = "load" /\ KitLoad(s, m.what)
      \/ m.cmd = "change" /\ KitChange(s, m.what)
      \/ m.cmd = "export" /\ KitExport(s, m.what)
      \/ m.cmd \in {"dummy", "view"} /\ UNCHANGED <<view, stage, changes, exported>>
  BY DEF KitHandles
<1> HIDE DEF m
<1>4. queue' \in [Session -> Seq(LineOnItsWay)] /\ LinesAreRight'
  <2>1. \A t \in Session : queue'[t] = IF t = s THEN Tail(queue[s]) ELSE queue[t]
    BY <1>1
  <2> HIDE <1>3
  <2> QED BY <1>1, <1>2, <2>1, RightStays DEF RightsInv, LinesAreRight
<1>5. /\ view' \in [Session -> ViewType] /\ ViewsAreRight'
      /\ stage' \in [Session -> {"new", "added", "loading", "loaded", "gone"}] /\ FlagsAreRight'
  <2>1. CASE m.cmd = "load"
    <3> DEFINE v == IF m.what.readOnly THEN m.what ELSE [NoView EXCEPT !.readOnly = FALSE]
    <3>1. view' = [view EXCEPT ![s] = v] /\ stage' = [stage EXCEPT ![s] = "loaded"]
      BY <1>3, <2>1 DEF KitLoad
    <3>2. m.what \in ViewType
      BY <1>2, <2>1 DEF LineOnItsWay
    <3>3. v \in ViewType /\ Right(s, v)
      BY <1>2, <2>1, <3>2 DEF ViewType, NoView, Right, CoreAllows
    <3> HIDE DEF v
    <3>4. ViewsAreRight'
      BY <1>1, <3>1, <3>3, RightStays DEF RightsInv, ViewsAreRight
    <3>5. FlagsAreRight'
      <4>1. stage[s] # "new"
        BY <1>1 DEF RightsInv, NothingAsked
      <4> QED BY <1>1, <3>1, <4>1, RightStays DEF RightsInv, FlagsAreRight
    <3> QED BY <1>1, <3>1, <3>3, <3>4, <3>5
  <2>2. CASE m.cmd # "load"
    <3>1. UNCHANGED <<view, stage>>
      BY <1>3, <2>2 DEF KitChange, KitExport
    <3> QED BY <1>1, <3>1, RightStays DEF RightsInv, ViewsAreRight, FlagsAreRight
  <2> QED BY <2>1, <2>2
<1>6. NothingAsked'
  <2>1. \A t \in Session : t # s => queue'[t] = queue[t] /\ stage'[t] = stage[t]
    BY <1>1, <1>3 DEF KitLoad, KitChange, KitExport
  <2>2. stage'[s] # "new"
    BY <1>1, <1>3 DEF KitLoad, KitChange, KitExport, RightsInv, NothingAsked
  <2> QED BY <2>1, <2>2 DEF RightsInv, NothingAsked
<1>7. changes' \subseteq Session \X Change /\ \A c \in changes' : Allowed(c[1], c[2])
  <2>1. changes \subseteq Session \X Change /\ \A c \in changes : Allowed(c[1], c[2])
    BY DEF RightsInv, RightsTypes, RightsAreKept
  <2>2. CASE m.cmd = "change"
    <3>1. m.what \in Change
      BY <1>2, <2>2 DEF LineOnItsWay
    <3>2. changes' = IF CoreAllows(view[s], m.what) THEN changes \cup {<<s, m.what>>} ELSE changes
      BY <1>3, <2>2 DEF KitChange
    <3>3. CoreAllows(view[s], m.what) => Allowed(s, m.what)
      BY <3>1 DEF RightsInv, ViewsAreRight, Right
    <3> QED BY <2>1, <3>1, <3>2, <3>3
  <2>3. CASE m.cmd # "change"
    <3>1. changes' = changes
      BY <1>3, <2>3 DEF KitLoad, KitExport
    <3> QED BY <2>1, <3>1
  <2> QED BY <2>2, <2>3
<1>8. exported' \subseteq Session \X Export /\ \A e \in exported' : e[2] \notin info[e[1]].disabled
  <2>1. exported \subseteq Session \X Export /\ \A e \in exported : e[2] \notin info[e[1]].disabled
    BY DEF RightsInv, RightsTypes, RightsAreKept
  <2>2. CASE m.cmd = "export"
    <3>1. m.what \in Export
      BY <1>2, <2>2 DEF LineOnItsWay
    <3>2. exported' = IF m.what \notin info[s].disabled THEN exported \cup {<<s, m.what>>} ELSE exported
      BY <1>3, <2>2 DEF KitExport, FilterMessage
    <3> QED BY <2>1, <3>1, <3>2
  <2>3. CASE m.cmd # "export"
    <3>1. exported' = exported
      BY <1>3, <2>3 DEF KitLoad, KitChange
    <3> QED BY <2>1, <3>1
  <2> QED BY <2>2, <2>3
<1>9. RightsTypes'
  BY <1>1, <1>4, <1>5, <1>7, <1>8 DEF RightsInv, RightsTypes
<1>10. RightsAreKept'
  BY <1>1, <1>7, <1>8 DEF RightsInv, RightsAreKept, Allowed
<1> QED BY <1>4, <1>5, <1>6, <1>9, <1>10 DEF RightsInv

(* Every step keeps the invariant. *)
LEMMA RightsStep == RightsAssumption /\ RightsInv /\ [Next]_rightsVars => RightsInv'
<1> SUFFICES ASSUME RightsAssumption, RightsInv, [Next]_rightsVars
             PROVE  RightsInv'
  OBVIOUS
<1>1. CASE UNCHANGED rightsVars
  <2>1. UNCHANGED <<info, viewFile, flags, stage, queue, view, saves, changes, exported>>
    BY <1>1 DEF rightsVars
  <2> QED BY <2>1, FlagsKeep DEF RightsInv, RightsTypes, FlagsAreRight
<1>2. CASE Next
  BY <1>2, SessionAddedKeeps, LoadKeeps, CommandKeeps, SaveKeeps, RemoveSessionKeeps, LockKeeps,
     StorageIsFullKeeps, KitHandlesKeeps DEF Next
<1> QED BY <1>1, <1>2

(* What is changed, saved or taken out of a document is what the storage      *)
(* allows the user (ClientSession::_handleInput, Document::load).             *)
THEOREM NobodyExceedsHisRights == RightsAssumption => (Spec => []RightsAreKept)
<1> SUFFICES ASSUME RightsAssumption
             PROVE  Spec => []RightsAreKept
  OBVIOUS
<1>1. Init => RightsInv
  BY RightsInitially
<1>2. RightsInv /\ [Next]_rightsVars => RightsInv'
  BY RightsStep
<1>3. RightsInv => RightsAreKept
  BY DEF RightsInv
<1> QED BY <1>1, <1>2, <1>3, PTL DEF Spec
-----------------------------------------------------------------------------
(* The views.                                                                *)

(* Whatever uses Core sets the view first, and what is used is remembered     *)
(* with the view that is set then.                                            *)
UsesKeepView == did' = did \/ \E s \in Member : did' = did \cup {<<s, s>>}

(* The messages of a session that loads, leaves, downloads or paints.         *)
LEMMA LoadSetsView ==
  ASSUME NEW s \in Member, Views!Sessions(s) PROVE UsesKeepView
BY DEF UsesKeepView, Views!Sessions, Views!LoadDocument, Views!Closing, Views!UserInactive, Views!UserActive,
       Views!DownloadAs, Views!RenderSlide, Views!RenderWindow, Views!InTheCurrentView, Views!PaintTiles,
       Views!SetView, Views!Uses, Views!Handles

(* The messages that ask something of the document.                           *)
LEMMA AskSetsView ==
  ASSUME NEW s \in Member, Views!Asks(s) PROVE UsesKeepView
BY DEF UsesKeepView, Views!Asks, Views!Ask, Views!SendFontRendering, Views!GetStatus, Views!GetCommandValues,
       Views!GetTextSelection, Views!AskSignatureStatus, Views!RenderSearchResult, Views!RenderShapeSelection,
       Views!GetA11y, Views!GetPresentationInfo, Views!SetView, Views!Uses

(* An edit.                                                                   *)
LEMMA EditSetsView ==
  ASSUME NEW s \in Member, NEW kinds, Views!Edit(s, kinds) PROVE UsesKeepView
BY DEF UsesKeepView, Views!Edit, Views!SetView, Views!Uses

(* The messages of keys, mouse and selections.                                *)
LEMMA InputSetsView ==
  ASSUME NEW s \in Member, Views!Inputs(s) PROVE UsesKeepView
<1>1. CASE Views!SetClientPart(s)
  BY <1>1 DEF UsesKeepView, Views!SetClientPart, Views!SetView, Views!Uses
<1>2. CASE \E kinds : Views!Edit(s, kinds)
  BY <1>2, EditSetsView
<1> QED BY <1>1, <1>2 DEF Views!Inputs, Views!KeyEvent, Views!ExtTextInputEvent, Views!GestureEvent, Views!MouseEvent,
       Views!SelectText, Views!SelectGraphic, Views!ResetSelection, Views!ClientZoom, Views!ClientVisibleArea,
       Views!OutlineState, Views!SelectClientPart, Views!MoveSelectedClientParts, Views!SetPage

(* The commands.                                                              *)
LEMMA CommandSetsView ==
  ASSUME NEW s \in Member, Views!Edits(s) PROVE UsesKeepView
<1>1. CASE \E kinds : Views!Edit(s, kinds)
  BY <1>1, EditSetsView
<1> QED BY <1>1 DEF Views!Edits, Views!Paste, Views!InsertFile, Views!DialogEvent, Views!FormFieldEvent,
       Views!ContentControlEvent, Views!CompleteFunction, Views!UnoSignatureCommand, Views!UnoCommand,
       Views!ResizeWindow, Views!SendWindowCommand, Views!RemoveTextContext

(* Core does what a client asks or does in the view of that client            *)
(* (kit/ChildSession.cpp), however many views there are and whatever the      *)
(* tiles and the other clients do to the view that is set.                    *)
THEOREM CoreActsInOwnView == Views!Spec => []ActsInOwnView
<1> USE DEF ActsInOwnView, Views!ActsInOwnView
<1>1. Views!Init => ActsInOwnView
  BY DEF Views!Init
<1>2. ActsInOwnView /\ [Views!Next]_Views!childVars => ActsInOwnView'
  <2> SUFFICES ASSUME ActsInOwnView, [Views!Next]_Views!childVars PROVE ActsInOwnView'
    OBVIOUS
  <2>1. CASE UNCHANGED Views!childVars
    BY <2>1 DEF Views!childVars
  <2>2. CASE Views!DrainCallbacks
    BY <2>2 DEF Views!DrainCallbacks
  <2>3. ASSUME NEW s \in Member, Views!Sessions(s) \/ Views!Asks(s) \/ Views!Inputs(s) \/ Views!Edits(s)
        PROVE ActsInOwnView'
    <3>1. UsesKeepView
      BY <2>3, LoadSetsView, AskSetsView, InputSetsView, CommandSetsView
    <3> QED BY <3>1 DEF UsesKeepView
  <2> QED BY <2>1, <2>2, <2>3 DEF Views!Next
<1> QED BY <1>1, <1>2, PTL DEF Views!Spec
-----------------------------------------------------------------------------
(* The monitors.                                                             *)

(* What stands at the places of a list. *)
Place == ConfigValue \cup {Remote!Blank}

(* The non-empty entries of a list are entries of it.                         *)
LEMMA EntriesType ==
  ASSUME NEW S, NEW l \in Seq(S)
  PROVE  Remote!Entries(l) \in Seq(S)
<1> DEFINE A == Seq(S)
           Kept(x, n) == IF l[n] = Remote!Blank THEN x ELSE Append(x, l[n])
           step == [x \in A |-> [n \in 1 .. Len(l) |-> Kept(x, n)]]
           F(f) == [n \in 0 .. Len(l) |-> IF n = 0 THEN <<>> ELSE Kept(f[n - 1], n)]
<1>1. Len(l) \in Nat /\ <<>> \in A /\ \A n \in 1 .. Len(l) : l[n] \in S
  OBVIOUS
<1>2. \A x \in A : \A n \in 1 .. Len(l) : Kept(x, n) \in A /\ step[x][n] = Kept(x, n)
  BY <1>1
<1>a. PICK g \in [0 .. Len(l) -> A] : FoldsAlong(g, <<>>, step, Len(l))
  <2>1. step \in [A -> [1 .. Len(l) -> A]]
    BY <1>2
  <2> HIDE DEF A, step, Kept
  <2> QED BY <1>1, <2>1, FoldExists
<1>3. g[0] = <<>> /\ \A n \in 1 .. Len(l) : g[n] = step[g[n - 1]][n]
  BY <1>a DEF FoldsAlong
<1>4. g = F(g)
  <2>1. ASSUME NEW n \in 0 .. Len(l) PROVE g[n] = F(g)[n]
    <3>1. n # 0 => n \in 1 .. Len(l) /\ n - 1 \in 0 .. Len(l)
      BY <1>1
    <3>2. n # 0 => g[n] = Kept(g[n - 1], n)
      <4> HIDE DEF A, step, Kept
      <4> QED BY <1>2, <1>3, <3>1
    <3> HIDE DEF Kept
    <3> QED BY <1>3, <3>2
  <2> QED BY <2>1
<1>b. PICK k : k = F(k) /\ Remote!Entries(l) = k[Len(l)]
  BY <1>4 DEF Remote!Entries
<1>5. /\ k[0] = <<>> /\ Remote!Entries(l) = k[Len(l)]
      /\ \A n \in 1 .. Len(l) :
           k[n] = Kept(k[n - 1], n)
  <2>1. \A n \in 0 .. Len(l) : k[n] = F(k)[n]
    BY <1>b
  <2>2. F(k)[0] = <<>>
    BY <1>1
  <2>3. ASSUME NEW n \in 1 .. Len(l)
        PROVE  F(k)[n] = Kept(k[n - 1], n)
    OBVIOUS
  <2>4. 0 \in 0 .. Len(l) /\ \A n \in 1 .. Len(l) : n \in 0 .. Len(l)
    BY <1>1
  <2> HIDE DEF F
  <2> QED BY <1>b, <2>1, <2>2, <2>3, <2>4
<1> DEFINE P == {n \in 0 .. Len(l) : k[n] \in A}
<1>6. 0 \in P
  <2>1. 0 \in 0 .. Len(l) /\ k[0] \in A
    BY <1>1, <1>5
  <2> HIDE DEF A
  <2> QED BY <2>1
<1>7. ASSUME NEW n \in 1 .. Len(l), n - 1 \in P PROVE n \in P
  <2>1. n \in 0 .. Len(l) /\ k[n - 1] \in A /\ l[n] \in S
    BY <1>1, <1>7
  <2> HIDE DEF A, Kept
  <2> QED BY <1>2, <1>5, <1>7, <2>1
<1> HIDE DEF P
<1>8. Len(l) \in P
  <2>1. \A n \in 0 .. Len(l) : n \in P
    BY <1>1, <1>6, <1>7, Stepwise
  <2> QED BY <1>1, <2>1
<1> QED BY <1>5, <1>8 DEF P

(* The monitors of the last configuration.                                    *)
Listed == Remote!GetMonitorList(overlay)

(* The monitors: the list has room for what is in the layers; whatever is on  *)
(* its way has been in the list; what has stayed in it is on its way or has   *)
(* an entry, and with an entry one open connection and without one none; and  *)
(* the entry of another monitor never names that connection.                  *)
MonTypes ==
  /\ overlay.monitors \in Seq(Place) /\ served.json \in Jsons
  /\ connects \in Seq(Place) /\ pending \in Seq(Place) /\ made \in Nat
OnlyListed ==
  /\ In(connects) \subseteq Listed \cup dropped /\ In(pending) \subseteq Listed \cup dropped
  /\ DOMAIN entries \subseteq Listed \cup dropped
  /\ \A s \in sockets : s.uri \in Listed \cup dropped
AllListed ==
  \A u \in Listed : u \in dropped \/ u \in In(connects) \/ u \in In(pending) \/ u \in DOMAIN entries
OneEach ==
  \A u : u \notin dropped =>
    /\ u \in DOMAIN entries => \E s \in sockets : s.open /\ {x \in sockets : x.uri = u} = {s}
    /\ u \notin DOMAIN entries => \A s \in sockets : s.uri # u
Numbered ==
  /\ \A s \in sockets : s.id \in 1 .. made
  /\ \A u \in DOMAIN entries : entries[u] \in 0 .. made
  /\ \A s \in sockets, u \in DOMAIN entries : s.id = entries[u] => s.uri = u
MonitorInv == MonTypes /\ OnlyListed /\ AllListed /\ OneEach /\ Numbered

(* The list of the monitors is a list of places, whatever the overlay.        *)
LEMMA MonitorOrderType ==
  ASSUME Remote!ConfigAssumption, NEW over, over.monitors \in Seq(Place)
  PROVE  /\ Remote!Conf(over, "monitors") \in Seq(Place)
         /\ Remote!MonitorOrder(over) \in Seq(Place)
         /\ Remote!GetMonitorList(over) = In(Remote!MonitorOrder(over))
<1>1. XmlLists["monitors"] \in Seq(Place)
  <2>1. XmlLists["monitors"] \in Seq(ConfigValue)
    BY DEF Remote!ConfigAssumption, Remote!Section
  <2> QED BY <2>1 DEF Place
<1>2. /\ Len(over["monitors"]) \in Nat /\ Len(XmlLists["monitors"]) \in Nat
      /\ over["monitors"] \in Seq(Place)
  BY <1>1
<1> DEFINE rest == SubSeq(XmlLists["monitors"], Len(over["monitors"]) + 1, Len(XmlLists["monitors"]))
<1>3. rest \in Seq(Place)
  BY <1>1, <1>2
<1>4. Remote!Conf(over, "monitors") \in Seq(Place)
  <2>1. Remote!Conf(over, "monitors") = over["monitors"] \o rest
    BY DEF Remote!Conf
  <2> HIDE DEF rest
  <2>2. over["monitors"] \o rest \in Seq(Place)
    BY <1>2, <1>3, InOfTwo
  <2> QED BY <2>1, <2>2
<1>5. Remote!MonitorOrder(over) \in Seq(Place)
  BY <1>4, EntriesType DEF Remote!MonitorOrder
<1> QED BY <1>4, <1>5 DEF Remote!GetMonitorList, Remote!ToSet, In

(* What a new configuration leaves is an overlay.                             *)
LEMMA NewOverlayType ==
  ASSUME Remote!ConfigAssumption, overlay.monitors \in Seq(Place), NEW json \in Jsons
  PROVE  Remote!NewAppConfig(overlay, json).monitors \in Seq(Place)
<1>1. json.monitors \in Seq(Place)
  <2>1. json["monitors"] \in Seq(ConfigValue)
    BY DEF Remote!ConfigAssumption, Remote!Section
  <2> QED BY <2>1 DEF Place
<1> DEFINE k == Len(Remote!Conf(overlay, "monitors")) - Len(json.monitors)
           blanks == [i \in 1 .. k |-> Remote!Blank]
<1>2. k \in Int
  BY <1>1, MonitorOrderType
<1>3. blanks \in Seq(Place)
  <2>1. k \in Nat => blanks \in Seq(Place)
    BY DEF Place
  <2>2. k \notin Nat => blanks = <<>>
    BY <1>2
  <2>3. <<>> \in Seq(Place)
    OBVIOUS
  <2> QED BY <2>1, <2>2, <2>3
<1>4. Remote!NewAppConfig(overlay, json).monitors = Remote!Override(overlay, "monitors", json.monitors)
  BY DEF Remote!NewAppConfig, Remote!FetchMonitors
<1>5. Remote!Override(overlay, "monitors", json.monitors)
        = IF json.monitors = <<>> THEN <<>> ELSE json.monitors \o blanks
  BY DEF Remote!Override
<1>6. <<>> \in Seq(Place)
  OBVIOUS
<1> HIDE DEF blanks, k
<1>7. json.monitors \o blanks \in Seq(Place)
  BY <1>1, <1>3, InOfTwo
<1> QED BY <1>4, <1>5, <1>6, <1>7

(* No monitor is listed when the server starts.                               *)
LEMMA MonitorInitially ==
  ASSUME Remote!ConfigAssumption, Remote!Init PROVE MonitorInv
<1>1. overlay.monitors \in Seq(Place) /\ served.json \in Jsons /\ connects = Remote!MonitorOrder(overlay)
  <2>1. \A S : <<>> \in Seq(S)
    OBVIOUS
  <2> QED BY <2>1 DEF Remote!Init, Remote!NoOverlay
<1>2. connects \in Seq(Place) /\ In(connects) = Listed
  BY <1>1, MonitorOrderType DEF Listed
<1>3. pending = <<>> /\ DOMAIN entries = {} /\ sockets = {} /\ made = 0
  BY DEF Remote!Init
<1>4. pending \in Seq(Place) /\ In(pending) = {}
  BY <1>3 DEF In
<1> QED BY <1>1, <1>2, <1>3, <1>4 DEF MonitorInv, MonTypes, OnlyListed, AllListed, OneEach, Numbered

(* The wait of a monitor ends: it is to be connected.                         *)
LEMMA CallbackKeeps ==
  ASSUME MonitorInv, Remote!RunCallback PROVE MonitorInv'
<1>1. /\ connects \in Seq(Place) /\ pending \in Seq(Place) /\ connects # <<>>
      /\ connects' = Tail(connects) /\ pending' = Append(pending, Head(connects))
      /\ UNCHANGED <<overlay, served, entries, sockets, made, dropped>>
  BY DEF Remote!RunCallback, Remote!ScheduleMonitorConnect, MonitorInv, MonTypes
<1>2. /\ Head(connects) \in Place /\ Tail(connects) \in Seq(Place)
      /\ In(connects) = In(Tail(connects)) \cup {Head(connects)}
  BY <1>1, InOfRest
<1>3. /\ Append(pending, Head(connects)) \in Seq(Place)
      /\ In(Append(pending, Head(connects))) = In(pending) \cup {Head(connects)}
  BY <1>1, <1>2, InOfOneMore
<1>4. In(connects)' = In(Tail(connects)) /\ In(pending)' = In(pending) \cup {Head(connects)}
  BY <1>1, <1>3 DEF In
<1>5. Listed' = Listed
  BY <1>1 DEF Listed, Remote!GetMonitorList, Remote!MonitorOrder, Remote!Conf
<1>6. MonTypes' /\ Numbered' /\ OneEach'
  BY <1>1, <1>2, <1>3 DEF MonitorInv, MonTypes, OneEach, Numbered
<1>7. OnlyListed' /\ AllListed'
  BY <1>1, <1>2, <1>4, <1>5 DEF MonitorInv, OnlyListed, AllListed
<1> QED BY <1>6, <1>7 DEF MonitorInv

(* The core connects to a monitor: one more socket, under the name of the     *)
(* last.                                                                      *)
LEMMA ConnectKeeps ==
  ASSUME ~ConnectMayFail, MonitorInv, Remote!ConnectToMonitorSync PROVE MonitorInv'
<1> DEFINE u == Head(pending)
<1>1. /\ connects \in Seq(Place) /\ pending \in Seq(Place) /\ pending # <<>>
      /\ pending' = Tail(pending)
      /\ UNCHANGED <<overlay, served, connects, dropped>>
  BY DEF Remote!ConnectToMonitorSync, MonitorInv, MonTypes
<1>2. u \in Place /\ Tail(pending) \in Seq(Place) /\ In(pending) = In(Tail(pending)) \cup {u}
  BY <1>1, InOfRest
<1>3. In(pending)' = In(Tail(pending)) /\ In(connects)' = In(connects)
  BY <1>1 DEF In
<1>4. Listed' = Listed
  BY <1>1 DEF Listed, Remote!GetMonitorList, Remote!MonitorOrder, Remote!Conf
<1>5. CASE u \in DOMAIN entries
  <2>1. UNCHANGED <<entries, sockets, made>>
    BY <1>5 DEF Remote!ConnectToMonitorSync, Remote!Connected
  <2>2. MonTypes' /\ Numbered' /\ OneEach'
    BY <1>1, <1>2, <2>1 DEF MonitorInv, MonTypes, OneEach, Numbered
  <2>3. OnlyListed' /\ AllListed'
    BY <1>1, <1>2, <1>3, <1>4, <1>5, <2>1 DEF MonitorInv, OnlyListed, AllListed
  <2> QED BY <2>2, <2>3 DEF MonitorInv
<1>6. CASE u \notin DOMAIN entries
  <2> DEFINE new == [uri |-> u, id |-> made + 1, open |-> TRUE]
  <2>1. /\ made' = made + 1 /\ sockets' = sockets \cup {new}
        /\ entries' = [v \in DOMAIN entries \cup {u} |-> IF v = u THEN made + 1 ELSE entries[v]]
    BY <1>6 DEF Remote!ConnectToMonitorSync, Remote!Connected
  <2>2. new.uri = u /\ new.id = made + 1 /\ new.open
    OBVIOUS
  <2>3. made \in Nat
    BY DEF MonitorInv, MonTypes
  <2>4. DOMAIN entries' = DOMAIN entries \cup {u}
    BY <2>1
  <2>5. \A v \in DOMAIN entries \cup {u} : entries'[v] = IF v = u THEN made + 1 ELSE entries[v]
    BY <2>1
  <2> HIDE DEF new, u
  <2>6. MonTypes'
    BY <1>1, <1>2, <2>1, <2>3 DEF MonitorInv, MonTypes
  <2>7. OnlyListed' /\ AllListed'
    <3>1. u \in Listed \cup dropped
      BY <1>2 DEF MonitorInv, OnlyListed
    <3> QED BY <1>1, <1>2, <1>3, <1>4, <2>1, <2>2, <2>4, <3>1 DEF MonitorInv, OnlyListed, AllListed
  <2>8. OneEach'
    <3> SUFFICES ASSUME NEW v, v \notin dropped'
                 PROVE  /\ v \in DOMAIN entries' => \E s \in sockets' : s.open /\ {x \in sockets' : x.uri = v} = {s}
                        /\ v \notin DOMAIN entries' => \A s \in sockets' : s.uri # v
      BY DEF OneEach
    <3>1. CASE v = u
      <4>1. \A s \in sockets : s.uri # u
        BY <1>1, <1>6, <3>1 DEF MonitorInv, OneEach
      <4>2. {x \in sockets' : x.uri = v} = {new}
        BY <2>1, <2>2, <3>1, <4>1
      <4> QED BY <2>1, <2>2, <2>4, <3>1, <4>2
    <3>2. CASE v # u
      <4>1. {x \in sockets' : x.uri = v} = {x \in sockets : x.uri = v}
        BY <2>1, <2>2, <3>2
      <4>2. v \in DOMAIN entries' <=> v \in DOMAIN entries
        BY <2>4, <3>2
      <4>3. CASE v \in DOMAIN entries
        <5>1. PICK s \in sockets : s.open /\ {x \in sockets : x.uri = v} = {s}
          BY <1>1, <4>3 DEF MonitorInv, OneEach
        <5> QED BY <2>1, <4>1, <4>2, <4>3, <5>1
      <4>4. CASE v \notin DOMAIN entries
        BY <1>1, <2>1, <2>2, <3>2, <4>2, <4>4 DEF MonitorInv, OneEach
      <4> QED BY <4>3, <4>4
    <3> QED BY <3>1, <3>2
  <2>9. Numbered'
    <3>1. \A s \in sockets' : s.id \in 1 .. made'
      BY <2>1, <2>2, <2>3 DEF MonitorInv, Numbered
    <3>2. \A v \in DOMAIN entries' : entries'[v] \in 0 .. made'
      BY <2>1, <2>3, <2>4, <2>5 DEF MonitorInv, Numbered
    <3>3. ASSUME NEW s \in sockets', NEW v \in DOMAIN entries', s.id = entries'[v] PROVE s.uri = v
      <4>1. CASE s = new
        <5>1. v # u => entries'[v] \in 0 .. made
          BY <2>4, <2>5 DEF MonitorInv, Numbered
        <5> QED BY <2>2, <2>3, <3>3, <4>1, <5>1
      <4>2. CASE s # new
        <5>1. s \in sockets /\ s.id \in 1 .. made
          BY <2>1, <4>2 DEF MonitorInv, Numbered
        <5>2. v # u
          BY <2>3, <2>5, <3>3, <2>4, <5>1
        <5> QED BY <2>4, <2>5, <3>3, <5>1, <5>2 DEF MonitorInv, Numbered
      <4> QED BY <4>1, <4>2
    <3> QED BY <3>1, <3>2, <3>3 DEF Numbered
  <2> QED BY <2>6, <2>7, <2>8, <2>9 DEF MonitorInv
<1> QED BY <1>5, <1>6

(* A connection is lost: a monitor of the list waits to be connected again.   *)
LEMMA DisconnectedKeeps ==
  ASSUME Remote!ConfigAssumption, MonitorInv, NEW s \in sockets, Remote!Disconnected(s) PROVE MonitorInv'
<1> DEFINE u == s.uri
<1>1. /\ connects \in Seq(Place) /\ pending \in Seq(Place) /\ overlay.monitors \in Seq(Place)
      /\ made \in Nat
      /\ sockets' = sockets \ {s} /\ UNCHANGED <<overlay, served, connects, made, dropped>>
  BY DEF Remote!Disconnected, MonitorInv, MonTypes
<1>2. Listed' = Listed /\ In(connects)' = In(connects)
  BY <1>1 DEF Listed, Remote!GetMonitorList, Remote!MonitorOrder, Remote!Conf, In
<1>3. CASE u \in Listed
  <2>1. /\ pending' = Append(pending, u) /\ DOMAIN entries' = DOMAIN entries \ {u}
        /\ \A v \in DOMAIN entries \ {u} : entries'[v] = entries[v]
    BY <1>3 DEF Remote!Disconnected, Remote!ScheduleMonitorConnect, Remote!Without, Listed
  <2>2. u \in Place
    <3>1. Listed = In(Remote!MonitorOrder(overlay)) /\ Remote!MonitorOrder(overlay) \in Seq(Place)
      BY <1>1, MonitorOrderType DEF Listed
    <3> QED BY <1>3, <3>1 DEF In
  <2>3. Append(pending, u) \in Seq(Place) /\ In(Append(pending, u)) = In(pending) \cup {u}
    BY <1>1, <2>2, InOfOneMore
  <2>4. In(pending)' = In(pending) \cup {u}
    BY <2>1, <2>3 DEF In
  <2> HIDE DEF u
  <2>5. MonTypes'
    BY <1>1, <2>1, <2>3 DEF MonitorInv, MonTypes
  <2>6. OnlyListed' /\ AllListed'
    BY <1>1, <1>2, <1>3, <2>1, <2>4 DEF MonitorInv, OnlyListed, AllListed
  <2>7. OneEach'
    <3> SUFFICES ASSUME NEW v, v \notin dropped'
                 PROVE  /\ v \in DOMAIN entries' => \E x \in sockets' : x.open /\ {y \in sockets' : y.uri = v} = {x}
                        /\ v \notin DOMAIN entries' => \A x \in sockets' : x.uri # v
      BY DEF OneEach
    <3>1. CASE v = u
      <4>1. s.uri = u
        BY DEF u
      <4>2. v \in DOMAIN entries
        BY <1>1, <3>1, <4>1 DEF MonitorInv, OneEach
      <4>3. PICK x \in sockets : {y \in sockets : y.uri = v} = {x}
        BY <1>1, <4>2 DEF MonitorInv, OneEach
      <4>4. x = s
        BY <3>1, <4>1, <4>3
      <4> QED BY <1>1, <2>1, <3>1, <4>3, <4>4
    <3>2. CASE v # u
      <4>1. {x \in sockets' : x.uri = v} = {x \in sockets : x.uri = v}
        BY <1>1, <3>2 DEF u
      <4>2. v \in DOMAIN entries' <=> v \in DOMAIN entries
        BY <2>1, <3>2
      <4>3. CASE v \in DOMAIN entries
        <5>1. PICK x \in sockets : x.open /\ {y \in sockets : y.uri = v} = {x}
          BY <1>1, <4>3 DEF MonitorInv, OneEach
        <5>2. x \in sockets'
          BY <4>1, <5>1
        <5> QED BY <4>1, <4>2, <4>3, <5>1, <5>2
      <4>4. CASE v \notin DOMAIN entries
        BY <1>1, <4>2, <4>4 DEF MonitorInv, OneEach
      <4> QED BY <4>3, <4>4
    <3> QED BY <3>1, <3>2
  <2>8. Numbered'
    BY <1>1, <2>1 DEF MonitorInv, Numbered
  <2> QED BY <2>5, <2>6, <2>7, <2>8 DEF MonitorInv
<1>4. CASE u \notin Listed
  <2>1. UNCHANGED <<pending, entries>>
    BY <1>4 DEF Remote!Disconnected, Listed
  <2>2. In(pending)' = In(pending)
    BY <2>1 DEF In
  <2>3. u \in dropped
    BY <1>4 DEF MonitorInv, OnlyListed
  <2>4. MonTypes' /\ OnlyListed' /\ AllListed' /\ Numbered'
    BY <1>1, <1>2, <2>1, <2>2 DEF MonitorInv, MonTypes, OnlyListed, AllListed, Numbered
  <2>5. OneEach'
    <3> SUFFICES ASSUME NEW v, v \notin dropped'
                 PROVE  /\ v \in DOMAIN entries' => \E x \in sockets' : x.open /\ {y \in sockets' : y.uri = v} = {x}
                        /\ v \notin DOMAIN entries' => \A x \in sockets' : x.uri # v
      BY DEF OneEach
    <3>1. v # u
      BY <1>1, <2>3
    <3>2. {x \in sockets' : x.uri = v} = {x \in sockets : x.uri = v}
      BY <1>1, <3>1
    <3>3. CASE v \in DOMAIN entries
      <4>1. PICK x \in sockets : x.open /\ {y \in sockets : y.uri = v} = {x}
        BY <1>1, <3>3 DEF MonitorInv, OneEach
      <4>2. x \in sockets'
        BY <3>2, <4>1
      <4> QED BY <2>1, <3>2, <3>3, <4>1, <4>2
    <3>4. CASE v \notin DOMAIN entries
      BY <1>1, <2>1, <3>4 DEF MonitorInv, OneEach
    <3> QED BY <3>3, <3>4
  <2> QED BY <2>4, <2>5 DEF MonitorInv
<1> QED BY <1>3, <1>4

(* A fetch of lists that are valid. *)
LEMMA HandleJsonKeeps ==
  ASSUME Remote!ConfigAssumption, MonitorInv, NEW json \in Jsons, Remote!HandleJSON(json),
         UNCHANGED <<served, pending, made>>
  PROVE  MonitorInv'
<1> DEFINE gone == Listed \ Listed'
           served1 == {u \in gone : u \in DOMAIN entries /\ entries[u] # 0}
           ids == {entries[u] : u \in served1}
<1>1. /\ entries' = [u \in (DOMAIN entries \cup gone) \ served1 |-> IF u \in gone THEN 0 ELSE entries[u]]
      /\ sockets' = {IF x.id \in ids THEN [x EXCEPT !.open = FALSE] ELSE x : x \in sockets}
      /\ dropped' = dropped \cup gone /\ connects' = connects \o Remote!MonitorOrder(overlay')
      /\ overlay' = Remote!NewAppConfig(overlay, json)
  BY DEF Remote!HandleJSON, Remote!UpdateMonitors, Remote!Closing, Remote!StartMonitors, Listed,
         Remote!Connected, Remote!NoSocket
<1>2. connects \in Seq(Place) /\ pending \in Seq(Place) /\ overlay.monitors \in Seq(Place) /\ made \in Nat
  BY DEF MonitorInv, MonTypes
<1>3. overlay'.monitors \in Seq(Place)
  BY <1>1, <1>2, NewOverlayType
<1>4. Remote!MonitorOrder(overlay') \in Seq(Place) /\ Listed' = In(Remote!MonitorOrder(overlay'))
  <2>1. \A over : over.monitors \in Seq(Place) =>
          /\ Remote!MonitorOrder(over) \in Seq(Place)
          /\ Remote!GetMonitorList(over) = In(Remote!MonitorOrder(over))
    BY MonitorOrderType
  <2>2. Listed' = Remote!GetMonitorList(overlay')
    BY DEF Listed, Remote!GetMonitorList, Remote!MonitorOrder, Remote!Conf
  <2> QED BY <1>3, <2>1, <2>2
<1>5. connects' \in Seq(Place) /\ In(connects)' = In(connects) \cup Listed'
  <2>1. /\ connects \o Remote!MonitorOrder(overlay') \in Seq(Place)
        /\ In(connects \o Remote!MonitorOrder(overlay')) = In(connects) \cup In(Remote!MonitorOrder(overlay'))
    BY <1>2, <1>4, InOfTwo
  <2>2. In(connects)' = In(connects')
    BY DEF In
  <2> QED BY <1>1, <1>4, <2>1, <2>2
<1>6. In(pending)' = In(pending)
  BY DEF In
<1>7. MonTypes'
  BY <1>2, <1>3, <1>5 DEF MonitorInv, MonTypes
<1>8. /\ DOMAIN entries' = (DOMAIN entries \cup gone) \ served1 /\ Listed \subseteq Listed' \cup gone
      /\ \A u \in DOMAIN entries' : entries'[u] = IF u \in gone THEN 0 ELSE entries[u]
      /\ served1 \subseteq gone /\ served1 \subseteq DOMAIN entries
  <2> HIDE DEF served1
  <2>1. /\ DOMAIN entries' = (DOMAIN entries \cup gone) \ served1
        /\ \A u \in DOMAIN entries' : entries'[u] = IF u \in gone THEN 0 ELSE entries[u]
    BY <1>1
  <2>2. served1 \subseteq gone /\ served1 \subseteq DOMAIN entries
    BY DEF served1
  <2> QED BY <2>1, <2>2
<1>9. \A y \in sockets' : \E x \in sockets : y.uri = x.uri /\ y.id = x.id /\ (x.id \notin ids => y = x)
  <2> SUFFICES ASSUME NEW x \in sockets
               PROVE  LET y == IF x.id \in ids THEN [x EXCEPT !.open = FALSE] ELSE x
                      IN  y.uri = x.uri /\ y.id = x.id /\ (x.id \notin ids => y = x)
    BY <1>1
  <2>1. CASE x.id \in ids
    BY <2>1
  <2>2. CASE x.id \notin ids
    BY <2>2
  <2> QED BY <2>1, <2>2
<1>10. \A x \in sockets : x.id \notin ids => x \in sockets'
  BY <1>1
<1>11. \A x \in sockets : x.id \in ids => x.uri \in gone
  <2> SUFFICES ASSUME NEW u \in served1, NEW x \in sockets, x.id = entries[u] PROVE x.uri \in gone
    OBVIOUS
  <2> QED BY <1>8 DEF MonitorInv, Numbered
<1> HIDE DEF gone, served1, ids
<1>12. OnlyListed' /\ AllListed'
  BY <1>1, <1>5, <1>6, <1>8, <1>9 DEF MonitorInv, OnlyListed, AllListed
<1>13. OneEach'
  <2> SUFFICES ASSUME NEW v, v \notin dropped'
               PROVE  /\ v \in DOMAIN entries' => \E x \in sockets' : x.open /\ {y \in sockets' : y.uri = v} = {x}
                      /\ v \notin DOMAIN entries' => \A x \in sockets' : x.uri # v
    BY DEF OneEach
  <2>1. v \notin dropped /\ v \notin gone
    BY <1>1
  <2>2. v \in DOMAIN entries' <=> v \in DOMAIN entries
    BY <1>8, <2>1
  <2>3. \A y : y \in sockets' /\ y.uri = v <=> y \in sockets /\ y.uri = v
    BY <1>9, <1>10, <1>11, <2>1
  <2>4. {y \in sockets' : y.uri = v} = {y \in sockets : y.uri = v}
    BY <2>3
  <2>5. CASE v \in DOMAIN entries
    <3>1. PICK x \in sockets : x.open /\ {y \in sockets : y.uri = v} = {x}
      BY <2>1, <2>5 DEF MonitorInv, OneEach
    <3> QED BY <2>2, <2>3, <2>4, <2>5, <3>1
  <2>6. CASE v \notin DOMAIN entries
    BY <2>1, <2>2, <2>3, <2>6 DEF MonitorInv, OneEach
  <2> QED BY <2>5, <2>6
<1>14. Numbered'
  <2>1. \A x \in sockets' : x.id \in 1 .. made'
    BY <1>9 DEF MonitorInv, Numbered
  <2>2. \A u \in DOMAIN entries' : entries'[u] \in 0 .. made'
    BY <1>2, <1>8 DEF MonitorInv, Numbered
  <2>3. ASSUME NEW y \in sockets', NEW u \in DOMAIN entries', y.id = entries'[u] PROVE y.uri = u
    <3>1. PICK x \in sockets : y.uri = x.uri /\ y.id = x.id
      BY <1>9
    <3>2. x.id \in 1 .. made
      BY DEF MonitorInv, Numbered
    <3>3. u \notin gone /\ u \in DOMAIN entries /\ entries'[u] = entries[u]
      <4>1. u \in gone => entries'[u] = 0
        BY <1>8
      <4>2. y.id # 0
        BY <1>2, <3>1, <3>2
      <4> QED BY <1>8, <2>3, <4>1, <4>2
    <3> QED BY <2>3, <3>1, <3>3 DEF MonitorInv, Numbered
  <2> QED BY <2>1, <2>2, <2>3 DEF Numbered
<1> QED BY <1>7, <1>12, <1>13, <1>14 DEF MonitorInv

(* A monitor that stays in the list is connected once when Admin has nothing  *)
(* left to do (wsd/Admin.cpp), whatever the lists are and however often they  *)
(* change and connections end, when every connection can be made.             *)
THEOREM MonitorsAreConnected ==
  Remote!ConfigAssumption /\ ~ConnectMayFail => (Remote!Spec => []MonitorsAreServed)
<1> SUFFICES ASSUME Remote!ConfigAssumption, ~ConnectMayFail PROVE Remote!Spec => []MonitorsAreServed
  OBVIOUS
<1>1. Remote!Init => MonitorInv
  BY MonitorInitially
<1>2. MonitorInv /\ [Remote!Next]_Remote!configVars => MonitorInv'
  <2> SUFFICES ASSUME MonitorInv, [Remote!Next]_Remote!configVars PROVE MonitorInv'
    OBVIOUS
  <2>1. ASSUME UNCHANGED <<overlay, connects, pending, entries, sockets, made, dropped>>, served'.json \in Jsons
        PROVE  MonitorInv'
    BY <2>1 DEF MonitorInv, MonTypes, OnlyListed, AllListed, OneEach, Numbered, Listed, In,
                Remote!GetMonitorList, Remote!MonitorOrder, Remote!Conf
  <2>2. CASE UNCHANGED Remote!configVars
    BY <2>1, <2>2 DEF Remote!configVars, MonitorInv, MonTypes
  <2>3. CASE Remote!Fetch
    <3>1. served.json \in Jsons
      BY DEF MonitorInv, MonTypes
    <3>2. CASE served.json.valid
      BY <2>3, <3>1, <3>2, HandleJsonKeeps DEF Remote!Fetch
    <3>3. CASE ~served.json.valid
      BY <2>1, <2>3, <3>1, <3>3 DEF Remote!Fetch
    <3> QED BY <3>2, <3>3
  <2>4. ASSUME NEW j \in Jsons, Remote!ServeAnother(j) PROVE MonitorInv'
    BY <2>1, <2>4 DEF Remote!ServeAnother, Remote!adminVars
  <2>5. CASE Remote!RunCallback
    BY <2>5, CallbackKeeps
  <2>6. CASE Remote!ConnectToMonitorSync
    BY <2>6, ConnectKeeps
  <2>7. CASE \E s \in sockets : Remote!Disconnected(s)
    BY <2>7, DisconnectedKeeps
  <2> QED BY <2>2, <2>3, <2>4, <2>5, <2>6, <2>7 DEF Remote!Next
<1>3. MonitorInv => MonitorsAreServed
  <2> SUFFICES ASSUME MonitorInv, connects = <<>>, pending = <<>>, NEW u \in Listed, u \notin dropped
               PROVE  \E s \in sockets : {x \in sockets : x.uri = u /\ x.open} = {s}
    BY DEF MonitorsAreServed, Remote!MonitorsAreServed, Listed
  <2>1. u \in DOMAIN entries
    BY DEF MonitorInv, AllListed, In
  <2>2. PICK s \in sockets : s.open /\ {x \in sockets : x.uri = u} = {s}
    BY <2>1 DEF MonitorInv, OneEach
  <2>3. {x \in sockets : x.uri = u /\ x.open} = {s}
    BY <2>2
  <2> QED BY <2>3
<1> QED BY <1>1, <1>2, <1>3, PTL DEF Remote!Spec
-----------------------------------------------------------------------------
(* The fonts.                                                                *)

(* What is known of a font, and what ForKit is told.                          *)
FontEntry == [stamp : Nat, tag : Nat]
FontMessage == [type : {"exit"}] \cup [type : {"addfont"}, font : Font, version : Nat]

(* What the last message says about a font, or ForKit if there is none.       *)
About(f, m) == m.type = "exit" \/ m.font = f
(* Nothing after the i-th message is about the font.                          *)
QuietAfter(f, q, i) == \A j \in 1 .. Len(q) : j > i => ~About(f, q[j])
(* ForKit has, or is going to have, that version of the font.                 *)
Has(f, v, q, kit) ==
  \/ \E i \in 1 .. Len(q) : q[i].type = "addfont" /\ q[i].font = f /\ q[i].version = v /\ QuietAfter(f, q, i)
  \/ QuietAfter(f, q, 0) /\ f \in DOMAIN kit /\ kit[f] = v
(* ForKit has nothing of the font when it has read its messages.              *)
Lacks(f, q, kit) ==
  \/ \E i \in 1 .. Len(q) : q[i].type = "exit" /\ QuietAfter(f, q, i)
  \/ QuietAfter(f, q, 0) /\ f \notin DOMAIN kit

(* The version a mark stands for.                                             *)
Added(e) == IF e.stamp # 0 THEN e.stamp ELSE e.tag

(* ForKit will have what the poll has, when it has taken its messages.        *)
Told(known, q, kit) ==
  \A f : IF f \in DOMAIN known THEN Has(f, Added(known[f]), q, kit) ELSE Lacks(f, q, kit)
(* The fonts that are known, with their marks.                                *)
Known == UNION {[D -> FontEntry] : D \in SUBSET Font}

(* What one more message says.                                                *)
LEMMA AppendSays ==
  ASSUME NEW q \in Seq(FontMessage), NEW m \in FontMessage, NEW kit, NEW f
  PROVE  /\ Append(q, m) \in Seq(FontMessage)
         /\ m.type = "exit" => Lacks(f, Append(q, m), kit)
         /\ m.type = "addfont" /\ m.font = f => Has(f, m.version, Append(q, m), kit)
         /\ ~About(f, m) => /\ \A v : Has(f, v, q, kit) => Has(f, v, Append(q, m), kit)
                            /\ Lacks(f, q, kit) => Lacks(f, Append(q, m), kit)
<1> DEFINE r == Append(q, m)
<1>1. /\ r \in Seq(FontMessage) /\ Len(q) \in Nat /\ Len(r) = Len(q) + 1 /\ r[Len(r)] = m
      /\ \A i \in 1 .. Len(q) : i \in 1 .. Len(r) /\ r[i] = q[i]
      /\ \A i \in 1 .. Len(r) : i = Len(r) \/ i \in 1 .. Len(q)
  OBVIOUS
<1> HIDE DEF r
<1>2. QuietAfter(f, r, Len(r)) /\ Len(r) \in 1 .. Len(r)
  BY <1>1 DEF QuietAfter
<1>3. ASSUME ~About(f, m), NEW i \in 0 .. Len(q), QuietAfter(f, q, i) PROVE QuietAfter(f, r, i)
  BY <1>1, <1>3 DEF QuietAfter
<1>4. m.type = "exit" => Lacks(f, r, kit)
  BY <1>1, <1>2 DEF Lacks
<1>5. m.type = "addfont" /\ m.font = f => Has(f, m.version, r, kit)
  BY <1>1, <1>2 DEF Has
<1>6. ASSUME ~About(f, m), NEW v, Has(f, v, q, kit) PROVE Has(f, v, r, kit)
  <2>1. CASE QuietAfter(f, q, 0) /\ f \in DOMAIN kit /\ kit[f] = v
    <3>1. 0 \in 0 .. Len(q)
      BY <1>1
    <3> QED BY <1>3, <1>6, <2>1, <3>1 DEF Has
  <2>2. ASSUME NEW i \in 1 .. Len(q), q[i].type = "addfont" /\ q[i].font = f /\ q[i].version = v,
               QuietAfter(f, q, i)
        PROVE  Has(f, v, r, kit)
    <3>1. i \in 0 .. Len(q)
      BY <1>1
    <3> QED BY <1>1, <1>3, <1>6, <2>2, <3>1 DEF Has
  <2> QED BY <1>6, <2>1, <2>2 DEF Has
<1>7. ASSUME ~About(f, m), Lacks(f, q, kit) PROVE Lacks(f, r, kit)
  <2>1. CASE QuietAfter(f, q, 0) /\ f \notin DOMAIN kit
    <3>1. 0 \in 0 .. Len(q)
      BY <1>1
    <3> QED BY <1>3, <1>7, <2>1, <3>1 DEF Lacks
  <2>2. ASSUME NEW i \in 1 .. Len(q), q[i].type = "exit", QuietAfter(f, q, i)
        PROVE  Lacks(f, r, kit)
    <3>1. i \in 0 .. Len(q)
      BY <1>1
    <3> QED BY <1>1, <1>3, <1>7, <2>2, <3>1 DEF Lacks
  <2> QED BY <1>7, <2>1, <2>2 DEF Lacks
<1> QED BY <1>1, <1>4, <1>5, <1>6, <1>7 DEF r

(* ForKit takes the first message. *)
LEMMA HandledSays ==
  ASSUME NEW q \in Seq(FontMessage), q # <<>>, NEW kit, NEW kit2, NEW f,
         kit2 = IF Head(q).type = "exit" THEN [g \in {} |-> 0]
                ELSE [g \in DOMAIN kit \cup {Head(q).font} |->
                        IF g = Head(q).font THEN Head(q).version ELSE kit[g]]
  PROVE  /\ Tail(q) \in Seq(FontMessage)
         /\ \A v : Has(f, v, q, kit) => Has(f, v, Tail(q), kit2)
         /\ Lacks(f, q, kit) => Lacks(f, Tail(q), kit2)
<1> DEFINE r == Tail(q)
           h == Head(q)
<1>1. /\ r \in Seq(FontMessage) /\ Len(q) \in Nat /\ Len(q) > 0 /\ Len(r) = Len(q) - 1 /\ q[1] = h
      /\ \A i \in 1 .. Len(r) : i + 1 \in 1 .. Len(q) /\ r[i] = q[i + 1]
      /\ h \in FontMessage
  OBVIOUS
<1> HIDE DEF r, h
<1>2. ASSUME NEW i \in 1 .. Len(q), QuietAfter(f, q, i) PROVE QuietAfter(f, r, i - 1)
  BY <1>1, <1>2 DEF QuietAfter
<1>3. h.type = "exit" => DOMAIN kit2 = {}
  BY DEF h
<1>4. h.type # "exit" => DOMAIN kit2 = DOMAIN kit \cup {h.font} /\ kit2[h.font] = h.version
                         /\ \A g \in DOMAIN kit : g # h.font => kit2[g] = kit[g]
  BY DEF h
<1>5. h.type = "exit" \/ h.type = "addfont"
  BY <1>1 DEF FontMessage
<1>6. ASSUME QuietAfter(f, q, 0)
      PROVE  QuietAfter(f, r, 0) /\ h.type = "addfont" /\ h.font # f
  <2>1. 1 \in 1 .. Len(q) /\ 1 > 0
    BY <1>1
  <2>2. ~About(f, h)
    BY <1>1, <1>6, <2>1 DEF QuietAfter
  <2>3. QuietAfter(f, q, 1)
    BY <1>1, <1>6 DEF QuietAfter
  <2>4. QuietAfter(f, r, 1 - 1)
    BY <1>2, <2>1, <2>3
  <2> QED BY <1>5, <2>2, <2>4 DEF About
<1>7. ASSUME NEW v, Has(f, v, q, kit) PROVE Has(f, v, r, kit2)
  <2>1. CASE QuietAfter(f, q, 0) /\ f \in DOMAIN kit /\ kit[f] = v
    BY <1>4, <1>6, <2>1 DEF Has
  <2>2. ASSUME NEW i \in 1 .. Len(q), q[i].type = "addfont" /\ q[i].font = f /\ q[i].version = v,
               QuietAfter(f, q, i)
        PROVE  Has(f, v, r, kit2)
    <3>1. QuietAfter(f, r, i - 1)
      BY <1>2, <2>2
    <3>2. CASE i = 1
      <4>1. h.type = "addfont" /\ h.font = f /\ h.version = v /\ QuietAfter(f, r, 0)
        BY <1>1, <2>2, <3>1, <3>2
      <4>2. h.type # "exit"
        BY <4>1
      <4> QED BY <1>4, <4>1, <4>2 DEF Has
    <3>3. CASE i # 1
      <4>1. i - 1 \in 1 .. Len(r) /\ r[i - 1] = q[i]
        BY <1>1, <3>3
      <4> QED BY <2>2, <3>1, <4>1 DEF Has
    <3> QED BY <3>2, <3>3
  <2> QED BY <1>7, <2>1, <2>2 DEF Has
<1>8. ASSUME Lacks(f, q, kit) PROVE Lacks(f, r, kit2)
  <2>1. CASE QuietAfter(f, q, 0) /\ f \notin DOMAIN kit
    <3>1. QuietAfter(f, r, 0) /\ f \notin DOMAIN kit2
      BY <1>4, <1>6, <2>1
    <3> QED BY <3>1 DEF Lacks
  <2>2. ASSUME NEW i \in 1 .. Len(q), q[i].type = "exit", QuietAfter(f, q, i)
        PROVE  Lacks(f, r, kit2)
    <3>1. QuietAfter(f, r, i - 1)
      BY <1>2, <2>2
    <3>2. CASE i = 1
      BY <1>1, <1>3, <2>2, <3>1, <3>2 DEF Lacks
    <3>3. CASE i # 1
      <4>1. i - 1 \in 1 .. Len(r) /\ r[i - 1] = q[i]
        BY <1>1, <3>3
      <4> QED BY <2>2, <3>1, <4>1 DEF Lacks
    <3> QED BY <3>2, <3>3
  <2> QED BY <1>8, <2>1, <2>2 DEF Lacks
<1> QED BY <1>1, <1>7, <1>8 DEF r

(* One more font that is known. *)
LEMMA KnownWith ==
  ASSUME NEW known \in Known, NEW f \in Font, NEW e \in FontEntry
  PROVE  [g \in DOMAIN known \cup {f} |-> IF g = f THEN e ELSE known[g]] \in Known
<1>1. PICK D \in SUBSET Font : known \in [D -> FontEntry]
  BY DEF Known
<1>2. DOMAIN known = D /\ D \cup {f} \in SUBSET Font
  BY <1>1
<1>3. [g \in D \cup {f} |-> IF g = f THEN e ELSE known[g]] \in [D \cup {f} -> FontEntry]
  BY <1>1
<1> QED BY <1>2, <1>3 DEF Known

(* One download. *)
DownloadOk(p) ==
  /\ p.sent \in Seq(FontMessage) /\ p.fonts \in Known /\ Told(p.fonts, p.sent, forKit)
  /\ \A f \in DOMAIN p.fonts : p.fonts[f].stamp = 0 \/ p.fonts[f].tag = 0
(* The mark a download leaves.                                                *)
Loaded(e, f) == e = IF list.how[f] = "stamp" THEN [stamp |-> version[f], tag |-> 0]
                    ELSE [stamp |-> 0, tag |-> version[f]]

(* A download tells ForKit, and remembers what it told it.                    *)
LEMMA DownloadKeeps ==
  ASSUME NEW p, DownloadOk(p), NEW f \in Font, version[f] \in Nat, version[f] # 0
  PROVE  LET d == Fonts!Download(p, f)
         IN  /\ DownloadOk(d) /\ d.tag = p.tag /\ DOMAIN d.fonts = DOMAIN p.fonts \cup {f}
             /\ Loaded(d.fonts[f], f)
             /\ \A g \in DOMAIN p.fonts : g # f => d.fonts[g] = p.fonts[g]
<1> DEFINE m == [type |-> "addfont", font |-> f, version |-> version[f]]
           e == IF list.how[f] = "stamp" THEN [stamp |-> version[f], tag |-> 0]
                ELSE [stamp |-> 0, tag |-> version[f]]
           known == [g \in DOMAIN p.fonts \cup {f} |-> IF g = f THEN e ELSE p.fonts[g]]
           d == Fonts!Download(p, f)
<1>2. d = [tag |-> p.tag, fonts |-> known, sent |-> Append(p.sent, m)]
  <2>1. CASE list.how[f] = "stamp"
    BY <2>1 DEF Fonts!Download, Fonts!DownloadPlain, Fonts!FinishDownload, Fonts!NoTag
  <2>2. CASE list.how[f] # "stamp"
    BY <2>2 DEF Fonts!Download, Fonts!DownloadWithETag, Fonts!FinishDownload, Fonts!NoStamp
  <2> QED BY <2>1, <2>2
<1>3. d.tag = p.tag /\ d.fonts = known /\ d.sent = Append(p.sent, m)
  <2> HIDE DEF known, m, d
  <2> QED BY <1>2
<1>4. /\ m \in FontMessage /\ m.type = "addfont" /\ m.font = f /\ m.version = version[f]
      /\ \A g : About(g, m) <=> g = f
  BY DEF FontMessage, About
<1>5. /\ e \in FontEntry /\ Added(e) = version[f] /\ (e.stamp = 0 \/ e.tag = 0) /\ Loaded(e, f)
  BY DEF FontEntry, Added, Loaded
<1>6. /\ DOMAIN known = DOMAIN p.fonts \cup {f} /\ known[f] = e
      /\ \A g \in DOMAIN p.fonts : g # f => known[g] = p.fonts[g]
  <2> HIDE DEF e
  <2> QED OBVIOUS
<1>a. known \in Known
  BY <1>5, KnownWith DEF DownloadOk
<1> HIDE DEF m, e, known, d
<1>7. d.sent \in Seq(FontMessage)
  BY <1>3, <1>4, AppendSays DEF DownloadOk
<1>8. known \in Known /\ \A g \in DOMAIN known : known[g].stamp = 0 \/ known[g].tag = 0
  BY <1>5, <1>6, <1>a DEF DownloadOk
<1>9. ASSUME NEW g
      PROVE  IF g \in DOMAIN known THEN Has(g, Added(known[g]), d.sent, forKit)
             ELSE Lacks(g, d.sent, forKit)
  <2>1. p.sent \in Seq(FontMessage)
    BY DEF DownloadOk
  <2>2. CASE g = f
    <3>1. Has(f, m.version, Append(p.sent, m), forKit)
      BY <1>4, <2>1, AppendSays
    <3> QED BY <1>3, <1>4, <1>5, <1>6, <2>2, <3>1
  <2>3. CASE g # f
    <3>1. ~About(g, m)
      BY <1>4, <2>3
    <3>2. /\ \A v : Has(g, v, p.sent, forKit) => Has(g, v, d.sent, forKit)
          /\ Lacks(g, p.sent, forKit) => Lacks(g, d.sent, forKit)
      BY <1>3, <1>4, <2>1, <3>1, AppendSays
    <3> QED BY <1>6, <2>3, <3>2 DEF DownloadOk, Told
  <2> QED BY <2>2, <2>3
<1>10. DownloadOk(d)
  BY <1>3, <1>7, <1>8, <1>9 DEF DownloadOk, Told
<1> QED BY <1>3, <1>5, <1>6, <1>10 DEF d

(* A download leaves the known fonts well-formed.                             *)
LEMMA DownloadType ==
  ASSUME NEW t, NEW p \in [tag : {t}, fonts : Known, sent : Seq(FontMessage)], NEW f \in Font,
         \A g \in Font : version[g] \in Nat
  PROVE  Fonts!Download(p, f) \in [tag : {t}, fonts : Known, sent : Seq(FontMessage)]
<1> DEFINE m == [type |-> "addfont", font |-> f, version |-> version[f]]
           e == IF list.how[f] = "stamp" THEN [stamp |-> version[f], tag |-> 0]
                ELSE [stamp |-> 0, tag |-> version[f]]
           known == [g \in DOMAIN p.fonts \cup {f} |-> IF g = f THEN e ELSE p.fonts[g]]
<1>1. Fonts!Download(p, f) = [tag |-> p.tag, fonts |-> known, sent |-> Append(p.sent, m)]
  <2>1. CASE list.how[f] = "stamp"
    BY <2>1 DEF Fonts!Download, Fonts!DownloadPlain, Fonts!FinishDownload, Fonts!NoTag
  <2>2. CASE list.how[f] # "stamp"
    BY <2>2 DEF Fonts!Download, Fonts!DownloadWithETag, Fonts!FinishDownload, Fonts!NoStamp
  <2> QED BY <2>1, <2>2
<1>2. m \in FontMessage /\ e \in FontEntry
  BY DEF FontMessage, FontEntry
<1> HIDE DEF m, e
<1>3. known \in Known
  BY <1>2, KnownWith
<1>4. Append(p.sent, m) \in Seq(FontMessage)
  BY <1>2
<1> HIDE DEF known
<1> QED BY <1>1, <1>3, <1>4

(* All the downloads of a poll. *)
LEMMA DownloadAllKeeps ==
  ASSUME NEW p, DownloadOk(p), NEW order \in Seq(Font),
         p \in [tag : {p.tag}, fonts : Known, sent : Seq(FontMessage)],
         \A f \in Font : version[f] \in Nat /\ version[f] # 0,
         \A i \in 1 .. Len(order) : order[i] \notin DOMAIN p.fonts
  PROVE  LET d == Fonts!DownloadAll(p, order)
         IN  /\ DownloadOk(d) /\ d.tag = p.tag /\ DOMAIN d.fonts = DOMAIN p.fonts \cup In(order)
             /\ \A f \in In(order) : Loaded(d.fonts[f], f)
             /\ \A g \in DOMAIN p.fonts : d.fonts[g] = p.fonts[g]
<1> DEFINE L == Len(order)
           Before(n) == {order[i] : i \in 1 .. n}
           Good(d, n) == /\ DownloadOk(d) /\ d.tag = p.tag /\ DOMAIN d.fonts = DOMAIN p.fonts \cup Before(n)
                         /\ \A f \in Before(n) : Loaded(d.fonts[f], f)
                         /\ \A g \in DOMAIN p.fonts : d.fonts[g] = p.fonts[g]
           F(h) == [n \in 0 .. L |-> IF n = 0 THEN p ELSE Fonts!Download(h[n - 1], order[n])]
<1>1. L \in Nat /\ 0 \in 0 .. L /\ \A n \in 1 .. L : order[n] \in Font /\ n - 1 \in 0 .. L /\ n \in 0 .. L
  OBVIOUS
<1>2. \E h : h = F(h)
  <2> DEFINE A == [tag : {p.tag}, fonts : Known, sent : Seq(FontMessage)]
             step == [x \in A |-> [n \in 1 .. L |-> Fonts!Download(x, order[n])]]
  <2>1. \A x \in A : \A f \in Font : Fonts!Download(x, f) \in A
    BY DownloadType
  <2>2. step \in [A -> [1 .. L -> A]]
    <3> HIDE DEF A
    <3> QED BY <1>1, <2>1
  <2>3. \A x \in A : \A n \in 1 .. L : step[x][n] = Fonts!Download(x, order[n])
    <3> HIDE DEF A
    <3> QED OBVIOUS
  <2>4. PICK h \in [0 .. L -> A] : FoldsAlong(h, p, step, L)
    <3>1. p \in A
      BY DEF DownloadOk
    <3> HIDE DEF A, step, L
    <3> QED BY <1>1, <2>2, <3>1, FoldExists
  <2>5. h[0] = p /\ \A n \in 1 .. L : h[n] = step[h[n - 1]][n]
    BY <2>4 DEF FoldsAlong
  <2> HIDE DEF A, step, L
  <2>6. ASSUME NEW n \in 0 .. L PROVE h[n] = IF n = 0 THEN p ELSE Fonts!Download(h[n - 1], order[n])
    <3>1. n # 0 => n \in 1 .. L /\ n - 1 \in 0 .. L
      BY <1>1
    <3> QED BY <2>3, <2>5, <3>1
  <2>7. h = F(h)
    BY <2>6
  <2> QED BY <2>7
<1>3. PICK k : k = F(k) /\ Fonts!DownloadAll(p, order) = k[L]
  BY <1>2 DEF Fonts!DownloadAll
<1>4. k[0] = p /\ \A n \in 1 .. L : k[n] = Fonts!Download(k[n - 1], order[n])
  <2>1. \A n \in 0 .. L : k[n] = F(k)[n]
    BY <1>3
  <2>2. F(k)[0] = p
    BY <1>1
  <2>3. ASSUME NEW n \in 1 .. L PROVE F(k)[n] = Fonts!Download(k[n - 1], order[n])
    BY <1>1
  <2> HIDE DEF F
  <2> QED BY <1>1, <2>1, <2>2, <2>3
<1> DEFINE P == {n \in 0 .. L : Good(k[n], n)}
<1>5. 0 \in P
  <2>1. Before(0) = {}
    OBVIOUS
  <2> HIDE DEF Before
  <2> QED BY <1>1, <1>4, <2>1
<1>6. ASSUME NEW n \in 1 .. L, n - 1 \in P PROVE n \in P
  <2> DEFINE c == k[n - 1]
             f == order[n]
  <2>1. f \in Font /\ Good(c, n - 1) /\ f \notin DOMAIN p.fonts /\ k[n] = Fonts!Download(c, f) /\ n \in 0 .. L
    BY <1>1, <1>4, <1>6
  <2>2. Before(n) = Before(n - 1) \cup {f}
    <3>1. \A i \in 1 .. n : i = n \/ i \in 1 .. n - 1
      OBVIOUS
    <3>2. n \in 1 .. n /\ \A i \in 1 .. n - 1 : i \in 1 .. n
      OBVIOUS
    <3> QED BY <3>1, <3>2
  <2>3. /\ DownloadOk(k[n]) /\ k[n].tag = c.tag /\ DOMAIN k[n].fonts = DOMAIN c.fonts \cup {f}
        /\ Loaded(k[n].fonts[f], f)
        /\ \A g \in DOMAIN c.fonts : g # f => k[n].fonts[g] = c.fonts[g]
    <3>1. version[f] \in Nat /\ version[f] # 0 /\ DownloadOk(c)
      BY <2>1
    <3> HIDE DEF c, f
    <3> QED BY <2>1, <3>1, DownloadKeeps
  <2> HIDE DEF Before, c, f
  <2>4. Good(k[n], n)
    BY <2>1, <2>2, <2>3
  <2> QED BY <2>1, <2>4
<1> HIDE DEF P
<1>7. L \in P
  <2>1. \A n \in 0 .. L : n \in P
    BY <1>1, <1>5, <1>6, Stepwise
  <2> QED BY <1>1, <2>1
<1>8. Good(k[L], L)
  BY <1>7 DEF P
<1>9. Before(L) = In(order)
  BY DEF In
<1> QED BY <1>3, <1>8, <1>9

(* The parts of the invariant: the marks are of one sort, those of the fonts  *)
(* that did not change since the poll are current, and ForKit is told of what *)
(* is known.                                                                  *)
FontTypes ==
  /\ list.tag \in Nat /\ list.tag # 0 /\ list.how \in [Font -> Fonts!Listing]
  /\ version \in [Font -> Nat] /\ (\A f \in Font : version[f] # 0)
  /\ eTag \in 0 .. list.tag /\ fonts \in Known /\ toForKit \in Seq(FontMessage)
OneMark == \A f \in DOMAIN fonts : fonts[f].stamp = 0 \/ fonts[f].tag = 0
UpToDate ==
  eTag = list.tag =>
    /\ DOMAIN fonts = Fonts!Listed
    /\ \A f \in Fonts!Listed :
         fonts[f].stamp = IF list.how[f] = "stamp" THEN version[f] ELSE 0
CalmIsCurrent ==
  calm => eTag = list.tag /\ \A f \in DOMAIN fonts : fonts[f].stamp = 0 => fonts[f].tag = version[f]
FontInv == FontTypes /\ OneMark /\ UpToDate /\ CalmIsCurrent /\ Told(fonts, toForKit, forKit)

(* Nothing is known at first.                                                 *)
LEMMA NoneKnown == [f \in {} |-> 0] \in Known
<1>1. [f \in {} |-> 0] \in [{} -> FontEntry]
  OBVIOUS
<1>2. {} \in SUBSET Font
  OBVIOUS
<1> QED BY <1>1, <1>2 DEF Known

(* The start.                                                                 *)
LEMMA FontInitially ==
  ASSUME Fonts!Init PROVE FontInv
<1>1. FontTypes
  <2>2. \A S : <<>> \in Seq(S)
    OBVIOUS
  <2>3. list \in [tag : {1}, how : [Font -> Fonts!Listing]] /\ version = [f \in Font |-> 1]
        /\ eTag = 0 /\ fonts = [f \in {} |-> 0] /\ toForKit = <<>>
    BY DEF Fonts!Init, Fonts!NoTag, Fonts!NoFonts
  <2>4. fonts \in Known
    BY <2>3, NoneKnown
  <2> QED BY <2>2, <2>3, <2>4 DEF FontTypes
<1>2. DOMAIN fonts = {} /\ DOMAIN forKit = {} /\ toForKit = <<>> /\ ~calm /\ eTag = 0 /\ list.tag = 1
  BY DEF Fonts!Init, Fonts!NoTag, Fonts!NoFonts
<1>3. Told(fonts, toForKit, forKit)
  BY <1>2 DEF Told, Lacks, QuietAfter
<1> QED BY <1>1, <1>2, <1>3 DEF FontInv, OneMark, UpToDate, CalmIsCurrent

(* ForKit is restarted: it will have no font, and neither has the poll. *)
LEMMA RestartKeeps ==
  ASSUME FontTypes, NEW p, p.sent \in Seq(FontMessage),
         UNCHANGED <<list, version, forKit>>,
         eTag' = Fonts!RestartForKit(p).tag, fonts' = Fonts!RestartForKit(p).fonts,
         toForKit' = Fonts!RestartForKit(p).sent, ~calm'
  PROVE  FontInv'
<1> DEFINE m == [type |-> "exit"]
<1>1. /\ eTag' = 0 /\ fonts' = [f \in {} |-> 0] /\ toForKit' = Append(p.sent, m)
  BY DEF Fonts!RestartForKit, Fonts!NoTag, Fonts!NoFonts
<1>2. m \in FontMessage /\ m.type = "exit"
  BY DEF FontMessage
<1>3. toForKit' \in Seq(FontMessage) /\ \A f : Lacks(f, toForKit', forKit)
  BY <1>1, <1>2, AppendSays
<1>4. fonts' \in Known
  BY <1>1, NoneKnown
<1>5. FontTypes'
  BY <1>1, <1>3, <1>4 DEF FontTypes
<1>6. DOMAIN fonts' = {} /\ eTag' # list'.tag
  BY <1>1 DEF FontTypes
<1>7. Told(fonts, toForKit, forKit)'
  <2>1. \A f : Lacks(f, toForKit', forKit')
    BY <1>3
  <2> QED BY <1>6, <2>1 DEF Told
<1> QED BY <1>5, <1>6, <1>7 DEF FontInv, OneMark, UpToDate, CalmIsCurrent

(* Nothing moves, but that it is calm may be known. *)
LEMMA FontsStill ==
  ASSUME FontInv, UNCHANGED <<list, version, forKit, eTag, fonts, toForKit>>, UNCHANGED calm \/ CalmIsCurrent'
  PROVE  FontInv'
<1>1. FontTypes' /\ OneMark'
  BY DEF FontInv, FontTypes, OneMark
<1>2. UpToDate'
  BY DEF FontInv, UpToDate, Fonts!Listed
<1>3. CalmIsCurrent'
  BY DEF FontInv, CalmIsCurrent
<1>4. Told(fonts, toForKit, forKit)'
  BY DEF FontInv, Told, Has, Lacks, QuietAfter, About
<1> QED BY <1>1, <1>2, <1>3, <1>4 DEF FontInv

(* The poll finds the list as it was. *)
LEMMA UnchangedKeeps ==
  ASSUME FontInv, eTag = list.tag, Fonts!Polls(Fonts!HandleUnchangedJSON) PROVE FontInv'
<1> DEFINE changed == \E f \in DOMAIN fonts : fonts[f].stamp = 0 /\ fonts[f].tag # version[f]
           p == Fonts!Polled
<1>1. p.tag = eTag /\ p.fonts = fonts /\ p.sent = toForKit
  BY DEF Fonts!Polled
<1>2. toForKit \in Seq(FontMessage) /\ FontTypes
  BY DEF FontInv, FontTypes
<1>3. CASE changed
  <2>1. Fonts!HandleUnchangedJSON = Fonts!RestartForKit(p)
    BY <1>3 DEF Fonts!HandleUnchangedJSON, Fonts!ETagUnchanged, Fonts!NoStamp
  <2>2. Fonts!RestartForKit(p).tag # p.tag
    BY <1>1, <1>2 DEF Fonts!RestartForKit, FontTypes, Fonts!NoTag
  <2>3. Fonts!RestartForKit(p) # p
    BY <2>2
  <2>4. ~calm'
    BY <2>1, <2>3 DEF Fonts!Polls
  <2> QED BY <1>1, <1>2, <2>1, <2>4, RestartKeeps DEF Fonts!Polls
<1>4. CASE ~changed
  <2>1. Fonts!HandleUnchangedJSON = p
    BY <1>4 DEF Fonts!HandleUnchangedJSON, Fonts!ETagUnchanged, Fonts!NoStamp
  <2>2. UNCHANGED <<list, version, forKit, eTag, fonts, toForKit>>
    BY <1>1, <2>1 DEF Fonts!Polls
  <2>3. calm' => CalmIsCurrent'
    BY <1>4, <2>2 DEF CalmIsCurrent
  <2> QED BY <2>2, <2>3, FontsStill DEF CalmIsCurrent
<1> QED BY <1>3, <1>4

(* The poll finds another list. *)
LEMMA ListKeeps ==
  ASSUME FontInv, eTag # list.tag, NEW order \in Fonts!Downloads({}), Fonts!Polls(Fonts!HandleJSON(order))
  PROVE  FontInv'
<1> DEFINE p == [tag |-> list.tag, fonts |-> fonts, sent |-> toForKit]
           d == Fonts!DownloadAll(p, order)
           restart == Fonts!OneHasChanged \/ ~(DOMAIN fonts \subseteq Fonts!Listed)
<1>1. FontTypes /\ p.tag = list.tag /\ p.fonts = fonts /\ p.sent = toForKit
  BY DEF FontInv
<1>2. /\ order \in Seq(Font) /\ In(order) \subseteq Fonts!Listed \ DOMAIN fonts
      /\ ~Fonts!OneHasChanged => In(order) = Fonts!Listed \ DOMAIN fonts
      /\ \A i \in 1 .. Len(order) : order[i] \notin DOMAIN fonts
  <2> DEFINE new == Fonts!Listed \ DOMAIN fonts
  <2>1. Fonts!New({}) = new
    BY DEF Fonts!New
  <2>2. PICK n \in 0 .. Fonts!Cardinality(new) : order \in [1 .. n -> new]
    BY <2>1 DEF Fonts!Downloads, Fonts!Orders
  <2>3. n \in Nat
    BY <2>2
  <2>4. order \in Seq(new) /\ new \subseteq Font
    BY <2>2, <2>3 DEF Fonts!Listed
  <2>5. ~Fonts!OneHasChanged => new \subseteq In(order)
    BY <2>1 DEF Fonts!Downloads, Fonts!ToSet, In
  <2> HIDE DEF new
  <2>6. In(order) \subseteq new /\ order \in Seq(Font) /\ \A i \in 1 .. Len(order) : order[i] \in new
    BY <2>4 DEF In
  <2> QED BY <2>5, <2>6 DEF new
<1>3. DownloadOk(p) /\ p \in [tag : {p.tag}, fonts : Known, sent : Seq(FontMessage)]
  BY <1>1 DEF DownloadOk, FontInv, FontTypes, OneMark
<1>4. \A f \in Font : version[f] \in Nat /\ version[f] # 0
  BY <1>1 DEF FontTypes
<1>5. /\ DownloadOk(d) /\ d.tag = p.tag /\ DOMAIN d.fonts = DOMAIN p.fonts \cup In(order)
      /\ \A f \in In(order) : Loaded(d.fonts[f], f)
      /\ \A g \in DOMAIN p.fonts : d.fonts[g] = p.fonts[g]
  <2>1. \A i \in 1 .. Len(order) : order[i] \notin DOMAIN p.fonts
    BY <1>1, <1>2
  <2> HIDE DEF p
  <2> QED BY <1>2, <1>3, <1>4, <2>1, DownloadAllKeeps
<1>6. Fonts!HandleJSON(order) = IF restart THEN Fonts!RestartForKit(d) ELSE d
  BY DEF Fonts!HandleJSON
<1>7. ~calm' /\ UNCHANGED <<list, version, forKit>>
  BY DEF Fonts!Polls
<1> HIDE DEF d, p
<1>8. CASE restart
  <2>1. d.sent \in Seq(FontMessage)
    BY <1>5 DEF DownloadOk
  <2> HIDE DEF restart
  <2> QED BY <1>1, <1>6, <1>7, <1>8, <2>1, RestartKeeps DEF Fonts!Polls
<1>9. CASE ~restart
  <2>1. eTag' = list.tag /\ fonts' = d.fonts /\ toForKit' = d.sent
    BY <1>1, <1>5, <1>6, <1>9 DEF Fonts!Polls
  <2>2. FontTypes'
    BY <1>1, <1>5, <1>7, <2>1 DEF FontTypes, DownloadOk
  <2>3. OneMark' /\ CalmIsCurrent' /\ Told(fonts, toForKit, forKit)'
    BY <1>5, <1>7, <2>1 DEF OneMark, CalmIsCurrent, DownloadOk, Told, Has, Lacks, QuietAfter, About
  <2>4. Fonts!Listed' = Fonts!Listed
    BY <1>7 DEF Fonts!Listed
  <2>5. DOMAIN d.fonts = Fonts!Listed
    BY <1>1, <1>2, <1>5, <1>9
  <2>6. ASSUME NEW f \in Fonts!Listed
        PROVE  d.fonts[f].stamp = IF list.how[f] = "stamp" THEN version[f] ELSE 0
    <3>1. f \in Font
      BY DEF Fonts!Listed
    <3>2. CASE f \in In(order)
      <4>1. d.fonts[f] = IF list.how[f] = "stamp" THEN [stamp |-> version[f], tag |-> 0]
                         ELSE [stamp |-> 0, tag |-> version[f]]
        BY <1>5, <3>2 DEF Loaded
      <4>2. CASE list.how[f] = "stamp"
        BY <4>1, <4>2
      <4>3. CASE list.how[f] # "stamp"
        BY <4>1, <4>3
      <4> QED BY <4>2, <4>3
    <3>3. CASE f \notin In(order)
      <4>1. f \in DOMAIN fonts /\ d.fonts[f] = fonts[f]
        BY <1>1, <1>5, <2>5, <3>3
      <4>2. ~Fonts!HasChanged(f)
        BY <1>9 DEF Fonts!OneHasChanged
      <4>3. IF list.how[f] = "stamp" THEN version[f] = fonts[f].stamp ELSE fonts[f].tag = version[f]
        BY <4>1, <4>2 DEF Fonts!HasChanged, Fonts!ETagUnchanged
      <4>4. fonts[f].stamp = 0 \/ fonts[f].tag = 0
        BY <4>1 DEF FontInv, OneMark
      <4> QED BY <1>4, <3>1, <4>1, <4>3, <4>4
    <3> QED BY <3>2, <3>3
  <2>7. UpToDate'
    BY <1>7, <2>1, <2>4, <2>5, <2>6 DEF UpToDate
  <2> QED BY <2>2, <2>3, <2>7 DEF FontInv
<1> QED BY <1>8, <1>9

(* ForKit reads a message.                                                    *)
LEMMA ForKitKeeps ==
  ASSUME FontInv, Fonts!ForKitHandles PROVE FontInv'
<1>1. /\ toForKit \in Seq(FontMessage) /\ toForKit # <<>> /\ toForKit' = Tail(toForKit)
      /\ forKit' = IF Head(toForKit).type = "exit" THEN [g \in {} |-> 0]
                   ELSE [g \in DOMAIN forKit \cup {Head(toForKit).font} |->
                           IF g = Head(toForKit).font THEN Head(toForKit).version ELSE forKit[g]]
      /\ UNCHANGED <<list, version, eTag, fonts, calm>>
  BY DEF Fonts!ForKitHandles, Fonts!NoFonts, Fonts!NoTag, FontInv, FontTypes
<1>2. /\ toForKit' \in Seq(FontMessage)
      /\ \A f, v : Has(f, v, toForKit, forKit) => Has(f, v, toForKit', forKit')
      /\ \A f : Lacks(f, toForKit, forKit) => Lacks(f, toForKit', forKit')
  BY <1>1, HandledSays
<1>3. Told(fonts, toForKit, forKit)'
  <2>1. Told(fonts, toForKit', forKit')
    BY <1>2 DEF FontInv, Told
  <2> QED BY <1>1, <2>1
<1>4. FontTypes' /\ OneMark' /\ UpToDate' /\ CalmIsCurrent'
  BY <1>1, <1>2 DEF FontInv, FontTypes, OneMark, UpToDate, CalmIsCurrent, Fonts!Listed
<1> QED BY <1>3, <1>4 DEF FontInv

(* A font changes where it comes from: the next poll has to find it.          *)
LEMMA FontChangesKeeps ==
  ASSUME FontInv, NEW f \in Font, Fonts!FontChanges(f) PROVE FontInv'
<1>1. /\ version' = [version EXCEPT ![f] = version[f] + 1] /\ ~calm'
      /\ list' = IF list.how[f] = "stamp" THEN [list EXCEPT !.tag = list.tag + 1] ELSE list
      /\ UNCHANGED <<eTag, fonts, toForKit, forKit>> /\ FontTypes
  BY DEF Fonts!FontChanges, FontInv
<1>2. Told(fonts, toForKit, forKit)'
  BY <1>1 DEF FontInv, Told, Has, Lacks, QuietAfter, About
<1>3. /\ version' \in [Font -> Nat] /\ (\A g \in Font : version'[g] # 0)
      /\ \A g \in Font : g # f => version'[g] = version[g]
  BY <1>1 DEF FontTypes
<1>4. CASE list.how[f] = "stamp"
  <2>1. list'.tag = list.tag + 1 /\ list'.how = list.how
    BY <1>1, <1>4
  <2>2. FontTypes' /\ eTag' # list'.tag
    BY <1>1, <1>3, <2>1 DEF FontTypes
  <2> QED BY <1>1, <1>2, <2>2 DEF FontInv, OneMark, UpToDate, CalmIsCurrent
<1>5. CASE list.how[f] # "stamp"
  <2>1. list' = list
    BY <1>1, <1>5
  <2>2. FontTypes'
    BY <1>1, <1>3, <2>1 DEF FontTypes
  <2>3. UpToDate'
    BY <1>1, <1>3, <1>5, <2>1 DEF FontInv, UpToDate, Fonts!Listed
  <2> QED BY <1>1, <1>2, <2>2, <2>3 DEF FontInv, OneMark, CalmIsCurrent
<1> QED BY <1>4, <1>5

(* The list of the fonts changes.                                             *)
LEMMA ListChangesKeeps ==
  ASSUME FontInv, NEW how \in [Font -> Fonts!Listing], Fonts!ListChanges(how) PROVE FontInv'
<1>1. /\ list' = [tag |-> list.tag + 1, how |-> how] /\ ~calm' /\ FontTypes
      /\ UNCHANGED <<version, eTag, fonts, toForKit, forKit>>
  BY DEF Fonts!ListChanges, FontInv
<1>2. Told(fonts, toForKit, forKit)'
  BY <1>1 DEF FontInv, Told, Has, Lacks, QuietAfter, About
<1>3. FontTypes' /\ eTag' # list'.tag
  BY <1>1 DEF FontTypes
<1> QED BY <1>1, <1>2, <1>3 DEF FontInv, OneMark, UpToDate, CalmIsCurrent

(* When a poll has found nothing to do and ForKit has been told, ForKit has   *)
(* the listed fonts in their latest versions and no others                    *)
(* (wsd/RemoteConfig.cpp), for any fonts and however they and their list      *)
(* change, when every download succeeds and ForKit does not die.              *)
THEOREM ForKitHasTheFonts == Fonts!FontAssumption /\ FontFaults = {} => (Fonts!Spec => []FontsAreFed)
<1> SUFFICES ASSUME FontFaults = {} PROVE Fonts!Spec => []FontsAreFed
  OBVIOUS
<1>1. Fonts!Init => FontInv
  BY FontInitially
<1>2. FontInv /\ [Fonts!Next]_Fonts!fontVars => FontInv'
  <2> SUFFICES ASSUME FontInv, [Fonts!Next]_Fonts!fontVars PROVE FontInv'
    OBVIOUS
  <2>1. CASE UNCHANGED Fonts!fontVars
    BY <2>1, FontsStill DEF Fonts!fontVars
  <2>2. CASE Fonts!Poll
    BY <2>2, UnchangedKeeps, ListKeeps DEF Fonts!Poll
  <2>3. CASE Fonts!ForKitHandles
    BY <2>3, ForKitKeeps
  <2>4. CASE Fonts!ForKitDies
    BY <2>4 DEF Fonts!ForKitDies
  <2>5. ASSUME NEW f \in Font, Fonts!FontChanges(f) PROVE FontInv'
    BY <2>5, FontChangesKeeps
  <2>6. ASSUME NEW how \in [Font -> Fonts!Listing], Fonts!ListChanges(how) PROVE FontInv'
    BY <2>6, ListChangesKeeps
  <2> QED BY <2>1, <2>2, <2>3, <2>4, <2>5, <2>6 DEF Fonts!Next
<1>3. FontInv => FontsAreFed
  <2> SUFFICES ASSUME FontInv, calm, toForKit = <<>>
               PROVE  DOMAIN forKit = Fonts!Listed /\ \A f \in Fonts!Listed : forKit[f] = version[f]
    BY DEF FontsAreFed, Fonts!FontsAreFed
  <2>1. \A f, v : Has(f, v, toForKit, forKit) => f \in DOMAIN forKit /\ forKit[f] = v
    BY DEF Has
  <2>2. \A f : Lacks(f, toForKit, forKit) => f \notin DOMAIN forKit
    BY DEF Lacks
  <2>3. /\ DOMAIN fonts = Fonts!Listed
        /\ \A f \in Fonts!Listed : fonts[f].stamp = IF list.how[f] = "stamp" THEN version[f] ELSE 0
        /\ \A f \in Fonts!Listed : fonts[f].stamp = 0 => fonts[f].tag = version[f]
    BY DEF FontInv, UpToDate, CalmIsCurrent
  <2>4. \A f \in Fonts!Listed : Added(fonts[f]) = version[f]
    BY <2>3 DEF Added
  <2>5. \A f \in Fonts!Listed : f \in DOMAIN forKit /\ forKit[f] = version[f]
    BY <2>1, <2>3, <2>4 DEF FontInv, Told
  <2>6. \A f : f \notin Fonts!Listed => f \notin DOMAIN forKit
    BY <2>2, <2>3 DEF FontInv, Told
  <2> QED BY <2>5, <2>6
<1> QED BY <1>1, <1>2, <1>3, PTL DEF Fonts!Spec
-----------------------------------------------------------------------------
(* Admin.                                                                    *)

(* The calls on their way to the Admin thread.                                *)
CallKind == {"addDoc", "rmView", "rmDoc", "modified", "activity", "addBytes", "subscribe"}
(* A call of the queue.                                                       *)
CallOk(m) ==
  /\ m.call \in CallKind
  /\ m.call \in {"addDoc", "rmView", "rmDoc", "modified", "activity"} => m.doc \in AdminDoc
  /\ m.call = "addDoc" => m.pid \in Nat /\ m.pid # 0
  /\ m.call \in {"addDoc", "rmView"} => m.session \in AdminSession
  /\ m.call = "modified" => m.value \in BOOLEAN
  /\ m.call = "subscribe" => m.console \in Console
QueueOk(q) == q \in Seq(In(q)) /\ \A m \in In(q) : CallOk(m)

(* The calls that show a session, and the one that takes it away.             *)
Adds(m, d, p, s) == m.call = "addDoc" /\ m.doc = d /\ m.pid = p /\ m.session = s
Drops(m, d, s) == m.call = "rmView" /\ m.doc = d /\ m.session = s
KeptTo(q, d, s, j, i) == \A k \in 1 .. Len(q) : j < k /\ k < i => ~Drops(q[k], d, s)

(* The model shows a session of a document, with a pid, when it has run the   *)
(* calls before the i-th.                                                     *)
Shown(q, docs, d, p, s, i) ==
  \/ s \in docs[d].views /\ docs[d].pid = p /\ KeptTo(q, d, s, 0, i)
  \/ \E j \in 1 .. Len(q) : j < i /\ Adds(q[j], d, p, s) /\ KeptTo(q, d, s, j, i)

(* One more call at the end of the queue.                                     *)
LEMMA CallAppended ==
  ASSUME NEW q, QueueOk(q), NEW m, CallOk(m)
  PROVE  QueueOk(Append(q, m)) /\ In(Append(q, m)) = In(q) \cup {m}
<1> DEFINE S == In(q) \cup {m}
<1>1. q \in Seq(S) /\ m \in S
  BY DEF QueueOk
<1>2. Append(q, m) \in Seq(S) /\ In(Append(q, m)) = S
  BY <1>1, InOfOneMore
<1> QED BY <1>2 DEF QueueOk

(* The first call is taken.                                                   *)
LEMMA CallTaken ==
  ASSUME NEW q, QueueOk(q), q # <<>>
  PROVE  QueueOk(Tail(q)) /\ In(Tail(q)) \subseteq In(q) /\ Head(q) \in In(q) /\ CallOk(Head(q))
<1>1. Head(q) \in In(q) /\ In(q) = In(Tail(q)) \cup {Head(q)} /\ q \in Seq(In(q))
  BY InOfRest DEF QueueOk
<1>2. Tail(q) \in Seq(In(Tail(q)))
  <2>1. Tail(q) \in Seq(In(q))
    BY <1>1
  <2> QED BY <2>1, OfItsOwn
<1> QED BY <1>1, <1>2 DEF QueueOk

(* What the model shows after one more call.                                  *)
LEMMA AppendedShown ==
  ASSUME NEW q, QueueOk(q), NEW m, NEW docs, NEW d, NEW p, NEW s
  PROVE  /\ Len(Append(q, m)) = Len(q) + 1 /\ Len(q) \in Nat
         /\ Append(q, m)[Len(q) + 1] = m /\ \A i \in 1 .. Len(q) : Append(q, m)[i] = q[i]
         /\ \A i \in 1 .. Len(q) + 1 : Shown(Append(q, m), docs, d, p, s, i) <=> Shown(q, docs, d, p, s, i)
         /\ Shown(Append(q, m), docs, d, p, s, Len(q) + 2)
              <=> Adds(m, d, p, s) \/ (Shown(q, docs, d, p, s, Len(q) + 1) /\ ~Drops(m, d, s))
<1> DEFINE r == Append(q, m)
<1>1. /\ Len(q) \in Nat /\ Len(r) = Len(q) + 1 /\ r[Len(q) + 1] = m
      /\ \A i \in 1 .. Len(q) : r[i] = q[i] /\ i \in 1 .. Len(r)
      /\ \A i \in 1 .. Len(r) : i = Len(q) + 1 \/ i \in 1 .. Len(q)
      /\ Len(q) + 1 \in 1 .. Len(r)
  BY DEF QueueOk
<1> HIDE DEF r
<1>2. ASSUME NEW i \in 1 .. Len(q) + 1, NEW j \in 0 .. Len(q)
      PROVE  KeptTo(r, d, s, j, i) <=> KeptTo(q, d, s, j, i)
  BY <1>1 DEF KeptTo
<1>3. ASSUME NEW i \in 1 .. Len(q) + 1 PROVE Shown(r, docs, d, p, s, i) <=> Shown(q, docs, d, p, s, i)
  <2>1. KeptTo(r, d, s, 0, i) <=> KeptTo(q, d, s, 0, i)
    BY <1>1, <1>2
  <2>2. ASSUME NEW j \in 1 .. Len(r), j < i, Adds(r[j], d, p, s), KeptTo(r, d, s, j, i)
        PROVE  \E k \in 1 .. Len(q) : k < i /\ Adds(q[k], d, p, s) /\ KeptTo(q, d, s, k, i)
    <3>1. j \in 1 .. Len(q) /\ j \in 0 .. Len(q)
      BY <1>1, <2>2
    <3> QED BY <1>1, <1>2, <2>2, <3>1
  <2>3. ASSUME NEW j \in 1 .. Len(q), j < i, Adds(q[j], d, p, s), KeptTo(q, d, s, j, i)
        PROVE  \E k \in 1 .. Len(r) : k < i /\ Adds(r[k], d, p, s) /\ KeptTo(r, d, s, k, i)
    <3>1. j \in 1 .. Len(r) /\ j \in 0 .. Len(q) /\ r[j] = q[j]
      BY <1>1
    <3> QED BY <1>2, <2>3, <3>1
  <2> QED BY <2>1, <2>2, <2>3 DEF Shown
<1>4. ASSUME NEW j \in 0 .. Len(q)
      PROVE  KeptTo(r, d, s, j, Len(q) + 2) <=> KeptTo(q, d, s, j, Len(q) + 1) /\ ~Drops(m, d, s)
  BY <1>1 DEF KeptTo
<1>5. KeptTo(r, d, s, Len(q) + 1, Len(q) + 2)
  BY <1>1 DEF KeptTo
<1>6. Shown(r, docs, d, p, s, Len(q) + 2)
        => Adds(m, d, p, s) \/ (Shown(q, docs, d, p, s, Len(q) + 1) /\ ~Drops(m, d, s))
  <2> SUFFICES ASSUME Shown(r, docs, d, p, s, Len(q) + 2), ~Adds(m, d, p, s)
               PROVE  Shown(q, docs, d, p, s, Len(q) + 1) /\ ~Drops(m, d, s)
    OBVIOUS
  <2>1. CASE s \in docs[d].views /\ docs[d].pid = p /\ KeptTo(r, d, s, 0, Len(q) + 2)
    <3>1. 0 \in 0 .. Len(q)
      BY <1>1
    <3> QED BY <1>4, <2>1, <3>1 DEF Shown
  <2>2. ASSUME NEW j \in 1 .. Len(r), Adds(r[j], d, p, s), KeptTo(r, d, s, j, Len(q) + 2)
        PROVE  Shown(q, docs, d, p, s, Len(q) + 1) /\ ~Drops(m, d, s)
    <3>1. j \in 1 .. Len(q)
      BY <1>1, <2>2
    <3>2. j \in 0 .. Len(q) /\ j < Len(q) + 1 /\ r[j] = q[j]
      BY <1>1, <3>1
    <3> QED BY <1>4, <2>2, <3>1, <3>2 DEF Shown
  <2> QED BY <2>1, <2>2 DEF Shown
<1>7. Adds(m, d, p, s) => Shown(r, docs, d, p, s, Len(q) + 2)
  <2>1. Len(q) + 1 < Len(q) + 2
    BY <1>1
  <2> QED BY <1>1, <1>5, <2>1 DEF Shown
<1>8. Shown(q, docs, d, p, s, Len(q) + 1) /\ ~Drops(m, d, s) => Shown(r, docs, d, p, s, Len(q) + 2)
  <2> SUFFICES ASSUME Shown(q, docs, d, p, s, Len(q) + 1), ~Drops(m, d, s)
               PROVE  Shown(r, docs, d, p, s, Len(q) + 2)
    OBVIOUS
  <2>1. CASE s \in docs[d].views /\ docs[d].pid = p /\ KeptTo(q, d, s, 0, Len(q) + 1)
    <3>1. 0 \in 0 .. Len(q)
      BY <1>1
    <3> QED BY <1>4, <2>1, <3>1 DEF Shown
  <2>2. ASSUME NEW j \in 1 .. Len(q), Adds(q[j], d, p, s), KeptTo(q, d, s, j, Len(q) + 1)
        PROVE  Shown(r, docs, d, p, s, Len(q) + 2)
    <3>1. j \in 0 .. Len(q) /\ j < Len(q) + 2 /\ r[j] = q[j] /\ j \in 1 .. Len(r)
      BY <1>1
    <3> QED BY <1>4, <2>2, <3>1 DEF Shown
  <2> QED BY <2>1, <2>2 DEF Shown
<1> QED BY <1>1, <1>3, <1>6, <1>7, <1>8 DEF r

(* Running the first call changes nothing of what the model shows after the   *)
(* others.                                                                    *)
LEMMA TakenShown ==
  ASSUME NEW q, QueueOk(q), q # <<>>, NEW docs, NEW docs2, NEW d, NEW p, NEW s,
         s \in docs2[d].views /\ docs2[d].pid = p
           <=> \/ Adds(Head(q), d, p, s)
               \/ s \in docs[d].views /\ docs[d].pid = p /\ ~Drops(Head(q), d, s)
  PROVE  /\ Len(Tail(q)) = Len(q) - 1 /\ Len(q) \in Nat /\ \A i \in 1 .. Len(Tail(q)) : Tail(q)[i] = q[i + 1]
         /\ \A i \in 1 .. Len(q) : Shown(Tail(q), docs2, d, p, s, i) <=> Shown(q, docs, d, p, s, i + 1)
<1> DEFINE r == Tail(q)
           h == Head(q)
<1>1. /\ Len(q) \in Nat /\ Len(q) > 0 /\ Len(r) = Len(q) - 1 /\ q[1] = h
      /\ \A i \in 1 .. Len(r) : r[i] = q[i + 1] /\ i + 1 \in 1 .. Len(q)
  BY DEF QueueOk
<1> HIDE DEF r, h
<1>2. ASSUME NEW i \in 1 .. Len(q), NEW j \in 0 .. Len(q)
      PROVE  KeptTo(r, d, s, j, i) <=> KeptTo(q, d, s, j + 1, i + 1)
  <2>1. ASSUME KeptTo(r, d, s, j, i), NEW k \in 1 .. Len(q), j + 1 < k, k < i + 1 PROVE ~Drops(q[k], d, s)
    <3>1. k - 1 \in 1 .. Len(r) /\ j < k - 1 /\ k - 1 < i /\ r[k - 1] = q[k]
      BY <1>1, <2>1
    <3> QED BY <2>1, <3>1 DEF KeptTo
  <2>2. ASSUME KeptTo(q, d, s, j + 1, i + 1), NEW k \in 1 .. Len(r), j < k, k < i PROVE ~Drops(r[k], d, s)
    <3>1. k + 1 \in 1 .. Len(q) /\ j + 1 < k + 1 /\ k + 1 < i + 1 /\ r[k] = q[k + 1]
      BY <1>1, <2>2
    <3> QED BY <2>2, <3>1 DEF KeptTo
  <2> QED BY <2>1, <2>2 DEF KeptTo
<1>3. ASSUME NEW i \in 1 .. Len(q)
      PROVE  KeptTo(q, d, s, 0, i + 1) <=> KeptTo(q, d, s, 1, i + 1) /\ ~Drops(h, d, s)
  <2>1. 1 \in 1 .. Len(q) /\ 0 < 1 /\ 1 < i + 1
    BY <1>1
  <2>2. \A k \in 1 .. Len(q) : k = 1 \/ 1 < k
    OBVIOUS
  <2>3. \A k \in 1 .. Len(q) : 1 < k => 0 < k
    OBVIOUS
  <2> QED BY <1>1, <2>1, <2>2, <2>3 DEF KeptTo
<1>4. ASSUME NEW i \in 1 .. Len(q), Shown(r, docs2, d, p, s, i) PROVE Shown(q, docs, d, p, s, i + 1)
  <2>1. CASE s \in docs2[d].views /\ docs2[d].pid = p /\ KeptTo(r, d, s, 0, i)
    <3>1. KeptTo(q, d, s, 1, i + 1)
      <4>1. 0 \in 0 .. Len(q) /\ 0 + 1 = 1
        BY <1>1
      <4> QED BY <1>2, <2>1, <4>1
    <3>2. CASE Adds(h, d, p, s)
      <4>1. 1 \in 1 .. Len(q) /\ 1 < i + 1
        BY <1>1
      <4> QED BY <1>1, <3>1, <3>2, <4>1 DEF Shown
    <3>3. CASE s \in docs[d].views /\ docs[d].pid = p /\ ~Drops(h, d, s)
      BY <1>3, <3>1, <3>3 DEF Shown
    <3> QED BY <2>1, <3>2, <3>3 DEF h
  <2>2. ASSUME NEW j \in 1 .. Len(r), j < i, Adds(r[j], d, p, s), KeptTo(r, d, s, j, i)
        PROVE  Shown(q, docs, d, p, s, i + 1)
    <3>1. j \in 0 .. Len(q) /\ j + 1 \in 1 .. Len(q) /\ j + 1 < i + 1 /\ r[j] = q[j + 1]
      BY <1>1, <2>2
    <3> QED BY <1>2, <2>2, <3>1 DEF Shown
  <2> QED BY <1>4, <2>1, <2>2 DEF Shown
<1>5. ASSUME NEW i \in 1 .. Len(q), Shown(q, docs, d, p, s, i + 1) PROVE Shown(r, docs2, d, p, s, i)
  <2>0. 0 \in 0 .. Len(q) /\ 0 + 1 = 1
    BY <1>1
  <2>1. CASE s \in docs[d].views /\ docs[d].pid = p /\ KeptTo(q, d, s, 0, i + 1)
    <3>1. KeptTo(q, d, s, 1, i + 1) /\ ~Drops(h, d, s)
      BY <1>3, <2>1
    <3>2. KeptTo(r, d, s, 0, i)
      BY <1>2, <2>0, <3>1
    <3> QED BY <2>1, <3>1, <3>2 DEF Shown, h
  <2>2. ASSUME NEW j \in 1 .. Len(q), j < i + 1, Adds(q[j], d, p, s), KeptTo(q, d, s, j, i + 1)
        PROVE  Shown(r, docs2, d, p, s, i)
    <3>1. CASE j = 1
      <4>1. KeptTo(r, d, s, 0, i)
        BY <1>2, <2>0, <2>2, <3>1
      <4>2. Adds(h, d, p, s)
        BY <1>1, <2>2, <3>1
      <4> QED BY <4>1, <4>2 DEF Shown, h
    <3>2. CASE j # 1
      <4>1. /\ j - 1 \in 0 .. Len(q) /\ j - 1 \in 1 .. Len(r) /\ j - 1 < i /\ r[j - 1] = q[j]
            /\ (j - 1) + 1 = j
        BY <1>1, <2>2, <3>2
      <4>2. KeptTo(r, d, s, j - 1, i)
        BY <1>2, <2>2, <4>1
      <4> QED BY <2>2, <4>1, <4>2 DEF Shown
    <3> QED BY <3>1, <3>2
  <2> QED BY <1>5, <2>1, <2>2 DEF Shown
<1> QED BY <1>1, <1>4, <1>5 DEF r

(* The fields of a document of the model, of a broker, and of a console.      *)
DocumentFields == {"pid", "views", "expired", "modified", "idle", "bad"}
BrokerFields == {"pid", "sessions", "modified", "closing", "recv"}
ConsoleFields == {"registered", "auth", "open", "follows", "seen"}

(* A document with no pid is not there, and one that is has a view.           *)
ModelOk ==
  /\ DOMAIN documents = AdminDoc
  /\ \A d \in AdminDoc :
       /\ DOMAIN documents[d] = DocumentFields /\ documents[d].pid \in Nat
       /\ documents[d].pid = 0 => documents[d] = Admin!NoDocument
       /\ documents[d].pid # 0 => documents[d].views # {}
(* A broker that is gone has no session and no Kit.                           *)
BrokersOk ==
  /\ DOMAIN brokers = AdminDoc
  /\ \A d \in AdminDoc :
       /\ DOMAIN brokers[d] = BrokerFields /\ brokers[d].pid \in Nat
       /\ brokers[d].pid = 0 => brokers[d].sessions = {}
       /\ d \in undead => brokers[d].pid = 0

(* What the brokers have is what the model shows in the end; and a document   *)
(* is added, or removed, when the model shows nothing of another Kit of it.   *)
Leads ==
  \A d \in AdminDoc : \A p, s :
    Shown(callbacks, documents, d, p, s, Len(callbacks) + 1) <=> s \in brokers[d].sessions /\ p = brokers[d].pid
Barriers ==
  \A i \in 1 .. Len(callbacks), d \in AdminDoc : \A p, s :
    Shown(callbacks, documents, d, p, s, i) /\ callbacks[i].doc = d =>
      (callbacks[i].call = "addDoc" => p = callbacks[i].pid) /\ callbacks[i].call # "rmDoc"

(* A pid is that of one document: no two brokers have the same Kit.           *)
Uses(d, p) ==
  \/ brokers[d].pid = p \/ documents[d].pid = p
  \/ \E m \in In(callbacks) : m.call = "addDoc" /\ m.doc = d /\ m.pid = p
PidsOk ==
  /\ pids \in Nat
  /\ \A d \in AdminDoc : \A p : Uses(d, p) => p <= pids
  /\ \A d, e \in AdminDoc : \A p : p # 0 /\ Uses(d, p) /\ Uses(e, p) => d = e

(* A console that follows has seen the views the model shows.                 *)
ViewsShown(docs) == UNION {{docs[d].pid} \X docs[d].views : d \in AdminDoc}
ConsolesOk ==
  /\ DOMAIN consoles = Console
  /\ \A c \in Console :
       /\ DOMAIN consoles[c] = ConsoleFields
       /\ consoles[c].follows => consoles[c].registered /\ consoles[c].open /\ consoles[c].seen = ViewsShown(documents)

(* The invariant.                                                             *)
AdminInv ==
  QueueOk(callbacks) /\ ModelOk /\ BrokersOk /\ Leads /\ Barriers /\ PidsOk /\ ConsolesOk

(* A broker tells something. *)
LEMMA TellKeeps ==
  ASSUME AdminInv, NEW m, CallOk(m), callbacks' = Append(callbacks, m), documents' = documents,
         \A d \in AdminDoc : \A p, s :
           s \in brokers'[d].sessions /\ p = brokers'[d].pid
             <=> Adds(m, d, p, s) \/ (s \in brokers[d].sessions /\ p = brokers[d].pid /\ ~Drops(m, d, s)),
         \A d \in AdminDoc : \A p, s :
           s \in brokers[d].sessions /\ p = brokers[d].pid /\ m.doc = d =>
             (m.call = "addDoc" => p = m.pid) /\ m.call # "rmDoc"
  PROVE  QueueOk(callbacks') /\ In(callbacks)' = In(callbacks) \cup {m} /\ Leads' /\ Barriers'
<1> DEFINE n == Len(callbacks)
<1>1. QueueOk(callbacks') /\ In(callbacks') = In(callbacks) \cup {m}
  BY CallAppended DEF AdminInv
<1>2. /\ n \in Nat /\ Len(callbacks') = n + 1 /\ callbacks'[n + 1] = m
      /\ \A i \in 1 .. n : callbacks'[i] = callbacks[i]
  BY AppendedShown DEF AdminInv
<1>3. \A d, p, s :
        /\ \A i \in 1 .. n + 1 :
             Shown(callbacks', documents, d, p, s, i) <=> Shown(callbacks, documents, d, p, s, i)
        /\ Shown(callbacks', documents, d, p, s, n + 2)
             <=> Adds(m, d, p, s) \/ (Shown(callbacks, documents, d, p, s, n + 1) /\ ~Drops(m, d, s))
  BY AppendedShown DEF AdminInv
<1>4. \A d, p, s, i : Shown(callbacks, documents, d, p, s, i)' <=> Shown(callbacks', documents, d, p, s, i')
  BY DEF Shown, KeptTo, Drops, Adds
<1>5. Leads'
  <2> SUFFICES ASSUME NEW d \in AdminDoc, NEW p, NEW s
               PROVE  Shown(callbacks', documents', d, p, s, Len(callbacks') + 1)
                        <=> s \in brokers'[d].sessions /\ p = brokers'[d].pid
    BY DEF Leads
  <2>1. Shown(callbacks, documents, d, p, s, n + 1) <=> s \in brokers[d].sessions /\ p = brokers[d].pid
    BY DEF AdminInv, Leads
  <2>2. Len(callbacks') + 1 = n + 2
    BY <1>2
  <2>3. Shown(callbacks', documents', d, p, s, Len(callbacks') + 1)
          <=> Adds(m, d, p, s) \/ (Shown(callbacks, documents, d, p, s, n + 1) /\ ~Drops(m, d, s))
    BY <1>3, <2>2
  <2> QED BY <2>1, <2>3
<1>6. Barriers'
  <2> SUFFICES ASSUME NEW i \in 1 .. Len(callbacks'), NEW d \in AdminDoc, NEW p, NEW s,
                      Shown(callbacks', documents', d, p, s, i), callbacks'[i].doc = d
               PROVE  (callbacks'[i].call = "addDoc" => p = callbacks'[i].pid) /\ callbacks'[i].call # "rmDoc"
    BY DEF Barriers
  <2>1. Shown(callbacks, documents, d, p, s, i)
    BY <1>2, <1>3
  <2>2. CASE i = n + 1
    <3>1. s \in brokers[d].sessions /\ p = brokers[d].pid
      BY <2>1, <2>2 DEF AdminInv, Leads
    <3> QED BY <1>2, <2>2, <3>1
  <2>3. CASE i # n + 1
    <3>1. i \in 1 .. n /\ callbacks'[i] = callbacks[i]
      BY <1>2, <2>3
    <3> QED BY <2>1, <3>1 DEF AdminInv, Barriers
  <2> QED BY <2>2, <2>3
<1>7. In(callbacks)' = In(callbacks')
  BY DEF In
<1> QED BY <1>1, <1>5, <1>6, <1>7

(* The Admin thread runs a call. *)
LEMMA TakeKeeps ==
  ASSUME AdminInv, callbacks # <<>>, callbacks' = Tail(callbacks), brokers' = brokers,
         \A d \in AdminDoc : \A p, s :
           s \in documents'[d].views /\ documents'[d].pid = p
             <=> \/ Adds(Head(callbacks), d, p, s)
                 \/ s \in documents[d].views /\ documents[d].pid = p /\ ~Drops(Head(callbacks), d, s)
  PROVE  QueueOk(callbacks') /\ In(callbacks)' \subseteq In(callbacks) /\ Leads' /\ Barriers'
<1> DEFINE n == Len(callbacks)
<1>0. QueueOk(callbacks)
  BY DEF AdminInv
<1>1. QueueOk(callbacks') /\ In(callbacks') \subseteq In(callbacks)
  BY <1>0, CallTaken
<1>2. /\ n \in Nat /\ n > 0 /\ Len(callbacks') = n - 1 /\ \A i \in 1 .. n - 1 : callbacks'[i] = callbacks[i + 1]
  BY <1>0 DEF QueueOk
<1>3. ASSUME NEW d \in AdminDoc, NEW p, NEW s
      PROVE  \A i \in 1 .. n : Shown(callbacks', documents', d, p, s, i) <=> Shown(callbacks, documents, d, p, s, i + 1)
  BY <1>0, TakenShown
<1>5. Leads'
  <2> SUFFICES ASSUME NEW d \in AdminDoc, NEW p, NEW s
               PROVE  Shown(callbacks', documents', d, p, s, Len(callbacks') + 1)
                        <=> s \in brokers[d].sessions /\ p = brokers[d].pid
    BY DEF Leads
  <2>1. Shown(callbacks, documents, d, p, s, n + 1) <=> s \in brokers[d].sessions /\ p = brokers[d].pid
    BY DEF AdminInv, Leads
  <2>2. Len(callbacks') + 1 = n /\ n \in 1 .. n
    BY <1>2
  <2> QED BY <1>3, <2>1, <2>2
<1>6. Barriers'
  <2> SUFFICES ASSUME NEW i \in 1 .. Len(callbacks'), NEW d \in AdminDoc, NEW p, NEW s,
                      Shown(callbacks', documents', d, p, s, i), callbacks'[i].doc = d
               PROVE  (callbacks'[i].call = "addDoc" => p = callbacks'[i].pid) /\ callbacks'[i].call # "rmDoc"
    BY DEF Barriers
  <2>1. i \in 1 .. n - 1 /\ i \in 1 .. n /\ i + 1 \in 1 .. n /\ callbacks'[i] = callbacks[i + 1]
    BY <1>2
  <2>2. Shown(callbacks, documents, d, p, s, i + 1)
    BY <1>3, <2>1
  <2> QED BY <2>1, <2>2 DEF AdminInv, Barriers
<1>7. In(callbacks)' = In(callbacks')
  BY DEF In
<1> QED BY <1>1, <1>5, <1>6, <1>7

(* Nothing is told, and no view changes. *)
LEMMA QuietKeeps ==
  ASSUME AdminInv, callbacks' = callbacks,
         \A d \in AdminDoc : /\ documents'[d].views = documents[d].views /\ documents'[d].pid = documents[d].pid
                             /\ brokers'[d].sessions = brokers[d].sessions
                             /\ brokers'[d].pid = brokers[d].pid \/ brokers[d].sessions = {}
  PROVE  QueueOk(callbacks') /\ In(callbacks)' = In(callbacks) /\ Leads' /\ Barriers'
<1>1. \A d \in AdminDoc : \A p, s, i : Shown(callbacks', documents', d, p, s, i) <=> Shown(callbacks, documents, d, p, s, i)
  BY DEF Shown, KeptTo, Drops, Adds
<1>2. Leads'
  <2> SUFFICES ASSUME NEW d \in AdminDoc, NEW p, NEW s
               PROVE  Shown(callbacks', documents', d, p, s, Len(callbacks') + 1)
                        <=> s \in brokers'[d].sessions /\ p = brokers'[d].pid
    BY DEF Leads
  <2>1. Shown(callbacks, documents, d, p, s, Len(callbacks) + 1) <=> s \in brokers[d].sessions /\ p = brokers[d].pid
    BY DEF AdminInv, Leads
  <2> QED BY <1>1, <2>1
<1>3. Barriers'
  <2> SUFFICES ASSUME NEW i \in 1 .. Len(callbacks'), NEW d \in AdminDoc, NEW p, NEW s,
                      Shown(callbacks', documents', d, p, s, i), callbacks'[i].doc = d
               PROVE  (callbacks'[i].call = "addDoc" => p = callbacks'[i].pid) /\ callbacks'[i].call # "rmDoc"
    BY DEF Barriers
  <2> QED BY <1>1 DEF AdminInv, Barriers
<1> QED BY <1>2, <1>3 DEF AdminInv, In

(* What the consoles show follows what the model shows. *)
LEMMA NotifyKeeps ==
  ASSUME ConsolesOk, NEW added, NEW removed, Admin!Notify(added, removed),
         ViewsShown(documents') = (ViewsShown(documents) \cup added) \ removed
  PROVE  ConsolesOk'
<1> SUFFICES ASSUME NEW c \in Console
             PROVE  /\ DOMAIN consoles'[c] = ConsoleFields
                    /\ consoles'[c].follows =>
                         consoles'[c].registered /\ consoles'[c].open /\ consoles'[c].seen = ViewsShown(documents')
  <2>1. DOMAIN consoles' = Console
    BY DEF Admin!Notify
  <2>2. ViewsShown(documents)' = ViewsShown(documents')
    BY DEF ViewsShown
  <2> QED BY <2>1, <2>2 DEF ConsolesOk
<1> DEFINE k == consoles[c]
<1>1. /\ DOMAIN k = ConsoleFields
      /\ k.follows => k.registered /\ k.open /\ k.seen = ViewsShown(documents)
  BY DEF ConsolesOk
<1>2. consoles'[c] = IF ~k.registered THEN k
       ELSE IF ~k.open THEN [k EXCEPT !.registered = FALSE]
       ELSE IF k.follows THEN [k EXCEPT !.seen = (k.seen \cup added) \ removed] ELSE k
  BY DEF Admin!Notify
<1> HIDE DEF k
<1>3. CASE ~k.registered
  BY <1>1, <1>2, <1>3
<1>4. CASE k.registered /\ ~k.open
  BY <1>1, <1>2, <1>4 DEF ConsoleFields
<1>5. CASE k.registered /\ k.open /\ k.follows
  BY <1>1, <1>2, <1>5 DEF ConsoleFields
<1>6. CASE k.registered /\ k.open /\ ~k.follows
  BY <1>1, <1>2, <1>6
<1> QED BY <1>3, <1>4, <1>5, <1>6

(* The pids: one that is new is used by one document only. *)
LEMMA PidsKept ==
  ASSUME PidsOk, pids' = pids, \A d \in AdminDoc : \A p : Uses(d, p)' => Uses(d, p) \/ p = 0
  PROVE  PidsOk'
<1>1. \A d \in AdminDoc : \A p : Uses(d, p)' => p <= pids'
  BY DEF PidsOk
<1> QED BY <1>1 DEF PidsOk

(* A pid that was never given is used nowhere.                                *)
LEMMA NewPid ==
  ASSUME PidsOk, pids' = pids + 1, NEW e \in AdminDoc,
         \A d \in AdminDoc : \A p : Uses(d, p)' => p \in Nat /\ (Uses(d, p) \/ (d = e /\ p = pids + 1))
  PROVE  PidsOk'
<1>1. pids \in Nat /\ \A d \in AdminDoc : \A p : Uses(d, p) => p <= pids
  BY DEF PidsOk
<1>2. \A d \in AdminDoc : \A p : Uses(d, p)' => p <= pids'
  BY <1>1
<1>3. ASSUME NEW d \in AdminDoc, NEW f \in AdminDoc, NEW p, p # 0, Uses(d, p)', Uses(f, p)' PROVE d = f
  <2>1. CASE p = pids + 1
    BY <1>1, <1>3, <2>1
  <2>2. CASE p # pids + 1
    BY <1>3, <2>2 DEF PidsOk
  <2> QED BY <2>1, <2>2
<1> QED BY <1>1, <1>2, <1>3 DEF PidsOk

(* A session joins a broker, which says so to Admin.                          *)
LEMMA AdminAddSessionKeeps ==
  ASSUME AdminInv, ~LateDestroy, NEW d \in AdminDoc, NEW s \in AdminSession, Admin!AddSession(d, s)
  PROVE  AdminInv'
<1> DEFINE b == brokers[d]
           p == IF b.pid = 0 THEN pids + 1 ELSE b.pid
           m == [call |-> "addDoc", doc |-> d, pid |-> p, session |-> s]
<1>1. /\ callbacks' = Append(callbacks, m)
      /\ brokers' = [brokers EXCEPT ![d] = [b EXCEPT !.pid = p, !.sessions = b.sessions \cup {s}]]
      /\ pids' = IF b.pid = 0 THEN p ELSE pids
      /\ b.pid = 0 => d \notin undead
      /\ UNCHANGED <<undead, documents, consoles>>
  BY DEF Admin!AddSession, Admin!Tell, Admin!modelVars
<1>2. /\ DOMAIN b = BrokerFields /\ b.pid \in Nat /\ pids \in Nat /\ DOMAIN brokers = AdminDoc
      /\ b.pid = 0 => b.sessions = {}
  BY DEF AdminInv, BrokersOk, PidsOk
<1>3. p \in Nat /\ p # 0 /\ (b.pid # 0 => p = b.pid) /\ (b.pid = 0 => p = pids + 1)
  BY <1>2
<1>4. /\ DOMAIN brokers' = AdminDoc /\ \A e \in AdminDoc : e # d => brokers'[e] = brokers[e]
      /\ brokers'[d] = [b EXCEPT !.pid = p, !.sessions = b.sessions \cup {s}]
  <2> HIDE DEF b, p
  <2> QED BY <1>1, <1>2
<1>5. DOMAIN brokers'[d] = BrokerFields /\ brokers'[d].pid = p /\ brokers'[d].sessions = b.sessions \cup {s}
  <2> HIDE DEF b, p
  <2> QED BY <1>2, <1>4 DEF BrokerFields
<1>6. CallOk(m) /\ m.call = "addDoc" /\ m.doc = d /\ m.pid = p /\ m.session = s
  <2> HIDE DEF p
  <2> QED BY <1>3 DEF CallOk, CallKind
<1>7. QueueOk(callbacks') /\ In(callbacks)' = In(callbacks) \cup {m} /\ Leads' /\ Barriers'
  <2> HIDE DEF p, m
  <2>1. \A e \in AdminDoc : \A q, t :
          t \in brokers'[e].sessions /\ q = brokers'[e].pid
            <=> Adds(m, e, q, t) \/ (t \in brokers[e].sessions /\ q = brokers[e].pid /\ ~Drops(m, e, t))
    <3> SUFFICES ASSUME NEW e \in AdminDoc, NEW q, NEW t
                 PROVE  t \in brokers'[e].sessions /\ q = brokers'[e].pid
                          <=> Adds(m, e, q, t) \/ (t \in brokers[e].sessions /\ q = brokers[e].pid /\ ~Drops(m, e, t))
      OBVIOUS
    <3>1. ~Drops(m, e, t) /\ (Adds(m, e, q, t) <=> e = d /\ q = p /\ t = s)
      BY <1>6 DEF Adds, Drops
    <3>2. CASE e = d
      <4>1. t \in b.sessions => b.pid = p
        BY <1>2, <1>3
      <4> QED BY <1>5, <3>1, <3>2, <4>1
    <3>3. CASE e # d
      BY <1>4, <3>1, <3>3
    <3> QED BY <3>2, <3>3
  <2>2. \A e \in AdminDoc : \A q, t :
          t \in brokers[e].sessions /\ q = brokers[e].pid /\ m.doc = e =>
            (m.call = "addDoc" => q = m.pid) /\ m.call # "rmDoc"
    BY <1>2, <1>3, <1>6
  <2> QED BY <1>1, <1>6, <2>1, <2>2, TellKeeps
<1> HIDE DEF m, p, b
<1>8. BrokersOk'
  <2> SUFFICES ASSUME NEW e \in AdminDoc
               PROVE  /\ DOMAIN brokers'[e] = BrokerFields /\ brokers'[e].pid \in Nat
                      /\ brokers'[e].pid = 0 => brokers'[e].sessions = {}
                      /\ e \in undead => brokers'[e].pid = 0
    BY <1>1, <1>4 DEF BrokersOk
  <2>1. d \in undead => b.pid = 0
    BY DEF AdminInv, BrokersOk, b
  <2>2. CASE e = d
    BY <1>1, <1>3, <1>5, <2>1, <2>2
  <2>3. CASE e # d
    BY <1>4, <2>3 DEF AdminInv, BrokersOk
  <2> QED BY <2>2, <2>3
<1>9. PidsOk'
  <2>1. \A e \in AdminDoc : \A q : Uses(e, q)' => Uses(e, q) \/ (e = d /\ q = p)
    BY <1>1, <1>4, <1>5, <1>6, <1>7 DEF Uses
  <2>2. CASE b.pid = 0
    <3>1. \A e \in AdminDoc : \A q : Uses(e, q) => q \in Nat
      BY DEF Uses, AdminInv, ModelOk, BrokersOk, QueueOk, CallOk
    <3> QED BY <1>1, <1>3, <2>1, <2>2, <3>1, NewPid DEF AdminInv
  <2>3. CASE b.pid # 0
    <3>1. Uses(d, p)
      BY <1>3, <2>3 DEF Uses, b
    <3> QED BY <1>1, <2>1, <2>3, <3>1, PidsKept DEF AdminInv
  <2> QED BY <2>2, <2>3
<1>10. ModelOk' /\ ConsolesOk'
  BY <1>1 DEF AdminInv, ModelOk, ConsolesOk, ViewsShown
<1> QED BY <1>7, <1>8, <1>9, <1>10 DEF AdminInv

(* What a broker tells that is not of its sessions. *)
LEMMA SideTellKeeps ==
  ASSUME AdminInv, NEW m, CallOk(m), m.call \notin {"addDoc", "rmView"},
         callbacks' = Append(callbacks, m), UNCHANGED <<undead, pids, documents>>,
         DOMAIN brokers' = AdminDoc,
         \A d \in AdminDoc : /\ DOMAIN brokers'[d] = BrokerFields
                             /\ brokers'[d].pid = brokers[d].pid /\ brokers'[d].sessions = brokers[d].sessions,
         m.call = "rmDoc" => brokers[m.doc].pid = 0,
         ConsolesOk'
  PROVE  AdminInv'
<1>1. QueueOk(callbacks') /\ In(callbacks)' = In(callbacks) \cup {m} /\ Leads' /\ Barriers'
  <2>1. \A e, q, t : ~Adds(m, e, q, t) /\ ~Drops(m, e, t)
    BY DEF Adds, Drops
  <2>2. \A e \in AdminDoc : \A q, t :
          t \in brokers[e].sessions /\ q = brokers[e].pid /\ m.doc = e =>
            (m.call = "addDoc" => q = m.pid) /\ m.call # "rmDoc"
    BY DEF AdminInv, BrokersOk
  <2> QED BY <2>1, <2>2, TellKeeps
<1>2. BrokersOk' /\ ModelOk'
  BY DEF AdminInv, BrokersOk, ModelOk
<1>3. \A d \in AdminDoc : \A p : Uses(d, p)' => Uses(d, p)
  BY <1>1 DEF Uses
<1> QED BY <1>1, <1>2, <1>3, PidsKept DEF AdminInv

(* A session leaves; the last one takes the broker with it.                   *)
LEMMA DisconnectSessionKeeps ==
  ASSUME AdminInv, NEW d \in AdminDoc, NEW s \in AdminSession, Admin!DisconnectSession(d, s)
  PROVE  AdminInv'
<1> DEFINE b == brokers[d]
           m == [call |-> "rmView", doc |-> d, session |-> s]
<1>1. /\ callbacks' = Append(callbacks, m)
      /\ brokers' = [brokers EXCEPT ![d] = [b EXCEPT !.sessions = b.sessions \ {s}]]
      /\ UNCHANGED <<undead, pids, documents, consoles>>
  BY DEF Admin!DisconnectSession, Admin!Tell, Admin!modelVars
<1>2. /\ DOMAIN b = BrokerFields /\ b.pid \in Nat /\ DOMAIN brokers = AdminDoc
      /\ b.pid = 0 => b.sessions = {}
  BY DEF AdminInv, BrokersOk
<1>4. /\ DOMAIN brokers' = AdminDoc /\ \A e \in AdminDoc : e # d => brokers'[e] = brokers[e]
      /\ brokers'[d] = [b EXCEPT !.sessions = b.sessions \ {s}]
  <2> HIDE DEF b
  <2> QED BY <1>1, <1>2
<1>5. DOMAIN brokers'[d] = BrokerFields /\ brokers'[d].pid = b.pid /\ brokers'[d].sessions = b.sessions \ {s}
  <2> HIDE DEF b
  <2> QED BY <1>2, <1>4 DEF BrokerFields
<1>6. CallOk(m) /\ m.call = "rmView" /\ m.doc = d /\ m.session = s
  BY DEF CallOk, CallKind
<1>7. QueueOk(callbacks') /\ In(callbacks)' = In(callbacks) \cup {m} /\ Leads' /\ Barriers'
  <2> HIDE DEF m
  <2>1. \A e \in AdminDoc : \A q, t :
          t \in brokers'[e].sessions /\ q = brokers'[e].pid
            <=> Adds(m, e, q, t) \/ (t \in brokers[e].sessions /\ q = brokers[e].pid /\ ~Drops(m, e, t))
    BY <1>4, <1>5, <1>6 DEF Adds, Drops
  <2>2. m.call # "addDoc" /\ m.call # "rmDoc"
    BY <1>6
  <2> QED BY <1>1, <1>6, <2>1, <2>2, TellKeeps
<1> HIDE DEF m
<1>8. BrokersOk'
  BY <1>1, <1>2, <1>4, <1>5 DEF AdminInv, BrokersOk
<1>9. PidsOk'
  <2>1. \A e \in AdminDoc : \A q : Uses(e, q)' => Uses(e, q)
    BY <1>1, <1>4, <1>5, <1>6, <1>7 DEF Uses
  <2> QED BY <1>1, <2>1, PidsKept DEF AdminInv
<1>10. ModelOk' /\ ConsolesOk'
  BY <1>1 DEF AdminInv, ModelOk, ConsolesOk, ViewsShown
<1> QED BY <1>7, <1>8, <1>9, <1>10 DEF AdminInv

(* A step of a broker that tells nothing of its sessions. *)
LEMMA BrokerKeeps ==
  ASSUME AdminInv, NEW d \in AdminDoc,
         \/ Admin!BrokerEnds(d) \/ Admin!DestroyBroker(d) \/ Admin!NotifyActivity(d) \/ Admin!UpdateBandwidth(d)
         \/ \E v \in BOOLEAN : Admin!SetModified(d, v)
  PROVE  AdminInv'
<1>0. /\ DOMAIN brokers = AdminDoc
      /\ \A e \in AdminDoc : /\ DOMAIN brokers[e] = BrokerFields /\ brokers[e].pid \in Nat
                             /\ (brokers[e].pid = 0 => brokers[e].sessions = {})
                             /\ (e \in undead => brokers[e].pid = 0)
  BY DEF AdminInv, BrokersOk
<1>1. CASE Admin!BrokerEnds(d)
  <2>1. /\ brokers' = [brokers EXCEPT ![d] = Admin!NoBroker] /\ undead' = undead \cup {d}
        /\ brokers[d].sessions = {} /\ UNCHANGED <<pids, callbacks, documents, consoles>>
    BY <1>1 DEF Admin!BrokerEnds, Admin!modelVars
  <2>2. Admin!NoBroker.pid = 0 /\ Admin!NoBroker.sessions = {} /\ DOMAIN Admin!NoBroker = BrokerFields
    BY DEF Admin!NoBroker, BrokerFields
  <2>3. /\ DOMAIN brokers' = AdminDoc /\ brokers'[d] = Admin!NoBroker
        /\ \A e \in AdminDoc : e # d => brokers'[e] = brokers[e]
    BY <1>0, <2>1
  <2>4. QueueOk(callbacks') /\ In(callbacks)' = In(callbacks) /\ Leads' /\ Barriers'
    BY <2>1, <2>2, <2>3, QuietKeeps
  <2>5. BrokersOk'
    BY <1>0, <2>1, <2>2, <2>3 DEF BrokersOk
  <2>6. \A e \in AdminDoc : \A q : Uses(e, q)' => Uses(e, q) \/ q = 0
    BY <2>1, <2>2, <2>3, <2>4 DEF Uses
  <2> QED BY <2>1, <2>4, <2>5, <2>6, PidsKept DEF AdminInv, ModelOk, ConsolesOk, ViewsShown
<1>2. CASE Admin!DestroyBroker(d)
  <2> DEFINE m == [call |-> "rmDoc", doc |-> d]
  <2>1. d \in undead /\ undead' = undead \ {d} /\ callbacks' = Append(callbacks, m)
        /\ UNCHANGED <<brokers, pids, documents, consoles>>
    BY <1>2 DEF Admin!DestroyBroker, Admin!Tell, Admin!modelVars
  <2>2. CallOk(m) /\ m.call = "rmDoc" /\ m.doc = d
    BY DEF CallOk, CallKind
  <2> HIDE DEF m
  <2>3. QueueOk(callbacks') /\ In(callbacks)' = In(callbacks) \cup {m} /\ Leads' /\ Barriers'
    <3>1. \A e, q, t : ~Adds(m, e, q, t) /\ ~Drops(m, e, t)
      BY <2>2 DEF Adds, Drops
    <3>2. \A e \in AdminDoc : \A q, t :
            t \in brokers[e].sessions /\ q = brokers[e].pid /\ m.doc = e =>
              (m.call = "addDoc" => q = m.pid) /\ m.call # "rmDoc"
      BY <1>0, <2>1, <2>2
    <3> QED BY <2>1, <2>2, <3>1, <3>2, TellKeeps
  <2>4. BrokersOk'
    BY <1>0, <2>1 DEF BrokersOk
  <2>5. \A e \in AdminDoc : \A q : Uses(e, q)' => Uses(e, q)
    BY <2>1, <2>2, <2>3 DEF Uses
  <2> QED BY <2>1, <2>3, <2>4, <2>5, PidsKept DEF AdminInv, ModelOk, ConsolesOk, ViewsShown
<1>3. CASE Admin!NotifyActivity(d)
  <2> DEFINE m == [call |-> "activity", doc |-> d]
  <2>1. callbacks' = Append(callbacks, m) /\ UNCHANGED <<undead, brokers, pids, documents, consoles>>
    BY <1>3 DEF Admin!NotifyActivity, Admin!Tell, Admin!brokerVars, Admin!modelVars
  <2>2. CallOk(m) /\ m.call = "activity"
    BY DEF CallOk, CallKind
  <2> HIDE DEF m
  <2>3. ConsolesOk'
    BY <2>1 DEF AdminInv, ConsolesOk, ViewsShown
  <2> QED BY <1>0, <2>1, <2>2, <2>3, SideTellKeeps
<1>4. CASE Admin!UpdateBandwidth(d)
  <2> DEFINE delta == Admin!DeltaRecv(Admin!GetIOStats(d), brokers[d].recv)
             m == [call |-> "addBytes", doc |-> d, recv |-> delta]
             r == IF Admin!GetIOStats(d) > 0 THEN Admin!GetIOStats(d) ELSE brokers[d].recv
  <2>1. /\ callbacks' = Append(callbacks, m) /\ UNCHANGED <<undead, pids, documents, consoles>>
        /\ brokers' = [brokers EXCEPT ![d] = [brokers[d] EXCEPT !.recv = r]]
    BY <1>4 DEF Admin!UpdateBandwidth, Admin!Tell, Admin!modelVars
  <2>2. CallOk(m) /\ m.call = "addBytes"
    <3> HIDE DEF delta
    <3> QED BY DEF CallOk, CallKind
  <2> HIDE DEF m, r
  <2>3. ConsolesOk'
    BY <2>1 DEF AdminInv, ConsolesOk, ViewsShown
  <2>4. DOMAIN brokers' = AdminDoc
    BY <1>0, <2>1
  <2>5. ASSUME NEW e \in AdminDoc
        PROVE  /\ DOMAIN brokers'[e] = BrokerFields
               /\ brokers'[e].pid = brokers[e].pid /\ brokers'[e].sessions = brokers[e].sessions
    BY <1>0, <2>1 DEF BrokerFields
  <2> QED BY <2>1, <2>2, <2>3, <2>4, <2>5, SideTellKeeps
<1>5. ASSUME NEW v \in BOOLEAN, Admin!SetModified(d, v) PROVE AdminInv'
  <2> DEFINE m == [call |-> "modified", doc |-> d, pid |-> brokers[d].pid, value |-> v]
  <2>1. /\ callbacks' = Append(callbacks, m) /\ UNCHANGED <<undead, pids, documents, consoles>>
        /\ brokers' = [brokers EXCEPT ![d] = [brokers[d] EXCEPT !.modified = v]]
    BY <1>5 DEF Admin!SetModified, Admin!Tell, Admin!modelVars
  <2>2. CallOk(m) /\ m.call = "modified"
    BY DEF CallOk, CallKind
  <2> HIDE DEF m
  <2>3. ConsolesOk'
    BY <2>1 DEF AdminInv, ConsolesOk, ViewsShown
  <2>4. DOMAIN brokers' = AdminDoc
    BY <1>0, <2>1
  <2>5. ASSUME NEW e \in AdminDoc
        PROVE  /\ DOMAIN brokers'[e] = BrokerFields
               /\ brokers'[e].pid = brokers[e].pid /\ brokers'[e].sessions = brokers[e].sessions
    BY <1>0, <2>1 DEF BrokerFields
  <2> QED BY <2>1, <2>2, <2>3, <2>4, <2>5, SideTellKeeps
<1> QED BY <1>1, <1>2, <1>3, <1>4, <1>5

(* What the model shows of a document when the first call is about it. *)
LEMMA HeadBarrier ==
  ASSUME AdminInv, callbacks # <<>>, NEW d \in AdminDoc, Head(callbacks).doc = d
  PROVE  /\ Head(callbacks).call = "addDoc" => documents[d].pid = 0 \/ documents[d].pid = Head(callbacks).pid
         /\ Head(callbacks).call = "rmDoc" => documents[d] = Admin!NoDocument
<1>1. 1 \in 1 .. Len(callbacks) /\ callbacks[1] = Head(callbacks)
  BY DEF AdminInv, QueueOk
<1>2. ASSUME NEW s \in documents[d].views PROVE Shown(callbacks, documents, d, documents[d].pid, s, 1)
  BY DEF Shown, KeptTo
<1>3. CASE documents[d].views = {}
  BY <1>3 DEF AdminInv, ModelOk
<1>4. ASSUME NEW s \in documents[d].views
      PROVE  (Head(callbacks).call = "addDoc" => documents[d].pid = Head(callbacks).pid) /\ Head(callbacks).call # "rmDoc"
  BY <1>1, <1>2 DEF AdminInv, Barriers
<1> QED BY <1>3, <1>4

(* A document is there exactly when a view is. *)
LEMMA DocumentFacts ==
  ASSUME AdminInv, NEW d \in AdminDoc
  PROVE  /\ documents[d].views = {} <=> documents[d].pid = 0
         /\ documents[d] = Admin!NoDocument <=> documents[d].pid = 0
         /\ DOMAIN documents = AdminDoc /\ DOMAIN documents[d] = DocumentFields /\ documents[d].pid \in Nat
<1>1. Admin!NoDocument.pid = 0 /\ Admin!NoDocument.views = {}
  BY DEF Admin!NoDocument
<1> QED BY <1>1 DEF AdminInv, ModelOk

(* A call that changes no view. *)
LEMMA TakeQuiet ==
  ASSUME AdminInv, callbacks # <<>>, callbacks' = Tail(callbacks),
         Head(callbacks).call \notin {"addDoc", "rmView"},
         UNCHANGED <<brokers, undead, pids>>, ModelOk', ConsolesOk',
         \A d \in AdminDoc : documents'[d].views = documents[d].views /\ documents'[d].pid = documents[d].pid
  PROVE  AdminInv'
<1>1. QueueOk(callbacks') /\ In(callbacks)' \subseteq In(callbacks) /\ Leads' /\ Barriers'
  <2>1. \A d, p, s : ~Adds(Head(callbacks), d, p, s) /\ ~Drops(Head(callbacks), d, s)
    BY DEF Adds, Drops
  <2> QED BY <2>1, TakeKeeps
<1>2. BrokersOk'
  BY DEF AdminInv, BrokersOk
<1>3. \A d \in AdminDoc : \A p : Uses(d, p)' => Uses(d, p)
  BY <1>1 DEF Uses
<1> QED BY <1>1, <1>2, <1>3, PidsKept DEF AdminInv

(* Admin runs addDoc.                                                         *)
LEMMA AddDocumentKeeps ==
  ASSUME AdminInv, callbacks # <<>>, callbacks' = Tail(callbacks), UNCHANGED <<brokers, undead, pids>>,
         Head(callbacks).call = "addDoc", Admin!AddDocument(Head(callbacks))
  PROVE  AdminInv'
<1> DEFINE h == Head(callbacks)
           d == h.doc
           s == h.session
           old == documents[d]
           entry == IF old = Admin!NoDocument THEN [Admin!NoDocument EXCEPT !.pid = h.pid] ELSE old
           new == [entry EXCEPT !.views = entry.views \cup {s}]
<1>1. CallOk(h) /\ h \in In(callbacks)
  BY CallTaken DEF AdminInv
<1>2. d \in AdminDoc /\ s \in AdminSession /\ h.pid \in Nat /\ h.pid # 0 /\ h.call = "addDoc"
  BY <1>1 DEF CallOk
<1>3. documents' = [documents EXCEPT ![d] = new] /\ Admin!Notify({<<h.pid, s>>}, {})
  BY DEF Admin!AddDocument
<1>4. /\ DOMAIN documents = AdminDoc /\ DOMAIN old = DocumentFields
      /\ old = Admin!NoDocument <=> old.pid = 0
      /\ old.views = {} <=> old.pid = 0
      /\ old.pid = 0 \/ old.pid = h.pid
  BY <1>2, DocumentFacts, HeadBarrier
<1>5. DOMAIN entry = DocumentFields /\ entry.pid = h.pid /\ entry.views = old.views
  <2>1. /\ DOMAIN Admin!NoDocument = DocumentFields /\ Admin!NoDocument.views = {}
        /\ DOMAIN [Admin!NoDocument EXCEPT !.pid = h.pid] = DocumentFields
        /\ [Admin!NoDocument EXCEPT !.pid = h.pid].pid = h.pid
        /\ [Admin!NoDocument EXCEPT !.pid = h.pid].views = {}
    BY DEF Admin!NoDocument, DocumentFields
  <2>2. CASE old.pid = 0
    BY <1>4, <2>1, <2>2
  <2>3. CASE old.pid # 0
    BY <1>4, <2>3
  <2> QED BY <2>2, <2>3
<1>6. DOMAIN new = DocumentFields /\ new.pid = h.pid /\ new.views = old.views \cup {s}
  <2> HIDE DEF entry, old
  <2> QED BY <1>5 DEF DocumentFields
<1>7. /\ DOMAIN documents' = AdminDoc /\ documents'[d] = new
      /\ \A e \in AdminDoc : e # d => documents'[e] = documents[e]
  <2> HIDE DEF new, d
  <2> QED BY <1>2, <1>3, <1>4
<1>8. QueueOk(callbacks') /\ In(callbacks)' \subseteq In(callbacks) /\ Leads' /\ Barriers'
  <2>1. \A e \in AdminDoc : \A p, t :
         t \in documents'[e].views /\ documents'[e].pid = p
           <=> Adds(h, e, p, t) \/ (t \in documents[e].views /\ documents[e].pid = p /\ ~Drops(h, e, t))
    <3> SUFFICES ASSUME NEW e \in AdminDoc, NEW p, NEW t
                 PROVE  t \in documents'[e].views /\ documents'[e].pid = p
                          <=> Adds(h, e, p, t) \/ (t \in documents[e].views /\ documents[e].pid = p /\ ~Drops(h, e, t))
      OBVIOUS
    <3>1. ~Drops(h, e, t) /\ (Adds(h, e, p, t) <=> e = d /\ p = h.pid /\ t = s)
      BY <1>2 DEF Adds, Drops
    <3> HIDE DEF new, h, d, s
    <3>2. CASE e = d
      BY <1>4, <1>6, <1>7, <3>1, <3>2
    <3>3. CASE e # d
      BY <1>7, <3>1, <3>3
    <3> QED BY <3>2, <3>3
  <2> QED BY <2>1, TakeKeeps
<1> HIDE DEF new, old, d, s
<1>9. ModelOk'
  BY <1>2, <1>6, <1>7 DEF AdminInv, ModelOk
<1>10. BrokersOk'
  BY DEF AdminInv, BrokersOk
<1>11. PidsOk'
  <2>1. \A e \in AdminDoc : \A p : Uses(e, p)' => Uses(e, p)
    BY <1>1, <1>2, <1>6, <1>7, <1>8 DEF Uses, d
  <2> QED BY <2>1, PidsKept DEF AdminInv
<1>12. ConsolesOk'
  <2>1. ViewsShown(documents') = (ViewsShown(documents) \cup {<<h.pid, s>>}) \ {}
    <3>1. ASSUME NEW x \in ViewsShown(documents') PROVE x \in ViewsShown(documents) \cup {<<h.pid, s>>}
      <4>1. PICK e \in AdminDoc : x \in {documents'[e].pid} \X documents'[e].views
        BY DEF ViewsShown
      <4>2. CASE e = d
        <5>1. PICK t \in old.views \cup {s} : x = <<h.pid, t>>
          BY <1>6, <1>7, <4>1, <4>2
        <5>2. t # s => old.pid = h.pid
          BY <1>4, <5>1
        <5>3. t # s => x \in {documents[d].pid} \X documents[d].views
          BY <5>1, <5>2 DEF old
        <5> QED BY <1>2, <5>1, <5>3 DEF ViewsShown
      <4>3. CASE e # d
        BY <1>7, <4>1, <4>3 DEF ViewsShown
      <4> QED BY <4>2, <4>3
    <3>2. ASSUME NEW x \in ViewsShown(documents) PROVE x \in ViewsShown(documents')
      <4>1. PICK e \in AdminDoc : x \in {documents[e].pid} \X documents[e].views
        BY DEF ViewsShown
      <4>2. CASE e = d
        <5>1. x \in {h.pid} \X (old.views \cup {s})
          BY <1>4, <4>1, <4>2 DEF old
        <5> QED BY <1>2, <1>6, <1>7, <5>1 DEF ViewsShown
      <4>3. CASE e # d
        BY <1>7, <4>1, <4>3 DEF ViewsShown
      <4> QED BY <4>2, <4>3
    <3>3. <<h.pid, s>> \in ViewsShown(documents')
      BY <1>2, <1>6, <1>7 DEF ViewsShown
    <3> QED BY <3>1, <3>2, <3>3
  <2> QED BY <1>3, <2>1, NotifyKeeps DEF AdminInv
<1> QED BY <1>8, <1>9, <1>10, <1>11, <1>12 DEF AdminInv

(* Admin runs rmView: the last view takes the document.                       *)
LEMMA RemoveViewKeeps ==
  ASSUME AdminInv, callbacks # <<>>, callbacks' = Tail(callbacks), UNCHANGED <<brokers, undead, pids>>,
         Head(callbacks).call = "rmView", Admin!RemoveView(Head(callbacks))
  PROVE  AdminInv'
<1> DEFINE h == Head(callbacks)
           d == h.doc
           s == h.session
           old == documents[d]
           left == Admin!ExpireView(old, s)
           new == IF left.views = {} THEN Admin!NoDocument ELSE left
<1>1. CallOk(h) /\ h \in In(callbacks)
  BY CallTaken DEF AdminInv
<1>2. d \in AdminDoc /\ s \in AdminSession /\ h.call = "rmView"
  BY <1>1 DEF CallOk
<1>3. /\ DOMAIN documents = AdminDoc /\ DOMAIN old = DocumentFields /\ old.pid \in Nat
      /\ old = Admin!NoDocument <=> old.pid = 0
      /\ old.views = {} <=> old.pid = 0
  BY <1>2, DocumentFacts
<1>4. DOMAIN left = DocumentFields /\ left.pid = old.pid /\ left.views = old.views \ {s}
  <2> HIDE DEF old
  <2> QED BY <1>3 DEF Admin!ExpireView, DocumentFields
<1>5. /\ DOMAIN Admin!NoDocument = DocumentFields /\ Admin!NoDocument.views = {} /\ Admin!NoDocument.pid = 0
  BY DEF Admin!NoDocument, DocumentFields
<1>6. /\ DOMAIN new = DocumentFields /\ new.views = old.views \ {s}
      /\ new.views # {} => new.pid = old.pid
      /\ new.views = {} => new = Admin!NoDocument
  BY <1>4, <1>5
<1>7. CASE old.pid = 0
  <2>1. UNCHANGED <<documents, consoles>>
    BY <1>3, <1>7 DEF Admin!RemoveView
  <2>2. QueueOk(callbacks') /\ In(callbacks)' \subseteq In(callbacks) /\ Leads' /\ Barriers'
    <3>1. \A e \in AdminDoc : \A p, t :
           t \in documents'[e].views /\ documents'[e].pid = p
             <=> Adds(h, e, p, t) \/ (t \in documents[e].views /\ documents[e].pid = p /\ ~Drops(h, e, t))
      BY <1>2, <1>3, <1>7, <2>1 DEF Adds, Drops
    <3> QED BY <3>1, TakeKeeps
  <2>3. \A e \in AdminDoc : \A p : Uses(e, p)' => Uses(e, p)
    BY <2>1, <2>2 DEF Uses
  <2> QED BY <2>1, <2>2, <2>3, PidsKept DEF AdminInv, ModelOk, BrokersOk, ConsolesOk, ViewsShown
<1>8. CASE old.pid # 0
  <2>1. documents' = [documents EXCEPT ![d] = new] /\ Admin!Notify({}, {<<old.pid, s>>})
    BY <1>3, <1>8 DEF Admin!RemoveView, Admin!DoRemove
  <2>2. /\ DOMAIN documents' = AdminDoc /\ documents'[d] = new
        /\ \A e \in AdminDoc : e # d => documents'[e] = documents[e]
    <3> HIDE DEF new, d
    <3> QED BY <1>2, <1>3, <2>1
  <2> HIDE DEF new, left
  <2>3. QueueOk(callbacks') /\ In(callbacks)' \subseteq In(callbacks) /\ Leads' /\ Barriers'
    <3>1. \A e \in AdminDoc : \A p, t :
           t \in documents'[e].views /\ documents'[e].pid = p
             <=> Adds(h, e, p, t) \/ (t \in documents[e].views /\ documents[e].pid = p /\ ~Drops(h, e, t))
      <4> SUFFICES ASSUME NEW e \in AdminDoc, NEW p, NEW t
                   PROVE  t \in documents'[e].views /\ documents'[e].pid = p
                            <=> Adds(h, e, p, t) \/ (t \in documents[e].views /\ documents[e].pid = p /\ ~Drops(h, e, t))
        OBVIOUS
      <4>1. ~Adds(h, e, p, t) /\ (Drops(h, e, t) <=> e = d /\ t = s)
        BY <1>2 DEF Adds, Drops
      <4> HIDE DEF h, d, s
      <4>2. CASE e = d
        BY <1>6, <2>2, <4>1, <4>2
      <4>3. CASE e # d
        BY <2>2, <4>1, <4>3
      <4> QED BY <4>2, <4>3
    <3> QED BY <3>1, TakeKeeps
  <2> HIDE DEF old, d, s
  <2>4. ModelOk'
    <3> SUFFICES ASSUME NEW e \in AdminDoc
                 PROVE  /\ DOMAIN documents'[e] = DocumentFields /\ documents'[e].pid \in Nat
                        /\ documents'[e].pid = 0 => documents'[e] = Admin!NoDocument
                        /\ documents'[e].pid # 0 => documents'[e].views # {}
      BY <2>2 DEF ModelOk
    <3>1. CASE e = d
      BY <1>3, <1>5, <1>6, <1>8, <2>2, <3>1
    <3>2. CASE e # d
      BY <2>2, <3>2 DEF AdminInv, ModelOk
    <3> QED BY <3>1, <3>2
  <2>5. BrokersOk'
    BY DEF AdminInv, BrokersOk
  <2>6. PidsOk'
    <3>1. \A e \in AdminDoc : \A p : Uses(e, p)' => Uses(e, p) \/ p = 0
      BY <1>2, <1>5, <1>6, <2>2, <2>3 DEF Uses, old
    <3> QED BY <3>1, PidsKept DEF AdminInv
  <2>7. ConsolesOk'
    <3>1. ViewsShown(documents') = (ViewsShown(documents) \cup {}) \ {<<old.pid, s>>}
      <4>1. ASSUME NEW x \in ViewsShown(documents') PROVE x \in ViewsShown(documents) /\ x # <<old.pid, s>>
        <5>1. PICK e \in AdminDoc : x \in {documents'[e].pid} \X documents'[e].views
          BY DEF ViewsShown
        <5>2. CASE e = d
          <6>1. new.views # {} /\ x \in {old.pid} \X (old.views \ {s})
            BY <1>6, <2>2, <5>1, <5>2
          <6>2. x \in {documents[d].pid} \X documents[d].views
            BY <6>1 DEF old
          <6> QED BY <1>2, <6>1, <6>2 DEF ViewsShown
        <5>3. CASE e # d
          <6>1. x \in {documents[e].pid} \X documents[e].views
            BY <2>2, <5>1, <5>3
          <6>2. documents[e].pid # old.pid
            <7>1. Uses(e, documents[e].pid) /\ Uses(d, old.pid)
              BY DEF Uses, old
            <7> QED BY <1>2, <1>8, <5>3, <7>1 DEF AdminInv, PidsOk
          <6> QED BY <6>1, <6>2 DEF ViewsShown
        <5> QED BY <5>2, <5>3
      <4>2. ASSUME NEW x \in ViewsShown(documents), x # <<old.pid, s>> PROVE x \in ViewsShown(documents')
        <5>1. PICK e \in AdminDoc : x \in {documents[e].pid} \X documents[e].views
          BY DEF ViewsShown
        <5>2. CASE e = d
          <6>1. x \in {old.pid} \X (old.views \ {s})
            BY <4>2, <5>1, <5>2 DEF old
          <6>2. new.views # {}
            BY <1>6, <6>1
          <6>3. x \in {documents'[d].pid} \X documents'[d].views
            BY <1>6, <2>2, <6>1, <6>2
          <6> QED BY <1>2, <6>3 DEF ViewsShown
        <5>3. CASE e # d
          BY <2>2, <5>1, <5>3 DEF ViewsShown
        <5> QED BY <5>2, <5>3
      <4> QED BY <4>1, <4>2
    <3> QED BY <2>1, <3>1, NotifyKeeps DEF AdminInv
  <2> QED BY <2>3, <2>4, <2>5, <2>6, <2>7 DEF AdminInv
<1> QED BY <1>7, <1>8

(* Views that stay: what is shown stays. *)
LEMMA SameViews ==
  ASSUME \A d \in AdminDoc : documents'[d].views = documents[d].views /\ documents'[d].pid = documents[d].pid
  PROVE  ViewsShown(documents') = ViewsShown(documents)
BY DEF ViewsShown

(* One document is changed, and not its views. *)
LEMMA DocumentTouched ==
  ASSUME AdminInv, NEW d \in AdminDoc, NEW x, documents[d].pid # 0,
         DOMAIN x = DocumentFields, x.views = documents[d].views, x.pid = documents[d].pid,
         documents' = [documents EXCEPT ![d] = x]
  PROVE  /\ ModelOk'
         /\ \A e \in AdminDoc : documents'[e].views = documents[e].views /\ documents'[e].pid = documents[e].pid
<1>1. /\ DOMAIN documents' = AdminDoc /\ documents'[d] = x
      /\ \A e \in AdminDoc : e # d => documents'[e] = documents[e]
  BY DEF AdminInv, ModelOk
<1>2. ASSUME NEW e \in AdminDoc
      PROVE  /\ DOMAIN documents'[e] = DocumentFields /\ documents'[e].pid \in Nat
             /\ documents'[e].pid = 0 => documents'[e] = Admin!NoDocument
             /\ documents'[e].pid # 0 => documents'[e].views # {}
             /\ documents'[e].views = documents[e].views /\ documents'[e].pid = documents[e].pid
  <2>1. CASE e = d
    BY <1>1, <2>1 DEF AdminInv, ModelOk
  <2>2. CASE e # d
    BY <1>1, <2>2 DEF AdminInv, ModelOk
  <2> QED BY <2>1, <2>2
<1> QED BY <1>1, <1>2 DEF ModelOk

(* Admin runs the first call of its queue.                                    *)
LEMMA RunCallbackKeeps ==
  ASSUME AdminInv, Admin!RunCallback PROVE AdminInv'
<1> DEFINE h == Head(callbacks)
<1>1. /\ callbacks # <<>> /\ callbacks' = Tail(callbacks) /\ UNCHANGED <<brokers, undead, pids>>
  BY DEF Admin!RunCallback, Admin!brokerVars
<1>2. CallOk(h)
  BY <1>1, CallTaken DEF AdminInv
<1>3. CASE h.call = "addDoc"
  BY <1>1, <1>3, AddDocumentKeeps DEF Admin!RunCallback
<1>4. CASE h.call = "rmView"
  BY <1>1, <1>4, RemoveViewKeeps DEF Admin!RunCallback
<1>5. CASE h.call = "rmDoc"
  <2>1. h.doc \in AdminDoc /\ Admin!RemoveDocument(h)
    BY <1>2, <1>5 DEF Admin!RunCallback, CallOk
  <2>2. UNCHANGED <<documents, consoles>>
    BY <1>1, <1>5, <2>1, HeadBarrier DEF Admin!RemoveDocument
  <2>3. ModelOk' /\ ConsolesOk'
    BY <2>2 DEF AdminInv, ModelOk, ConsolesOk, ViewsShown
  <2> QED BY <1>1, <1>5, <2>2, <2>3, TakeQuiet
<1>6. CASE h.call = "modified"
  <2>1. h.doc \in AdminDoc /\ Admin!ModificationAlert(h)
    BY <1>2, <1>6 DEF Admin!RunCallback, CallOk
  <2>2. CASE documents[h.doc].pid = 0
    <3>1. documents' = documents /\ Admin!Notify({}, {})
      BY <2>1, <2>2, DocumentFacts DEF Admin!ModificationAlert
    <3>2. ModelOk'
      BY <3>1 DEF AdminInv, ModelOk
    <3>3. ConsolesOk'
      BY <3>1, NotifyKeeps DEF AdminInv
    <3> QED BY <1>1, <1>6, <3>1, <3>2, <3>3, TakeQuiet
  <2>3. CASE documents[h.doc].pid # 0
    <3> DEFINE x == [documents[h.doc] EXCEPT !.modified = h.value]
    <3>1. documents' = [documents EXCEPT ![h.doc] = x] /\ Admin!Notify({}, {})
      BY <2>1, <2>3, DocumentFacts DEF Admin!ModificationAlert
    <3>2. DOMAIN x = DocumentFields /\ x.views = documents[h.doc].views /\ x.pid = documents[h.doc].pid
      BY <2>1, DocumentFacts DEF DocumentFields
    <3> HIDE DEF x
    <3>3. /\ ModelOk'
          /\ \A e \in AdminDoc : documents'[e].views = documents[e].views /\ documents'[e].pid = documents[e].pid
      BY <2>1, <2>3, <3>1, <3>2, DocumentTouched
    <3>4. ConsolesOk'
      BY <3>1, <3>3, SameViews, NotifyKeeps DEF AdminInv
    <3> QED BY <1>1, <1>6, <3>3, <3>4, TakeQuiet
  <2> QED BY <2>2, <2>3
<1>7. CASE h.call = "activity"
  <2>1. h.doc \in AdminDoc /\ Admin!UpdateLastActivityTime(h)
    BY <1>2, <1>7 DEF Admin!RunCallback, CallOk
  <2>2. CASE ~documents[h.doc].idle
    <3>1. UNCHANGED <<documents, consoles>>
      BY <2>1, <2>2 DEF Admin!UpdateLastActivityTime
    <3>2. ModelOk' /\ ConsolesOk'
      BY <3>1 DEF AdminInv, ModelOk, ConsolesOk, ViewsShown
    <3> QED BY <1>1, <1>7, <3>1, <3>2, TakeQuiet
  <2>3. CASE documents[h.doc].idle
    <3> DEFINE x == [documents[h.doc] EXCEPT !.idle = FALSE]
    <3>1. documents' = [documents EXCEPT ![h.doc] = x] /\ Admin!Notify({}, {})
      BY <2>1, <2>3 DEF Admin!UpdateLastActivityTime
    <3>2. DOMAIN x = DocumentFields /\ x.views = documents[h.doc].views /\ x.pid = documents[h.doc].pid
      BY <2>1, DocumentFacts DEF DocumentFields
    <3>3. documents[h.doc].pid # 0
      <4>1. ~Admin!NoDocument.idle
        BY DEF Admin!NoDocument
      <4> QED BY <2>1, <2>3, <4>1, DocumentFacts
    <3> HIDE DEF x
    <3>4. /\ ModelOk'
          /\ \A e \in AdminDoc : documents'[e].views = documents[e].views /\ documents'[e].pid = documents[e].pid
      BY <2>1, <3>1, <3>2, <3>3, DocumentTouched
    <3>5. ConsolesOk'
      BY <3>1, <3>4, SameViews, NotifyKeeps DEF AdminInv
    <3> QED BY <1>1, <1>7, <3>4, <3>5, TakeQuiet
  <2> QED BY <2>2, <2>3
<1>8. CASE h.call = "addBytes"
  <2>1. UNCHANGED <<documents, consoles>>
    BY <1>8 DEF Admin!RunCallback, Admin!AddBytes
  <2>2. ModelOk' /\ ConsolesOk'
    BY <2>1 DEF AdminInv, ModelOk, ConsolesOk, ViewsShown
  <2> QED BY <1>1, <1>8, <2>1, <2>2, TakeQuiet
<1>9. CASE h.call = "subscribe"
  <2> DEFINE c == h.console
  <2>1. c \in Console /\ consoles' = [consoles EXCEPT ![c] = [consoles[c] EXCEPT !.registered = TRUE]] /\ documents' = documents
    BY <1>2, <1>9 DEF Admin!RunCallback, Admin!SubscribeConsole, CallOk
  <2>2. ModelOk'
    BY <2>1 DEF AdminInv, ModelOk
  <2>3. ConsolesOk'
    <3>1. \A k : DOMAIN k = ConsoleFields =>
            LET n == [k EXCEPT !.registered = TRUE]
            IN  DOMAIN n = ConsoleFields /\ n.registered /\ n.open = k.open /\ n.follows = k.follows /\ n.seen = k.seen
      BY DEF ConsoleFields
    <3> HIDE DEF c
    <3> QED BY <2>1, <3>1 DEF AdminInv, ConsolesOk, ViewsShown
  <2> QED BY <1>1, <1>9, <2>1, <2>2, <2>3, TakeQuiet
<1> QED BY <1>2, <1>3, <1>4, <1>5, <1>6, <1>7, <1>8, <1>9 DEF CallOk, CallKind

(* A step that tells nothing and changes no view. *)
LEMMA StillKeeps ==
  ASSUME AdminInv, UNCHANGED <<callbacks, undead, pids>>, ModelOk', ConsolesOk', DOMAIN brokers' = AdminDoc,
         \A d \in AdminDoc : /\ documents'[d].views = documents[d].views /\ documents'[d].pid = documents[d].pid
                             /\ DOMAIN brokers'[d] = BrokerFields
                             /\ brokers'[d].sessions = brokers[d].sessions /\ brokers'[d].pid = brokers[d].pid
  PROVE  AdminInv'
<1>1. QueueOk(callbacks') /\ In(callbacks)' = In(callbacks) /\ Leads' /\ Barriers'
  BY QuietKeeps
<1>2. BrokersOk'
  BY DEF AdminInv, BrokersOk
<1>3. \A d \in AdminDoc : \A p : Uses(d, p)' => Uses(d, p)
  BY <1>1 DEF Uses
<1> QED BY <1>1, <1>2, <1>3, PidsKept DEF AdminInv

(* Documents that are closed stay as they are for the model. *)
LEMMA ClosedKeeps ==
  ASSUME AdminInv, NEW ds, Admin!CloseDocument(ds)
  PROVE  /\ DOMAIN brokers' = AdminDoc
         /\ \A d \in AdminDoc : /\ DOMAIN brokers'[d] = BrokerFields
                                /\ brokers'[d].sessions = brokers[d].sessions /\ brokers'[d].pid = brokers[d].pid
<1>1. DOMAIN brokers' = AdminDoc
  BY DEF Admin!CloseDocument
<1>2. ASSUME NEW d \in AdminDoc
      PROVE  /\ DOMAIN brokers'[d] = BrokerFields
             /\ brokers'[d].sessions = brokers[d].sessions /\ brokers'[d].pid = brokers[d].pid
  <2>1. brokers'[d] = [brokers[d] EXCEPT !.closing = TRUE] \/ brokers'[d] = brokers[d]
    BY DEF Admin!CloseDocument
  <2>2. DOMAIN brokers[d] = BrokerFields
    BY DEF AdminInv, BrokersOk
  <2> QED BY <2>1, <2>2 DEF BrokerFields
<1> QED BY <1>1, <1>2

(* What only one console changes by. *)
LEMMA OneConsole ==
  ASSUME AdminInv, NEW c \in Console, NEW k, consoles' = [consoles EXCEPT ![c] = k], documents' = documents,
         DOMAIN k = ConsoleFields,
         k.follows => k.registered /\ k.open /\ k.seen = ViewsShown(documents)
  PROVE  ConsolesOk'
BY DEF AdminInv, ConsolesOk, ViewsShown

(* What a console does leaves the model as it was.                            *)
LEMMA ConsoleKeeps ==
  ASSUME AdminInv, NEW c \in Console,
         \/ Admin!Connect(c) \/ Admin!Disconnect(c) \/ Admin!NotAuthenticated(c) \/ Admin!Overview(c)
         \/ Admin!Unsubscribe(c) \/ \E valid \in BOOLEAN : Admin!Auth(c, valid)
  PROVE  AdminInv'
<1> DEFINE k == consoles[c]
<1>1. DOMAIN k = ConsoleFields /\ (k.follows => k.registered /\ k.open /\ k.seen = ViewsShown(documents))
  BY DEF AdminInv, ConsolesOk
<1>2. /\ UNCHANGED <<brokers, undead, pids, documents>> /\ ModelOk' /\ DOMAIN brokers' = AdminDoc
      /\ \A d \in AdminDoc : DOMAIN brokers'[d] = BrokerFields
  <2>1. UNCHANGED <<brokers, undead, pids, documents>>
    BY DEF Admin!Connect, Admin!Disconnect, Admin!NotAuthenticated, Admin!Overview, Admin!Unsubscribe, Admin!Auth,
           Admin!OnlyConsoles, Admin!brokerVars
  <2> QED BY <2>1 DEF AdminInv, ModelOk, BrokersOk
<1>3. ASSUME NEW n, consoles' = [consoles EXCEPT ![c] = n], UNCHANGED callbacks, DOMAIN n = ConsoleFields,
             n.follows => n.registered /\ n.open /\ n.seen = ViewsShown(documents)
      PROVE  AdminInv'
  <2>1. ConsolesOk'
    BY <1>2, <1>3, OneConsole
  <2> QED BY <1>2, <1>3, <2>1, StillKeeps
<1>4. DOMAIN Admin!Gone(k) = ConsoleFields /\ ~Admin!Gone(k).follows
  <2> HIDE DEF k
  <2> QED BY <1>1 DEF Admin!Gone, ConsoleFields
<1>5. CASE Admin!Connect(c)
  <2> DEFINE m == [call |-> "subscribe", console |-> c]
             n == [k EXCEPT !.open = TRUE]
  <2>1. callbacks' = Append(callbacks, m) /\ consoles' = [consoles EXCEPT ![c] = n] /\ k = Admin!NoConsole
    BY <1>5 DEF Admin!Connect, Admin!Tell
  <2>2. CallOk(m) /\ m.call = "subscribe"
    BY DEF CallOk, CallKind
  <2>3. DOMAIN n = ConsoleFields /\ ~n.follows
    <3>1. ~k.follows
      BY <2>1 DEF Admin!NoConsole
    <3> HIDE DEF k
    <3> QED BY <1>1, <3>1 DEF ConsoleFields
  <2> HIDE DEF m, n
  <2>4. ConsolesOk'
    BY <1>2, <2>1, <2>3, OneConsole
  <2> QED BY <1>2, <2>1, <2>2, <2>4, SideTellKeeps
<1>6. CASE Admin!Disconnect(c) \/ Admin!NotAuthenticated(c)
  <2>1. consoles' = [consoles EXCEPT ![c] = Admin!Gone(k)] /\ UNCHANGED callbacks
    BY <1>6 DEF Admin!Disconnect, Admin!NotAuthenticated
  <2> QED BY <1>3, <1>4, <2>1
<1>7. CASE Admin!Overview(c)
  <2> DEFINE n == [k EXCEPT !.seen = Admin!GetDocuments, !.follows = TRUE]
  <2>1. consoles' = [consoles EXCEPT ![c] = n] /\ UNCHANGED callbacks /\ k.open /\ k.registered
    BY <1>7 DEF Admin!Overview, Admin!Ready
  <2>2. Admin!GetDocuments = ViewsShown(documents)
    BY DEF Admin!GetDocuments, ViewsShown
  <2>3. DOMAIN n = ConsoleFields /\ n.registered = k.registered /\ n.open = k.open /\ n.seen = Admin!GetDocuments
    <3> HIDE DEF k
    <3> QED BY <1>1 DEF ConsoleFields
  <2> HIDE DEF n
  <2> QED BY <1>3, <2>1, <2>2, <2>3
<1>8. CASE Admin!Unsubscribe(c)
  <2> DEFINE n == [k EXCEPT !.seen = {}, !.follows = FALSE]
  <2>1. consoles' = [consoles EXCEPT ![c] = n] /\ UNCHANGED callbacks
    BY <1>8 DEF Admin!Unsubscribe
  <2>2. DOMAIN n = ConsoleFields /\ ~n.follows
    <3> HIDE DEF k
    <3> QED BY <1>1 DEF ConsoleFields
  <2> HIDE DEF n
  <2> QED BY <1>3, <2>1, <2>2
<1>9. ASSUME NEW valid \in BOOLEAN, Admin!Auth(c, valid) PROVE AdminInv'
  <2> DEFINE n == [k EXCEPT !.auth = TRUE]
  <2>1. consoles' = [consoles EXCEPT ![c] = IF valid THEN n ELSE Admin!Gone(k)] /\ UNCHANGED callbacks
    BY <1>9 DEF Admin!Auth
  <2>2. /\ DOMAIN n = ConsoleFields /\ n.follows = k.follows /\ n.registered = k.registered
        /\ n.open = k.open /\ n.seen = k.seen
    <3> HIDE DEF k
    <3> QED BY <1>1 DEF ConsoleFields
  <2> HIDE DEF n
  <2>3. CASE valid
    BY <1>1, <1>3, <2>1, <2>2, <2>3
  <2>4. CASE ~valid
    BY <1>3, <1>4, <2>1, <2>4
  <2> QED BY <2>3, <2>4
<1> QED BY <1>5, <1>6, <1>7, <1>8, <1>9

(* The start.                                                                 *)
LEMMA AdminInitially ==
  ASSUME Admin!Init PROVE AdminInv
<1>1. /\ brokers = [d \in AdminDoc |-> Admin!NoBroker] /\ undead = {} /\ pids = 0 /\ callbacks = <<>>
      /\ documents = [d \in AdminDoc |-> Admin!NoDocument] /\ consoles = [c \in Console |-> Admin!NoConsole]
  BY DEF Admin!Init
<1>2. /\ DOMAIN Admin!NoBroker = BrokerFields /\ Admin!NoBroker.pid = 0 /\ Admin!NoBroker.sessions = {}
      /\ DOMAIN Admin!NoDocument = DocumentFields /\ Admin!NoDocument.pid = 0 /\ Admin!NoDocument.views = {}
      /\ DOMAIN Admin!NoConsole = ConsoleFields /\ ~Admin!NoConsole.follows
  BY DEF Admin!NoBroker, Admin!NoDocument, Admin!NoConsole, BrokerFields, DocumentFields, ConsoleFields
<1>3. QueueOk(callbacks) /\ In(callbacks) = {} /\ Len(callbacks) = 0
  <2>1. \A S : <<>> \in Seq(S)
    OBVIOUS
  <2> QED BY <1>1, <2>1 DEF QueueOk, In
<1>4. ModelOk /\ BrokersOk /\ ConsolesOk
  BY <1>1, <1>2 DEF ModelOk, BrokersOk, ConsolesOk
<1>5. Leads /\ Barriers
  BY <1>1, <1>2, <1>3 DEF Leads, Barriers, Shown
<1>6. PidsOk
  <2>1. \A d \in AdminDoc : \A p : Uses(d, p) => p = 0
    BY <1>1, <1>2, <1>3 DEF Uses
  <2> QED BY <1>1, <2>1 DEF PidsOk
<1> QED BY <1>3, <1>4, <1>5, <1>6 DEF AdminInv

(* What tells Admin nothing that an overview shows.                           *)
LEMMA OthersKeep ==
  ASSUME AdminInv,
         \/ \E d \in AdminDoc, b \in BOOLEAN : Admin!SendMigrateMsgAfterSave(d, b)
         \/ \E s \in AdminSession : Admin!Receive(s)
         \/ Admin!AddStats
         \/ \E c \in Console : Admin!SetStatsSize(c, 0) \/ \E d \in AdminDoc : Admin!Migrate(c, d)
         \/ UNCHANGED Admin!adminVars
  PROVE  AdminInv'
<1>1. UNCHANGED <<brokers, undead, pids, callbacks, documents>>
  BY DEF Admin!SendMigrateMsgAfterSave, Admin!Receive, Admin!AddStats, Admin!SetStatsSize, Admin!Migrate,
         Admin!brokerVars, Admin!modelVars, Admin!adminVars
<1>2. ModelOk' /\ DOMAIN brokers' = AdminDoc /\ \A d \in AdminDoc : DOMAIN brokers'[d] = BrokerFields
  BY <1>1 DEF AdminInv, ModelOk, BrokersOk
<1>3. UNCHANGED consoles \/ Admin!Notify({}, {})
  BY DEF Admin!SendMigrateMsgAfterSave, Admin!Receive, Admin!AddStats, Admin!SetStatsSize, Admin!Migrate,
         Admin!modelVars, Admin!adminVars
<1>4. ConsolesOk'
  <2>1. CASE UNCHANGED consoles
    BY <1>1, <2>1 DEF AdminInv, ConsolesOk, ViewsShown
  <2>2. CASE Admin!Notify({}, {})
    BY <1>1, <2>2, NotifyKeeps DEF AdminInv
  <2> QED BY <1>3, <2>1, <2>2
<1> QED BY <1>1, <1>2, <1>4, StillKeeps

(* Admin notices that a document is idle, or misbehaves.                      *)
LEMMA ModelKeeps ==
  ASSUME AdminInv, NEW d \in AdminDoc, Admin!BecomesIdle(d) \/ Admin!Misbehaves(d) \/ Admin!BehavesAgain(d)
  PROVE  AdminInv'
<1> DEFINE k == documents[d]
           x == IF Admin!BecomesIdle(d) THEN [k EXCEPT !.idle = TRUE]
                ELSE IF Admin!Misbehaves(d) THEN [k EXCEPT !.bad = IF k.bad = "no" THEN "noticed" ELSE "aborted"]
                ELSE [k EXCEPT !.bad = "no"]
<1>1. documents' = [documents EXCEPT ![d] = x] /\ UNCHANGED <<undead, pids, callbacks, consoles>>
  BY DEF Admin!BecomesIdle, Admin!Misbehaves, Admin!BehavesAgain, Admin!brokerVars
<1>2. DOMAIN k = DocumentFields /\ k.pid # 0
  <2>1. ~Admin!NoDocument.idle /\ Admin!NoDocument.bad = "no"
    BY DEF Admin!NoDocument
  <2> QED BY <2>1, DocumentFacts DEF Admin!BecomesIdle, Admin!Misbehaves, Admin!BehavesAgain
<1>3. DOMAIN x = DocumentFields /\ x.views = k.views /\ x.pid = k.pid
  <2>1. ASSUME NEW v
        PROVE  LET y == [k EXCEPT !.idle = v]
                   z == [k EXCEPT !.bad = v]
               IN  /\ DOMAIN y = DocumentFields /\ y.views = k.views /\ y.pid = k.pid
                   /\ DOMAIN z = DocumentFields /\ z.views = k.views /\ z.pid = k.pid
    <3> HIDE DEF k
    <3> QED BY <1>2 DEF DocumentFields
  <2> QED BY <2>1
<1> HIDE DEF x
<1>4. /\ ModelOk'
      /\ \A e \in AdminDoc : documents'[e].views = documents[e].views /\ documents'[e].pid = documents[e].pid
  BY <1>1, <1>2, <1>3, DocumentTouched
<1>5. ConsolesOk'
  <2>1. ViewsShown(documents)' = ViewsShown(documents)
    BY <1>4, SameViews DEF ViewsShown
  <2> QED BY <1>1, <2>1 DEF AdminInv, ConsolesOk
<1>6. /\ DOMAIN brokers' = AdminDoc
      /\ \A e \in AdminDoc : /\ DOMAIN brokers'[e] = BrokerFields
                             /\ brokers'[e].sessions = brokers[e].sessions /\ brokers'[e].pid = brokers[e].pid
  <2>1. CASE UNCHANGED brokers
    BY <2>1 DEF AdminInv, BrokersOk
  <2>2. CASE \E ds : Admin!CloseDocument(ds)
    BY <2>2, ClosedKeeps
  <2> QED BY <2>1, <2>2 DEF Admin!BecomesIdle, Admin!Misbehaves, Admin!BehavesAgain, Admin!brokerVars
<1> QED BY <1>1, <1>4, <1>5, <1>6, StillKeeps

(* Documents are asked to close.                                              *)
LEMMA ClosingKeeps ==
  ASSUME AdminInv,
         \/ \E toFree : Admin!TriggerMemoryCleanup(toFree)
         \/ \E c \in Console : \E p : Admin!Kill(c, p)
  PROVE  AdminInv'
<1>1. UNCHANGED <<undead, pids, callbacks, documents, consoles>> /\ \E ds : Admin!CloseDocument(ds)
  BY DEF Admin!TriggerMemoryCleanup, Admin!Kill, Admin!modelVars
<1>2. /\ DOMAIN brokers' = AdminDoc
      /\ \A e \in AdminDoc : /\ DOMAIN brokers'[e] = BrokerFields
                             /\ brokers'[e].sessions = brokers[e].sessions /\ brokers'[e].pid = brokers[e].pid
  BY <1>1, ClosedKeeps
<1>3. ModelOk' /\ ConsolesOk'
  BY <1>1 DEF AdminInv, ModelOk, ConsolesOk, ViewsShown
<1> QED BY <1>1, <1>2, <1>3, StillKeeps

(* Once the Admin thread has run what it was told, an overview shows every    *)
(* session of every document with the pid of its Kit, and nothing else        *)
(* (wsd/AdminModel.cpp): for any documents, sessions and consoles, however    *)
(* long the calls wait, when a broker is destroyed before the next one of its *)
(* document starts.                                                           *)
THEOREM OverviewsAreRight == ~LateDestroy => (Admin!Spec => []OverviewIsRight)
<1> SUFFICES ASSUME ~LateDestroy PROVE Admin!Spec => []OverviewIsRight
  OBVIOUS
<1>1. Admin!Init => AdminInv
  BY AdminInitially
<1>2. AdminInv /\ [Admin!Next]_Admin!adminVars => AdminInv'
  <2> SUFFICES ASSUME AdminInv, [Admin!Next]_Admin!adminVars PROVE AdminInv'
    OBVIOUS
  <2>1. CASE UNCHANGED Admin!adminVars
    BY <2>1, OthersKeep
  <2>2. CASE Admin!BrokerStep
    BY <2>2, AdminAddSessionKeeps, DisconnectSessionKeeps, BrokerKeeps, OthersKeep DEF Admin!BrokerStep
  <2>3. CASE Admin!AdminStep
    BY <2>3, RunCallbackKeeps, OthersKeep, ModelKeeps, ClosingKeeps DEF Admin!AdminStep
  <2>4. CASE Admin!ConsoleStep
    BY <2>4, ConsoleKeeps, OthersKeep, ClosingKeeps DEF Admin!ConsoleStep
  <2> QED BY <2>1, <2>2, <2>3, <2>4 DEF Admin!Next
<1>3. AdminInv => OverviewIsRight
  <2> SUFFICES ASSUME AdminInv, callbacks = <<>>, NEW c \in Console, consoles[c].follows
               PROVE  consoles[c].seen = UNION {{brokers[d].pid} \X brokers[d].sessions : d \in AdminDoc}
    BY DEF OverviewIsRight, Admin!OverviewIsRight
  <2>1. ASSUME NEW d \in AdminDoc, NEW p, NEW s
        PROVE  s \in documents[d].views /\ documents[d].pid = p <=> s \in brokers[d].sessions /\ p = brokers[d].pid
    <3>1. Len(callbacks) = 0
      OBVIOUS
    <3>2. Shown(callbacks, documents, d, p, s, 1) <=> s \in documents[d].views /\ documents[d].pid = p
      BY <3>1 DEF Shown, KeptTo
    <3> QED BY <3>1, <3>2 DEF AdminInv, Leads
  <2>2. ASSUME NEW d \in AdminDoc
        PROVE  {documents[d].pid} \X documents[d].views = {brokers[d].pid} \X brokers[d].sessions
    BY <2>1
  <2>3. consoles[c].seen = UNION {{documents[d].pid} \X documents[d].views : d \in AdminDoc}
    BY DEF AdminInv, ConsolesOk, ViewsShown
  <2> QED BY <2>2, <2>3
<1> QED BY <1>1, <1>2, <1>3, PTL DEF Admin!Spec
-----------------------------------------------------------------------------
(* The quarantine. What a broker has of its document: the answer to a save    *)
(* brings the version that counts from .upload to .uploading, so the last     *)
(* copy is never older than it (InTheJail). The last entry of a document      *)
(* denotes that copy since a name on the disk is of one file (OneOfAName).    *)

Kept == [time : Nat, pid : Nat, size : Nat]
Stored == [ver : Nat, size : Nat]
KeptFile == [time : Nat, pid : Nat, content : Stored]
KeptMaps == [StoredDoc -> Seq(Kept)]

KeptTypes ==
  /\ now \in Nat /\ pid \in [StoredDoc -> Nat] /\ alive \in [StoredDoc -> BOOLEAN]
  /\ map \in KeptMaps /\ disk \in [StoredDoc -> SUBSET KeptFile]
  /\ jailed \in [StoredDoc -> [document : Stored, upload : Stored, uploading : Stored]]
  /\ stored \in [StoredDoc -> Stored] /\ saved \in [StoredDoc -> Nat] /\ settled \in [StoredDoc -> Nat]

(* The files of a directory have names of their own.                          *)
Named(F) == IsFiniteSet(F) /\ \A f, g \in F : Quarantine!Path(f) = Quarantine!Path(g) => f = g

OneOfAName == \A d \in StoredDoc : Named(disk[d])

AsJailed(d) ==
  /\ {settled[d], stored[d].ver, jailed[d].document.ver, jailed[d].upload.ver,
      jailed[d].uploading.ver} \subseteq 0 .. saved[d]
  /\ alive[d] =>
       /\ jailed[d].document.ver >= settled[d] /\ jailed[d].document.ver >= jailed[d].upload.ver
       /\ jailed[d].upload # Quarantine!None => jailed[d].upload.ver >= settled[d]
       /\ jailed[d].uploading # Quarantine!None => jailed[d].uploading.ver >= settled[d]

InTheJail == \A d \in StoredDoc : AsJailed(d)

QuarantineInv == KeptTypes /\ OneOfAName /\ InTheJail

(* The entries that are culled are the first ones.                            *)
LEMMA CulledIsKept ==
  ASSUME Quarantine!QuarantineAssumption, NEW c \in Seq(Kept)
  PROVE  Quarantine!DeleteOldQuarantineVersions(c) \in Seq(Kept)
<1> DEFINE excess == IF Len(c) > MaxVersions THEN Len(c) - MaxVersions ELSE 0
           old == {i \in excess .. (Len(c) - 1) : \A j \in excess .. i : c[j + 1].time < now - MaxAgeSecs}
           age == IF old = {} THEN 0 ELSE CHOOSE i \in old : \A j \in old : j <= i
<1>1. Len(c) \in Nat /\ MaxVersions \in Nat
  BY DEF Quarantine!QuarantineAssumption
<1>2. excess \in Nat
  BY <1>1
<1>3. old \in SUBSET (0 .. Len(c) - 1)
  BY <1>1, <1>2
<1>4. Quarantine!DeleteOldQuarantineVersions(c) = SubSeq(c, age + 1, Len(c))
  BY DEF Quarantine!DeleteOldQuarantineVersions
<1> HIDE DEF excess, old
<1>5. age \in 0 .. Len(c)
  <2>1. CASE old = {}
    BY <1>1, <2>1
  <2>2. CASE old # {}
    <3>1. \E i \in old : \A j \in old : j <= i
      <4> DEFINE T == {i + 1 : i \in old}
      <4>1. \A i \in old : i + 1 \in 1 .. Len(c) /\ i \in Int
        BY <1>1, <1>3
      <4>2. T \in SUBSET (1 .. Len(c)) /\ T # {}
        BY <2>2, <4>1
      <4>3. PICK x \in T : \A y \in T : y <= x
        <5> HIDE DEF T
        <5> QED BY <1>1, <4>2, Greatest
      <4>4. PICK i \in old : x = i + 1
        OBVIOUS
      <4>5. ASSUME NEW j \in old PROVE j <= i
        <5>1. j + 1 <= i + 1
          BY <4>3, <4>4
        <5> QED BY <4>1, <5>1
      <4> QED BY <4>5
    <3>2. age \in old
      BY <2>2, <3>1
    <3> HIDE DEF age
    <3> QED BY <1>1, <1>3, <3>2
  <2> QED BY <2>1, <2>2
<1> HIDE DEF age
<1>6. SubSeq(c, age + 1, Len(c)) \in Seq(Kept)
  BY <1>1, <1>5
<1> QED BY <1>4, <1>6

(* A loop that makes space: the documents in order have entries left.         *)
Spacing(s) ==
  /\ s.map \in KeptMaps /\ s.order \in Seq(StoredDoc)
  /\ \A i, j \in DOMAIN s.order : i # j => s.order[i] # s.order[j]
  /\ \A i \in DOMAIN s.order : s.map[s.order[i]] # <<>>

LEMMA RemovalKeeps ==
  ASSUME NEW s, Spacing(s), s.order # <<>>
  PROVE  Spacing(Quarantine!RemoveOldest(s))
<1> DEFINE o == s.order
           d == Head(o)
           rest == Tail(s.map[d])
           m == [e \in StoredDoc |-> IF e = d THEN rest ELSE s.map[e]]
           swapped == <<o[2], d>> \o SubSeq(o, 3, Len(o))
           new == Quarantine!RemoveOldest(s)
<1>1. /\ o \in Seq(StoredDoc) /\ o # <<>> /\ Len(o) \in Nat /\ Len(o) >= 1
      /\ \A i, j \in DOMAIN o : i # j => o[i] # o[j]
      /\ \A i \in DOMAIN o : s.map[o[i]] # <<>> /\ o[i] \in StoredDoc
  BY DEF Spacing
<1>2. d = o[1] /\ 1 \in DOMAIN o /\ d \in StoredDoc /\ s.map[d] # <<>>
  BY <1>1
<1>3. s.map \in KeptMaps
  BY DEF Spacing
<1>4. rest \in Seq(Kept)
  BY <1>2, <1>3 DEF KeptMaps
<1>5. m \in KeptMaps
  BY <1>3, <1>4 DEF KeptMaps
<1>6. /\ new.map = m
      /\ new.order = IF rest = <<>> THEN Tail(o)
                     ELSE IF Len(o) >= 2 /\ Quarantine!Before(m, o[2], d) THEN swapped ELSE o
  BY DEF Quarantine!RemoveOldest
<1>7. CASE rest = <<>>
  <2>1. Tail(o) \in Seq(StoredDoc) /\ \A i \in DOMAIN Tail(o) : i + 1 \in DOMAIN o /\ Tail(o)[i] = o[i + 1]
    BY <1>1
  <2>2. \A i \in DOMAIN Tail(o) : Tail(o)[i] # d
    BY <1>1, <1>2, <2>1
  <2>3. \A i, j \in DOMAIN Tail(o) : i # j => Tail(o)[i] # Tail(o)[j]
    BY <1>1, <2>1
  <2>4. \A i \in DOMAIN Tail(o) : m[Tail(o)[i]] # <<>>
    BY <1>1, <2>1, <2>2
  <2>5. new.map = m /\ new.order = Tail(o)
    BY <1>6, <1>7
  <2> HIDE DEF m, o
  <2> QED BY <1>5, <2>1, <2>3, <2>4, <2>5 DEF Spacing
<1>8. CASE rest # <<>> /\ ~(Len(o) >= 2 /\ Quarantine!Before(m, o[2], d))
  <2>1. \A i \in DOMAIN o : m[o[i]] # <<>>
    BY <1>1, <1>8
  <2>2. new.map = m /\ new.order = o
    BY <1>6, <1>8
  <2> HIDE DEF m, o
  <2> QED BY <1>1, <1>5, <2>1, <2>2 DEF Spacing
<1>9. CASE rest # <<>> /\ Len(o) >= 2 /\ Quarantine!Before(m, o[2], d)
  <2>1. Len(o) >= 2 /\ 2 \in DOMAIN o
    BY <1>1, <1>9
  <2>2. SubSeq(o, 3, Len(o)) \in Seq(StoredDoc) /\ Len(SubSeq(o, 3, Len(o))) = Len(o) - 2
        /\ \A i \in 1 .. Len(o) - 2 : SubSeq(o, 3, Len(o))[i] = o[i + 2]
    BY <1>1, <2>1
  <2>3. swapped \in Seq(StoredDoc) /\ DOMAIN swapped = DOMAIN o
        /\ \A i \in DOMAIN o : swapped[i] = IF i = 1 THEN o[2] ELSE IF i = 2 THEN o[1] ELSE o[i]
    BY <1>1, <1>2, <2>1, <2>2
  <2>4. \A i \in DOMAIN o : m[o[i]] # <<>>
    BY <1>1, <1>9
  <2> HIDE DEF o, swapped, m
  <2>5. \A i \in DOMAIN swapped : m[swapped[i]] # <<>>
    <3>1. ASSUME NEW i \in DOMAIN o PROVE m[swapped[i]] # <<>>
      <4>1. swapped[i] \in {o[2], o[1], o[i]}
        BY <2>3
      <4> QED BY <1>2, <2>1, <2>4, <4>1
    <3> QED BY <2>3, <3>1
  <2>6. \A i, j \in DOMAIN swapped : i # j => swapped[i] # swapped[j]
    <3> DEFINE at(i) == IF i = 1 THEN 2 ELSE IF i = 2 THEN 1 ELSE i
    <3>1. \A i \in DOMAIN o : at(i) \in DOMAIN o /\ swapped[i] = o[at(i)]
      BY <1>1, <1>2, <2>1, <2>3
    <3>2. \A i, j \in DOMAIN o : i # j => at(i) # at(j)
      BY <1>1
    <3> HIDE DEF at
    <3> QED BY <1>1, <2>3, <3>1, <3>2
  <2>7. new.map = m /\ new.order = swapped
    BY <1>6, <1>9 DEF o, swapped, m
  <2> QED BY <1>5, <2>3, <2>5, <2>6, <2>7 DEF Spacing
<1> QED BY <1>7, <1>8, <1>9

LEMMA ShrunkIsKept ==
  ASSUME Quarantine!QuarantineAssumption, NEW start, Spacing(start)
  PROVE  Quarantine!Shrunk(start) \in KeptMaps
<1> DEFINE L == MaxSaves + MaxLoads
           N(s) == IF s.order = <<>> \/ Quarantine!Fits(s.size) THEN s ELSE Quarantine!RemoveOldest(s)
           F(h, n) == [i \in 0 .. n |-> IF i = 0 THEN start ELSE N(h[i - 1])]
           P == {n \in 0 .. L : \E h : h = F(h, n)}
<1>1. L \in Nat
  BY DEF Quarantine!QuarantineAssumption
<1>2. \A s : Spacing(s) => Spacing(N(s))
  BY RemovalKeeps
<1> HIDE DEF L, N
<1>3. 0 \in P
  <2> DEFINE z == [i \in 0 .. 0 |-> start]
  <2>1. z = F(z, 0)
    OBVIOUS
  <2> HIDE DEF z
  <2>2. \E h : h = F(h, 0)
    BY <2>1
  <2> QED BY <1>1, <2>2
<1>4. ASSUME NEW n \in 1 .. L, n - 1 \in P PROVE n \in P
  <2>1. PICK h : h = F(h, n - 1)
    BY <1>4
  <2> DEFINE k == [i \in 0 .. n |-> IF i = n THEN N(h[n - 1]) ELSE h[i]]
  <2>2. ASSUME NEW i \in 0 .. n PROVE k[i] = IF i = 0 THEN start ELSE N(k[i - 1])
    <3>1. \A j \in 0 .. n - 1 : h[j] = IF j = 0 THEN start ELSE N(h[j - 1])
      BY <2>1
    <3>2. CASE i = n
      <4>1. k[n - 1] = h[n - 1] /\ k[n] = N(h[n - 1]) /\ n # 0
        BY <1>1
      <4> QED BY <3>2, <4>1
    <3>3. CASE i # n
      <4>1. i \in 0 .. n - 1 /\ k[i] = h[i] /\ (i # 0 => k[i - 1] = h[i - 1])
        BY <1>1, <3>3
      <4> QED BY <3>1, <4>1
    <3> QED BY <3>2, <3>3
  <2>3. k = F(k, n)
    BY <2>2
  <2> HIDE DEF k
  <2>4. \E g : g = F(g, n)
    BY <2>3
  <2> QED BY <2>4
<1> HIDE DEF P
<1>5. L \in P
  <2>1. \A n \in 0 .. L : n \in P
    BY <1>1, <1>3, <1>4, Stepwise
  <2> QED BY <1>1, <2>1
<1>6. \E h : h = F(h, L)
  BY <1>5 DEF P
<1>7. PICK h : h = F(h, L) /\ Quarantine!Shrunk(start) = h[L].map
  BY <1>6 DEF Quarantine!Shrunk, L, N
<1> DEFINE T == {n \in 0 .. L : Spacing(h[n])}
<1>8. h[0] = start /\ \A n \in 1 .. L : h[n] = N(h[n - 1])
  <2>1. \A n \in 0 .. L : h[n] = IF n = 0 THEN start ELSE N(h[n - 1])
    BY <1>7
  <2> QED BY <1>1, <2>1
<1>9. 0 \in T /\ \A n \in 1 .. L : n - 1 \in T => n \in T
  BY <1>1, <1>2, <1>8
<1> HIDE DEF T
<1>10. \A n \in 0 .. L : n \in T
  BY <1>1, <1>9, Stepwise
<1> QED BY <1>1, <1>7, <1>10 DEF T, Spacing

LEMMA QuarantineCounts ==
  ASSUME NEW S
  PROVE  Quarantine!Cardinality(S) = Cardinality(S) /\ (Quarantine!IsFiniteSet(S) <=> IsFiniteSet(S))
BY DEF Quarantine!Cardinality, Cardinality, Quarantine!IsFiniteSet, IsFiniteSet

LEMMA OrdersAre ==
  ASSUME NEW S, IsFiniteSet(S), NEW x \in Quarantine!SetToSeqs(S)
  PROVE  x \in Seq(S) /\ \A i, j \in DOMAIN x : i # j => x[i] # x[j]
BY QuarantineCounts, FS_CardinalityType DEF Quarantine!SetToSeqs

(* Making space leaves lists of entries.                                      *)
LEMMA SpaceIsKept ==
  ASSUME Quarantine!QuarantineAssumption, NEW m \in KeptMaps, NEW headroom,
         NEW x \in Quarantine!MakeQuarantineSpace(m, headroom)
  PROVE  x \in KeptMaps
<1> DEFINE culled == [d \in StoredDoc |-> Quarantine!DeleteOldQuarantineVersions(m[d])]
           size == Quarantine!QuarantineSize(culled) + headroom
           start(o) == [map |-> culled, order |-> o, size |-> size]
<1>1. culled \in KeptMaps
  BY CulledIsKept DEF KeptMaps
<1>2. ASSUME NEW o \in Quarantine!Orders(culled) PROVE Spacing(start(o))
  <2> DEFINE D == {d \in StoredDoc : culled[d] # <<>>}
  <2> HIDE DEF culled, size
  <2>1. IsFiniteSet(D) /\ D \subseteq StoredDoc
    <3>1. IsFiniteSet(StoredDoc)
      BY QuarantineCounts DEF Quarantine!QuarantineAssumption
    <3> QED BY <3>1, FS_Subset
  <2>2. o \in Quarantine!SetToSeqs(D)
    BY DEF Quarantine!Orders
  <2>3. o \in Seq(D) /\ \A i, j \in DOMAIN o : i # j => o[i] # o[j]
    BY <2>1, <2>2, OrdersAre
  <2>4. \A i \in DOMAIN o : o[i] \in D
    BY <2>3
  <2>5. o \in Seq(StoredDoc) /\ \A i \in DOMAIN o : culled[o[i]] # <<>>
    BY <2>1, <2>3, <2>4
  <2> QED BY <1>1, <2>3, <2>5 DEF Spacing
<1>3. x = culled \/ \E o \in Quarantine!Orders(culled) : x = Quarantine!Shrunk(start(o))
  BY DEF Quarantine!MakeQuarantineSpace
<1> HIDE DEF start, culled
<1> QED BY <1>1, <1>2, <1>3, ShrunkIsKept

LEMMA FewerAreNamed ==
  ASSUME NEW F, Named(F), NEW G \in SUBSET F
  PROVE  Named(G)
BY FS_Subset DEF Named

(* An entry whose file is there denotes what the file contains.               *)
LEMMA EntryDenotes ==
  ASSUME NEW F, Named(F), NEW e, NEW c, Quarantine!File(e, c) \in F
  PROVE  Quarantine!VersionOf(e, F) = c.ver
<1>1. Quarantine!Path(Quarantine!File(e, c)) = Quarantine!Path(e)
  BY DEF Quarantine!Path, Quarantine!File
<1>2. (CHOOSE f \in F : Quarantine!Path(f) = Quarantine!Path(e)) = Quarantine!File(e, c)
  BY <1>1 DEF Named
<1>3. Quarantine!Path(e) \in Quarantine!Paths(F)
  BY <1>1 DEF Quarantine!Paths
<1>4. Quarantine!File(e, c).content.ver = c.ver
  BY DEF Quarantine!File
<1> QED BY <1>2, <1>3, <1>4 DEF Quarantine!VersionOf

(* What is quarantined is what the last entry denotes.                        *)
LEMMA QuarantinesIt ==
  ASSUME Quarantine!QuarantineAssumption, KeptTypes, OneOfAName,
         NEW d \in StoredDoc, NEW file \in Stored, Quarantine!QuarantineFile(d, file)
  PROVE  /\ map' \in KeptMaps /\ disk' \in [StoredDoc -> SUBSET KeptFile] /\ OneOfAName'
         /\ Quarantine!IsIdenticalToLast(d, file) \/ hist' # hist =>
              /\ map'[d] # <<>>
              /\ Quarantine!VersionOf(Quarantine!Last(map'[d]), disk'[d]) = file.ver
<1> DEFINE entry == [time |-> now, pid |-> pid[d], size |-> file.size]
           left(m) == [e \in StoredDoc |->
             {f \in Quarantine!Remaining(e, m) :
                e = d => Quarantine!Path(f) # Quarantine!Path(entry)}]
           Held(D) == D \in [StoredDoc -> SUBSET KeptFile] /\ \A e \in StoredDoc : Named(D[e])
<1>1. map \in KeptMaps /\ Held(disk) /\ now \in Nat /\ pid[d] \in Nat
  BY DEF KeptTypes, OneOfAName
<1>2. entry \in Kept /\ Quarantine!File(entry, file) \in KeptFile
  BY <1>1 DEF Kept, KeptFile, Stored, Quarantine!File
<1>3. ASSUME NEW m
      PROVE  Held(left(m)) /\ \A f \in left(m)[d] : Quarantine!Path(f) # Quarantine!Path(entry)
  <2>1. \A e \in StoredDoc : left(m)[e] \in SUBSET disk[e]
    BY DEF Quarantine!Remaining
  <2>2. \A e \in StoredDoc : Named(left(m)[e]) /\ left(m)[e] \in SUBSET KeptFile
    <3> HIDE DEF left
    <3> QED BY <1>1, <2>1, FewerAreNamed
  <2>3. \A f \in left(m)[d] : Quarantine!Path(f) # Quarantine!Path(entry)
    OBVIOUS
  <2>4. left(m) = [e \in StoredDoc |-> left(m)[e]]
    OBVIOUS
  <2> HIDE DEF left, entry
  <2> QED BY <2>2, <2>3, <2>4
<1>4. Held(disk') => disk' \in [StoredDoc -> SUBSET KeptFile] /\ OneOfAName'
  BY DEF OneOfAName
<1>5. CASE Quarantine!IsIdenticalToLast(d, file) /\ UNCHANGED <<map, disk, hist>>
  <2>1. map' \in KeptMaps /\ Held(disk') /\ disk'[d] = disk[d] /\ map'[d] = map[d]
    BY <1>1, <1>5
  <2>2. map[d] # <<>> /\ Quarantine!File(Quarantine!Last(map[d]), file) \in disk[d]
    BY <1>5 DEF Quarantine!IsIdenticalToLast
  <2>3. Quarantine!VersionOf(Quarantine!Last(map[d]), disk[d]) = file.ver
    BY <1>1, <2>2, EntryDenotes
  <2> HIDE DEF Held
  <2> QED BY <1>4, <2>1, <2>2, <2>3
<1>6. CASE ~Quarantine!IsIdenticalToLast(d, file)
  <2>1. PICK m \in Quarantine!MakeQuarantineSpace(map, file.size) :
          \/ /\ map' = [m EXCEPT ![d] = Append(@, entry)]
             /\ disk' = [left(m) EXCEPT ![d] = @ \cup {Quarantine!File(entry, file)}]
          \/ map' = m /\ disk' = left(m) /\ UNCHANGED hist
    BY <1>6 DEF Quarantine!QuarantineFile
  <2>2. m \in KeptMaps
    BY <1>1, SpaceIsKept
  <2> HIDE DEF left
  <2>3. CASE map' = m /\ disk' = left(m) /\ UNCHANGED hist
    <3> HIDE DEF Held
    <3> QED BY <1>3, <1>4, <1>6, <2>2, <2>3
  <2>4. CASE /\ map' = [m EXCEPT ![d] = Append(@, entry)]
             /\ disk' = [left(m) EXCEPT ![d] = @ \cup {Quarantine!File(entry, file)}]
    <3> HIDE DEF entry
    <3>1. Held(left(m))
      BY <1>3
    <3>2. m[d] \in Seq(Kept) /\ map'[d] = Append(m[d], entry) /\ map' \in KeptMaps
      <4>1. m[d] \in Seq(Kept)
        BY <2>2 DEF KeptMaps
      <4>2. Append(m[d], entry) \in Seq(Kept)
        BY <1>2, <4>1
      <4> QED BY <2>2, <2>4, <4>1, <4>2 DEF KeptMaps
    <3>3. map'[d] # <<>> /\ Quarantine!Last(map'[d]) = entry
      <4>1. Len(map'[d]) = Len(m[d]) + 1 /\ map'[d][Len(m[d]) + 1] = entry /\ Len(m[d]) \in Nat
        BY <1>2, <3>2
      <4> QED BY <4>1 DEF Quarantine!Last
    <3> DEFINE new == left(m)[d] \cup {Quarantine!File(entry, file)}
    <3>4. disk'[d] = new /\ (\A e \in StoredDoc : e # d => disk'[e] = left(m)[e])
          /\ disk' = [e \in StoredDoc |-> IF e = d THEN new ELSE left(m)[e]]
      BY <2>4, <3>1
    <3>5. Named(new)
      <4>1. IsFiniteSet(new)
        BY <3>1, FS_AddElement DEF Named
      <4>2. Quarantine!Path(Quarantine!File(entry, file)) = Quarantine!Path(entry)
        BY DEF Quarantine!Path, Quarantine!File
      <4>3. \A f \in left(m)[d] : Quarantine!Path(f) # Quarantine!Path(entry)
        BY <1>3
      <4>4. \A f, g \in left(m)[d] : Quarantine!Path(f) = Quarantine!Path(g) => f = g
        BY <3>1 DEF Named
      <4> QED BY <4>1, <4>2, <4>3, <4>4 DEF Named
    <3>6. Held(disk')
      BY <1>2, <3>1, <3>4, <3>5
    <3>7. Quarantine!VersionOf(entry, new) = file.ver
      BY <3>5, EntryDenotes
    <3> HIDE DEF Held, new
    <3> QED BY <1>4, <3>2, <3>3, <3>4, <3>6, <3>7
  <2> QED BY <2>1, <2>3, <2>4
<1> QED BY <1>5, <1>6 DEF Quarantine!QuarantineFile

LEMMA QuarantineStarts ==
  ASSUME Quarantine!QuarantineAssumption, Quarantine!Init
  PROVE  QuarantineInv
<1>1. Quarantine!Original \in FileSize /\ Quarantine!Original \in Nat
  <2>1. FileSize \in SUBSET Nat /\ FileSize # {}
    BY DEF Quarantine!QuarantineAssumption
  <2>2. \E z \in FileSize : \A y \in FileSize : z <= y
    BY <2>1, Least
  <2>3. Quarantine!Original \in FileSize
    BY <2>2 DEF Quarantine!Original
  <2> QED BY <2>1, <2>3
<1>2. KeptTypes
  <2>1. \A S : <<>> \in Seq(S)
    OBVIOUS
  <2>2. map \in KeptMaps /\ disk \in [StoredDoc -> SUBSET KeptFile]
    BY <2>1 DEF Quarantine!Init, KeptMaps
  <2> QED BY <1>1, <2>2 DEF Quarantine!Init, KeptTypes, Stored, Quarantine!None
<1>3. OneOfAName
  BY FS_EmptySet DEF Quarantine!Init, OneOfAName, Named
<1>4. InTheJail
  BY DEF Quarantine!Init, InTheJail, AsJailed, Quarantine!None
<1> QED BY <1>2, <1>3, <1>4 DEF QuarantineInv

(* The last copy is not older than the version that counts.                   *)
LEMMA LastCopyCounts ==
  ASSUME KeptTypes, InTheJail, NEW d \in StoredDoc, alive[d]
  PROVE  Quarantine!LastCopy(d) \in Stored /\ Quarantine!LastCopy(d).ver >= settled[d]
<1>1. /\ jailed[d].document \in Stored /\ jailed[d].upload \in Stored
      /\ jailed[d].uploading \in Stored
  BY DEF KeptTypes
<1>2. /\ jailed[d].document.ver >= settled[d]
      /\ jailed[d].upload # Quarantine!None => jailed[d].upload.ver >= settled[d]
      /\ jailed[d].uploading # Quarantine!None => jailed[d].uploading.ver >= settled[d]
  BY DEF InTheJail, AsJailed
<1> QED BY <1>1, <1>2 DEF Quarantine!LastCopy

LEMMA LoadJails ==
  ASSUME QuarantineInv, NEW d \in StoredDoc, Quarantine!Load(d)
  PROVE  QuarantineInv'
<1> USE DEF QuarantineInv
<1>1. /\ pid' = [pid EXCEPT ![d] = @ + 1] /\ alive' = [alive EXCEPT ![d] = TRUE]
      /\ jailed' = [jailed EXCEPT ![d] = [document |-> stored[d], upload |-> Quarantine!None,
                                          uploading |-> Quarantine!None]]
      /\ settled' = [settled EXCEPT ![d] = stored[d].ver]
      /\ UNCHANGED <<now, map, disk, stored, saved, hist>>
  BY DEF Quarantine!Load
<1>2. Quarantine!None \in Stored /\ Quarantine!None.ver = 0
  BY DEF Quarantine!None, Stored
<1>3. KeptTypes'
  BY <1>1, <1>2 DEF KeptTypes, Stored
<1>4. OneOfAName'
  BY <1>1 DEF OneOfAName
<1>5. InTheJail'
  <2>1. \A e \in StoredDoc :
          /\ saved[e] \in Nat
          /\ e = d => /\ jailed'[e].document = stored[d] /\ jailed'[e].upload = Quarantine!None
                      /\ jailed'[e].uploading = Quarantine!None /\ settled'[e] = stored[d].ver
          /\ e # d => jailed'[e] = jailed[e] /\ settled'[e] = settled[e] /\ alive'[e] = alive[e]
          /\ stored'[e] = stored[e] /\ saved'[e] = saved[e]
    BY <1>1 DEF KeptTypes
  <2> SUFFICES ASSUME NEW e \in StoredDoc PROVE AsJailed(e)'
    BY DEF InTheJail, AsJailed
  <2>2. AsJailed(e)
    BY DEF InTheJail, AsJailed
  <2>3. stored[e].ver \in 0 .. saved[e]
    BY <2>2 DEF AsJailed
  <2>4. CASE e = d
    BY <1>2, <2>1, <2>3, <2>4 DEF AsJailed
  <2>5. CASE e # d
    BY <2>1, <2>2, <2>5 DEF AsJailed
  <2> QED BY <2>4, <2>5
<1> QED BY <1>3, <1>4, <1>5

LEMMA SaveJails ==
  ASSUME Quarantine!QuarantineAssumption, QuarantineInv, NEW d \in StoredDoc, Quarantine!Save(d)
  PROVE  QuarantineInv'
<1> USE DEF QuarantineInv
<1>1. PICK z \in FileSize :
        LET c == [ver |-> saved[d] + 1, size |-> z]
        IN  \/ jailed' = [jailed EXCEPT ![d].document = c, ![d].upload = c]
            \/ jailed' = [jailed EXCEPT ![d].document = c]
  BY DEF Quarantine!Save
<1>2. /\ alive[d] /\ saved' = [saved EXCEPT ![d] = @ + 1]
      /\ UNCHANGED <<now, map, disk, pid, alive, stored, settled, hist>>
  BY DEF Quarantine!Save
<1> DEFINE c == [ver |-> saved[d] + 1, size |-> z]
<1>3. z \in Nat /\ saved[d] \in Nat
  BY DEF Quarantine!QuarantineAssumption, KeptTypes
<1>4. c \in Stored /\ c.ver = saved[d] + 1
  BY <1>3 DEF Stored
<1>5. \/ jailed' = [jailed EXCEPT ![d].document = c, ![d].upload = c]
      \/ jailed' = [jailed EXCEPT ![d].document = c]
  BY <1>1
<1> HIDE DEF c
<1>6. KeptTypes'
  <2>1. jailed' \in [StoredDoc -> [document : Stored, upload : Stored, uploading : Stored]]
    <3>1. jailed \in [StoredDoc -> [document : Stored, upload : Stored, uploading : Stored]]
      BY DEF KeptTypes
    <3>2. CASE jailed' = [jailed EXCEPT ![d].document = c, ![d].upload = c]
      BY <1>4, <3>1, <3>2
    <3>3. CASE jailed' = [jailed EXCEPT ![d].document = c]
      BY <1>4, <3>1, <3>3
    <3> QED BY <1>5, <3>2, <3>3
  <2>2. saved' \in [StoredDoc -> Nat]
    BY <1>2 DEF KeptTypes
  <2>3. KeptTypes /\ UNCHANGED <<now, map, disk, pid, alive, stored, settled>>
    BY <1>2
  <2> QED BY <2>1, <2>2, <2>3 DEF KeptTypes
<1>7. OneOfAName'
  BY <1>2 DEF OneOfAName
<1>8. InTheJail'
  <2>1. \A e \in StoredDoc :
          /\ saved[e] \in Nat
          /\ e = d => /\ jailed'[e].document = c /\ jailed'[e].upload \in {c, jailed[e].upload}
                      /\ jailed'[e].uploading = jailed[e].uploading /\ saved'[e] = saved[e] + 1
          /\ e # d => jailed'[e] = jailed[e] /\ saved'[e] = saved[e]
          /\ stored'[e] = stored[e] /\ alive'[e] = alive[e] /\ settled'[e] = settled[e]
    BY <1>2, <1>5 DEF KeptTypes
  <2> SUFFICES ASSUME NEW e \in StoredDoc PROVE AsJailed(e)'
    BY DEF InTheJail, AsJailed
  <2>2. AsJailed(e)
    BY DEF InTheJail, AsJailed
  <2>3. CASE e = d
    BY <1>2, <1>4, <2>1, <2>2, <2>3 DEF AsJailed
  <2>4. CASE e # d
    BY <2>1, <2>2, <2>4 DEF AsJailed
  <2> QED BY <2>3, <2>4
<1> QED BY <1>6, <1>7, <1>8

LEMMA SaveResponseJails ==
  ASSUME Quarantine!QuarantineAssumption, QuarantineInv, NEW d \in StoredDoc,
         Quarantine!HandleSaveResponse(d)
  PROVE  QuarantineInv'
<1> USE DEF QuarantineInv
<1> DEFINE file == jailed[d].upload
<1>1. /\ alive[d] /\ file # Quarantine!None /\ Quarantine!QuarantineFile(d, file)
      /\ jailed' = [jailed EXCEPT ![d].upload = Quarantine!None, ![d].uploading = file]
      /\ settled' = [settled EXCEPT ![d] = file.ver]
      /\ UNCHANGED <<now, pid, alive, stored, saved>>
  BY DEF Quarantine!HandleSaveResponse
<1>2. Quarantine!None \in Stored /\ Quarantine!None.ver = 0 /\ file \in Stored /\ file.ver \in Nat
  BY DEF Quarantine!None, KeptTypes, Stored
<1>3. map' \in KeptMaps /\ disk' \in [StoredDoc -> SUBSET KeptFile] /\ OneOfAName'
  <2> HIDE DEF file
  <2> QED BY <1>1, <1>2, QuarantinesIt
<1>4. KeptTypes'
  BY <1>1, <1>2, <1>3 DEF KeptTypes
<1>5. InTheJail'
  <2>1. \A e \in StoredDoc :
          /\ saved[e] \in Nat
          /\ e = d => /\ jailed'[e].document = jailed[e].document
                      /\ jailed'[e].upload = Quarantine!None
                      /\ jailed'[e].uploading = jailed[e].upload /\ settled'[e] = jailed[e].upload.ver
          /\ e # d => jailed'[e] = jailed[e] /\ settled'[e] = settled[e]
          /\ stored'[e] = stored[e] /\ alive'[e] = alive[e] /\ saved'[e] = saved[e]
    BY <1>1 DEF KeptTypes
  <2> SUFFICES ASSUME NEW e \in StoredDoc PROVE AsJailed(e)'
    BY DEF InTheJail, AsJailed
  <2>2. AsJailed(e)
    BY DEF InTheJail, AsJailed
  <2>3. CASE e = d
    <3> DEFINE j == jailed[d]
    <3>1. /\ {settled[d], stored[d].ver, j.document.ver, j.upload.ver, j.uploading.ver} \subseteq
               0 .. saved[d]
          /\ j.document.ver >= j.upload.ver
      BY <1>1, <2>2, <2>3 DEF AsJailed
    <3>2. /\ jailed'[d].document = j.document /\ jailed'[d].upload = Quarantine!None
          /\ jailed'[d].uploading = j.upload /\ settled'[d] = j.upload.ver
          /\ stored'[d] = stored[d] /\ alive'[d] = alive[d] /\ saved'[d] = saved[d]
      BY <2>1, <2>3
    <3>3. saved[d] \in Nat /\ j.upload.ver \in Nat
      BY <1>2, <2>1, <2>3
    <3> HIDE DEF j, file
    <3>4. j.document.ver >= 0 /\ j.upload.ver >= j.upload.ver
      BY <3>1, <3>3
    <3> QED BY <1>2, <2>3, <3>1, <3>2, <3>3, <3>4 DEF AsJailed
  <2>4. CASE e # d
    BY <2>1, <2>2, <2>4 DEF AsJailed
  <2> QED BY <2>3, <2>4
<1> QED BY <1>3, <1>4, <1>5

LEMMA UploadedJails ==
  ASSUME QuarantineInv, NEW d \in StoredDoc, Quarantine!Uploaded(d)
  PROVE  QuarantineInv'
<1> USE DEF QuarantineInv
<1>1. /\ stored' = [stored EXCEPT ![d] = jailed[d].uploading]
      /\ UNCHANGED <<now, map, disk, pid, alive, jailed, saved, settled, hist>>
  BY DEF Quarantine!Uploaded
<1>2. KeptTypes'
  BY <1>1 DEF KeptTypes
<1>3. OneOfAName'
  BY <1>1 DEF OneOfAName
<1>4. InTheJail'
  <2>1. \A e \in StoredDoc : stored'[e] \in {stored[e], jailed[e].uploading}
    BY <1>1 DEF KeptTypes
  <2> QED BY <1>1, <2>1 DEF InTheJail, AsJailed
<1> QED BY <1>2, <1>3, <1>4

LEMMA EndsJail ==
  ASSUME QuarantineInv, NEW d \in StoredDoc, Quarantine!EndClean(d)
  PROVE  QuarantineInv'
<1> USE DEF QuarantineInv
<1>1. /\ alive' = [alive EXCEPT ![d] = FALSE]
      /\ UNCHANGED <<now, map, disk, pid, jailed, stored, saved, settled, hist>>
  BY DEF Quarantine!EndClean
<1>2. KeptTypes'
  BY <1>1 DEF KeptTypes
<1>3. OneOfAName'
  BY <1>1 DEF OneOfAName
<1>4. InTheJail'
  <2>1. \A e \in StoredDoc : alive'[e] => alive[e]
    BY <1>1 DEF KeptTypes
  <2> QED BY <1>1, <2>1 DEF InTheJail, AsJailed
<1> QED BY <1>2, <1>3, <1>4

LEMMA LossJails ==
  ASSUME Quarantine!QuarantineAssumption, QuarantineInv, NEW d \in StoredDoc,
         Quarantine!EndWithLoss(d)
  PROVE  /\ QuarantineInv'
         /\ Quarantine!IsIdenticalToLast(d, Quarantine!LastCopy(d)) \/ hist' # hist =>
              /\ map'[d] # <<>>
              /\ Quarantine!VersionOf(Quarantine!Last(map'[d]), disk'[d]) >= settled[d]
<1> USE DEF QuarantineInv
<1> DEFINE file == Quarantine!LastCopy(d)
<1>1. /\ alive[d] /\ Quarantine!QuarantineFile(d, file) /\ alive' = [alive EXCEPT ![d] = FALSE]
      /\ UNCHANGED <<now, pid, jailed, stored, saved, settled>>
  BY DEF Quarantine!EndWithLoss
<1>2. file \in Stored /\ file.ver >= settled[d]
  BY <1>1, LastCopyCounts
<1> HIDE DEF file
<1>3. /\ map' \in KeptMaps /\ disk' \in [StoredDoc -> SUBSET KeptFile] /\ OneOfAName'
      /\ Quarantine!IsIdenticalToLast(d, file) \/ hist' # hist =>
           /\ map'[d] # <<>>
           /\ Quarantine!VersionOf(Quarantine!Last(map'[d]), disk'[d]) = file.ver
  BY <1>1, <1>2, QuarantinesIt
<1>4. KeptTypes'
  BY <1>1, <1>3 DEF KeptTypes
<1>5. InTheJail'
  <2>1. \A e \in StoredDoc : alive'[e] => alive[e]
    BY <1>1 DEF KeptTypes
  <2> QED BY <1>1, <2>1 DEF InTheJail, AsJailed
<1> QED BY <1>2, <1>3, <1>4, <1>5 DEF file

(* A restart reads the directory again: its entries are of the files there.   *)
LEMMA RestartJails ==
  ASSUME Quarantine!QuarantineAssumption, QuarantineInv, Quarantine!Restart
  PROVE  QuarantineInv'
<1> USE DEF QuarantineInv
<1>1. /\ alive' = [d \in StoredDoc |-> FALSE]
      /\ disk' = [d \in StoredDoc |->
                    {f \in disk[d] : Quarantine!Path(f) \in Quarantine!Paths(Quarantine!Range(map'[d]))}]
      /\ UNCHANGED <<now, pid, jailed, stored, saved, settled, hist>>
  BY DEF Quarantine!Restart
<1>2. PICK m \in [StoredDoc -> UNION {Quarantine!Reread(d) : d \in StoredDoc}] :
        /\ \A d \in StoredDoc : m[d] \in Quarantine!Reread(d)
        /\ map' \in Quarantine!MakeQuarantineSpace(m, 0)
  BY DEF Quarantine!Restart
<1>3. ASSUME NEW d \in StoredDoc PROVE m[d] \in Seq(Kept)
  <2> DEFINE entry(f) == [time |-> f.time, pid |-> f.pid, size |-> f.content.size]
             E == {entry(f) : f \in disk[d]}
  <2>1. IsFiniteSet(disk[d]) /\ disk[d] \in SUBSET KeptFile
    BY DEF OneOfAName, Named, KeptTypes
  <2>2. IsFiniteSet(E)
    <3> DEFINE g == [f \in disk[d] |-> entry(f)]
    <3>1. g \in Surjection(disk[d], E)
      BY DEF Surjection
    <3> HIDE DEF g, E
    <3> QED BY <2>1, <3>1, FS_Surjection
  <2>3. E \in SUBSET Kept
    BY <2>1 DEF Kept, KeptFile, Stored
  <2>4. m[d] \in Quarantine!SetToSeqs(E)
    BY <1>2 DEF Quarantine!Reread, Quarantine!Found
  <2> HIDE DEF E
  <2>5. m[d] \in Seq(E)
    BY <2>2, <2>4, OrdersAre
  <2> QED BY <2>3, <2>5
<1>4. m \in KeptMaps
  BY <1>3 DEF KeptMaps
<1>5. map' \in KeptMaps
  BY <1>2, <1>4, SpaceIsKept
<1>6. \A d \in StoredDoc : disk'[d] \in SUBSET disk[d]
  BY <1>1
<1>7. KeptTypes'
  <2>1. disk' \in [StoredDoc -> SUBSET KeptFile]
    BY <1>1 DEF KeptTypes
  <2> QED BY <1>1, <1>5, <2>1 DEF KeptTypes
<1>8. OneOfAName'
  BY <1>6, FewerAreNamed DEF OneOfAName
<1>9. InTheJail'
  BY <1>1 DEF InTheJail, AsJailed
<1> QED BY <1>7, <1>8, <1>9

LEMMA QuarantineStays ==
  ASSUME Quarantine!QuarantineAssumption, QuarantineInv, [Quarantine!Next]_Quarantine!vars
  PROVE  QuarantineInv'
<1>1. CASE Quarantine!Tick
  BY <1>1 DEF QuarantineInv, KeptTypes, OneOfAName, InTheJail, AsJailed, Quarantine!Tick, Quarantine!jail
<1>2. CASE UNCHANGED Quarantine!vars
  BY <1>2 DEF QuarantineInv, KeptTypes, OneOfAName, InTheJail, AsJailed, Quarantine!vars, Quarantine!jail
<1> QED BY <1>1, <1>2, LoadJails, SaveJails, SaveResponseJails, UploadedJails, EndsJail, LossJails,
           RestartJails DEF Quarantine!Next

(* LossIsQuarantined: when a broker ends with a loss (the end of pollThread), *)
(* what it leaves in the quarantine is not older than the last version whose  *)
(* save it handled, unless the file cannot be written. However many documents *)
(* share the directory and whatever its limits, what makeQuarantineSpace      *)
(* removes is never the file that it makes room for.                          *)
THEOREM LossLeavesACopy ==
  Quarantine!QuarantineAssumption => (Quarantine!Spec => LossIsQuarantined)
<1> SUFFICES ASSUME Quarantine!QuarantineAssumption
             PROVE  Quarantine!Spec => LossIsQuarantined
  OBVIOUS
<1>1. Quarantine!Init => QuarantineInv
  BY QuarantineStarts
<1>2. QuarantineInv /\ [Quarantine!Next]_Quarantine!vars => QuarantineInv'
  BY QuarantineStays
<1>3. QuarantineInv /\ [Quarantine!Next]_Quarantine!vars =>
        [\A d \in StoredDoc :
           Quarantine!EndWithLoss(d)
             /\ (Quarantine!IsIdenticalToLast(d, Quarantine!LastCopy(d)) \/ hist' # hist) =>
             map'[d] # <<>>
               /\ Quarantine!VersionOf(Quarantine!Last(map'[d]), disk'[d]) >= settled[d]]_Quarantine!vars
  BY LossJails
<1> QED BY <1>1, <1>2, <1>3, PTL DEF Quarantine!Spec, LossIsQuarantined, Quarantine!LossIsQuarantined
===============================================================================
