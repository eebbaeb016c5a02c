------------------------------ MODULE Quarantine -------------------------------
(* The quarantine (wsd/QuarantineUtil.cpp): copies of documents that may have *)
(* been lost, kept in a directory per document that is bounded in the number  *)
(* of versions, in age and in total size, and the use a DocumentBroker makes  *)
(* of it when a save is answered and when it ends.                            *)
(*                                                                            *)
(* Quarantine::Mutex serializes the brokers: a quarantineFile() is one step.  *)
(* A quarantined file is a name (the second and the Kit's pid are its parts)  *)
(* and a content; whether it is a hard link or a copy is not told apart.      *)
EXTENDS Integers, FiniteSets, TLC, SequencesExt

CONSTANTS
  Doc,
  Size,          \* how large a saved document may be
  MaxSizeBytes,  \* quarantine_files.limit_dir_size_mb
  MaxAgeSecs,    \* quarantine_files.expiry_min
  MaxVersions,   \* quarantine_files.max_versions_to_maintain
  MaxSaves,      \* bound on the saves of all documents
  MaxTime,       \* bound on the clock
  MaxLoads,      \* bound on the brokers of all documents
  SameSecond,    \* a document may be quarantined twice within a second
  Faults         \* "full": a file cannot be written

QuarantineAssumption ==
  /\ IsFiniteSet(Doc) /\ Size \subseteq Nat \ {0} /\ IsFiniteSet(Size) /\ Size # {}
  /\ {MaxSizeBytes, MaxAgeSecs, MaxSaves, MaxTime, MaxLoads} \subseteq Nat
  /\ MaxVersions \in Nat \ {0}
  /\ SameSecond \in BOOLEAN /\ Faults \subseteq {"full"}

None == [ver |-> 0, size |-> 0]       \* no such file
Original == CHOOSE z \in Size : \A y \in Size : z <= y
Content == [ver : 1..(MaxSaves + 1), size : Size]

VARIABLES
  now,         \* the seconds of the clock
  map,         \* QuarantineMap: the entries of each document, oldest first
  disk,        \* the quarantine directory: the names and contents of its files
  pid,         \* the Kit of the document's broker
  alive,       \* the document has a broker
  files,       \* the files in the jail: the document, .upload and .uploading
  stored,      \* what the storage holds
  saved,       \* the last version the Kit wrote
  handled,     \* the last version whose save result the broker handled
  hist         \* every version that was quarantined, in order

jail == <<pid, alive, files, stored, saved, handled>>
vars == <<now, map, disk, jail, hist>>

Total(f) == FoldFunction(+, 0, f)

Path(e) == <<e.time, e.pid>>
Paths(E) == {Path(e) : e \in E}
File(e, c) == [time |-> e.time, pid |-> e.pid, content |-> c]

Init ==
  /\ now = 0
  /\ map = [d \in Doc |-> <<>>]
  /\ disk = [d \in Doc |-> {}]
  /\ pid = [d \in Doc |-> 0]
  /\ alive = [d \in Doc |-> FALSE]
  /\ stored = [d \in Doc |-> [ver |-> 1, size |-> Original]]
  /\ files = [d \in Doc |-> [document |-> None, upload |-> None, uploading |-> None]]
  /\ saved = [d \in Doc |-> 1]
  /\ handled = [d \in Doc |-> 1]
  /\ hist = [d \in Doc |-> <<>>]
-----------------------------------------------------------------------------
(* Making room.                                                               *)

QuarantineSize(m) ==
  Total([d \in Doc |-> FoldSeq(LAMBDA e, n : e.size + n, 0, m[d])])

(* The entries that are not kept are counted up to the last of those that are *)
(* too old; without one that is too old none is removed, however many.        *)
DeleteOldQuarantineVersions(c) ==
  LET excessVersions == IF Len(c) > MaxVersions THEN Len(c) - MaxVersions ELSE 0
      old == {i \in excessVersions..(Len(c) - 1) :
                \A j \in excessVersions..i : c[j + 1].time < now - MaxAgeSecs}
      excessAge == IF old = {} THEN 0 ELSE CHOOSE i \in old : \A j \in old : j <= i
  IN  SubSeq(c, excessAge + 1, Len(c))

(* The document with the most entries, then the one with the oldest.          *)
Before(m, d, e) ==
  \/ Len(m[d]) > Len(m[e])
  \/ Len(m[d]) = Len(m[e]) /\ m[d][1].time < m[e][1].time

Orders(m) ==
  LET D == {d \in Doc : m[d] # <<>>}
  IN  {o \in SetToSeqs(D) : \A i, j \in DOMAIN o : i < j => ~Before(m, o[j], o[i])}

(* Removes the first entry of the first document. What is subtracted from the *)
(* size is read through a reference to the removed element: that is its       *)
(* successor, which has moved into its place, or itself if it was the last.   *)
RemoveOldest(s) ==
  LET d == Head(s.order)
      rest == Tail(s.map[d])
      m == [e \in Doc |-> IF e = d THEN rest ELSE s.map[e]]
      entry == Head(IF rest = <<>> THEN s.map[d] ELSE rest)
  IN  [map |-> m,
       size |-> s.size - entry.size,
       order |-> IF rest = <<>> THEN Tail(s.order)
                 ELSE IF Len(s.order) >= 2 /\ Before(m, s.order[2], d)
                      THEN <<s.order[2], d>> \o SubSeq(s.order, 3, Len(s.order))
                      ELSE s.order]

(* The size is unsigned: below zero it is far too large.                      *)
Fits(size) == size \in 0..MaxSizeBytes

(* One entry after the other goes, until the new file fits or none is left:   *)
(* there are not more of them than saves and brokers.                         *)
Shrunk(start) ==
  LET after[n \in 0..(MaxSaves + MaxLoads)] ==
        IF n = 0 THEN start
        ELSE LET s == after[n - 1]
             IN  IF s.order = <<>> \/ Fits(s.size) THEN s ELSE RemoveOldest(s)
  IN  after[MaxSaves + MaxLoads].map

(* The maps that may be left: equal documents are sorted in any order.        *)
MakeQuarantineSpace(m, headroom) ==
  LET culled == [d \in Doc |-> DeleteOldQuarantineVersions(m[d])]
      size   == QuarantineSize(culled) + headroom
  IN  IF Fits(size) THEN {culled}
      ELSE {Shrunk([map |-> culled, order |-> o, size |-> size]) : o \in Orders(culled)}

(* The files that are left when the first entries are removed from the map.   *)
Remaining(d, m) ==
  LET gone == {map[d][i] : i \in 1..(Len(map[d]) - Len(m[d]))}
  IN  {f \in disk[d] : Path(f) \notin Paths(gone)}
-----------------------------------------------------------------------------
(* Quarantining a file.                                                       *)

IsIdenticalToLast(d, file) ==
  map[d] # <<>> /\ File(Last(map[d]), file) \in disk[d]

(* A name that is taken (the same second) is written over, and removed when   *)
(* that fails.                                                                *)
QuarantineFile(d, file) ==
  LET entry == [time |-> now, pid |-> pid[d], size |-> file.size]
  IN  \/ IsIdenticalToLast(d, file) /\ UNCHANGED <<map, disk, hist>>
      \/ /\ ~IsIdenticalToLast(d, file)
         /\ SameSecond \/ \A i \in DOMAIN map[d] : map[d][i].time < now
         /\ \E m \in MakeQuarantineSpace(map, file.size) :
              LET left == [e \in Doc |->
                             {f \in Remaining(e, m) : e = d => Path(f) # Path(entry)}]
              IN  \/ /\ map' = [m EXCEPT ![d] = Append(@, entry)]
                     /\ disk' = [left EXCEPT ![d] = @ \cup {File(entry, file)}]
                     /\ hist' = [hist EXCEPT ![d] = Append(@, file.ver)]
                  \/ /\ "full" \in Faults
                     /\ map' = m
                     /\ disk' = left
                     /\ UNCHANGED hist
-----------------------------------------------------------------------------
(* A broker.                                                                  *)

Load(d) ==
  /\ ~alive[d] /\ Total(pid) < MaxLoads
  /\ pid' = [pid EXCEPT ![d] = @ + 1]
  /\ alive' = [alive EXCEPT ![d] = TRUE]
  /\ files' = [files EXCEPT ![d] = [document |-> stored[d], upload |-> None, uploading |-> None]]
  /\ handled' = [handled EXCEPT ![d] = stored[d].ver]
  /\ UNCHANGED <<now, map, disk, stored, saved, hist>>

(* The Kit writes the document and copies it for the upload.                  *)
Save(d) ==
  /\ alive[d] /\ Total(saved) < MaxSaves + Cardinality(Doc)
  /\ saved' = [saved EXCEPT ![d] = @ + 1]
  /\ \E z \in Size :
       LET c == [ver |-> saved[d] + 1, size |-> z]
       IN  \/ files' = [files EXCEPT ![d].document = c, ![d].upload = c]
           \/ "full" \in Faults /\ files' = [files EXCEPT ![d].document = c]
  /\ UNCHANGED <<now, map, disk, pid, alive, stored, handled, hist>>

(* The broker is told of the save: it quarantines .upload and renames it.     *)
HandleSaveResponse(d) ==
  LET file == files[d].upload
  IN  /\ alive[d] /\ file # None
      /\ QuarantineFile(d, file)
      /\ files' = [files EXCEPT ![d].upload = None, ![d].uploading = file]
      /\ handled' = [handled EXCEPT ![d] = file.ver]
      /\ UNCHANGED <<now, pid, alive, stored, saved>>

Uploaded(d) ==
  /\ alive[d] /\ files[d].uploading # None
  /\ stored' = [stored EXCEPT ![d] = files[d].uploading]
  /\ UNCHANGED <<now, map, disk, pid, alive, files, saved, handled, hist>>

(* The broker ends, and nothing is lost.                                      *)
EndClean(d) ==
  /\ alive[d] /\ files[d].document = stored[d]
  /\ alive' = [alive EXCEPT ![d] = FALSE]
  /\ UNCHANGED <<now, map, disk, pid, files, stored, saved, handled, hist>>

(* Mutant: the document as it was loaded is quarantined. *)
LastCopyLoaded(d) == IF files[d].upload # None THEN files[d].upload ELSE stored[d]

LastCopy(d) ==
  IF files[d].uploading # None THEN files[d].uploading
  ELSE IF files[d].upload # None THEN files[d].upload
  ELSE files[d].document

(* The broker ends after a data loss or the crash of the Kit, at any time.    *)
EndWithLoss(d) ==
  /\ alive[d]
  /\ QuarantineFile(d, LastCopy(d))
  /\ alive' = [alive EXCEPT ![d] = FALSE]
  /\ UNCHANGED <<now, pid, files, stored, saved, handled>>
-----------------------------------------------------------------------------
(* The entries of a directory, with the sizes of the files.                   *)
Found(d) == {[time |-> f.time, pid |-> f.pid, size |-> f.content.size] : f \in disk[d]}

(* They are sorted by their second, equal ones in any order.                  *)
Reread(d) ==
  {s \in SetToSeqs(Found(d)) : \A i, j \in DOMAIN s : i < j => s[i].time <= s[j].time}

(* The server ends with all its brokers and starts again: initialize().       *)
Restart ==
  /\ \E d \in Doc : alive[d]
  /\ alive' = [d \in Doc |-> FALSE]
  /\ \E m \in [Doc -> UNION {Reread(d) : d \in Doc}] :
       /\ \A d \in Doc : m[d] \in Reread(d)
       /\ map' \in MakeQuarantineSpace(m, 0)
  /\ disk' = [d \in Doc |-> {f \in disk[d] : Path(f) \in Paths(Range(map'[d]))}]
  /\ UNCHANGED <<now, pid, files, stored, saved, handled, hist>>

Tick ==
  /\ now < MaxTime
  /\ now' = now + 1
  /\ UNCHANGED <<map, disk, jail, hist>>

Next ==
  \/ \E d \in Doc :
       Load(d) \/ Save(d) \/ HandleSaveResponse(d) \/ Uploaded(d) \/ EndClean(d) \/ EndWithLoss(d)
  \/ Restart
  \/ Tick

Spec == Init /\ [][Next]_vars
-----------------------------------------------------------------------------
TypeOK ==
  /\ now \in 0..MaxTime
  /\ map \in [Doc -> Seq([time : 0..MaxTime, pid : 1..MaxLoads, size : Size])]
  /\ \A d \in Doc : disk[d] \subseteq [time : 0..MaxTime, pid : 1..MaxLoads, content : Content]
  /\ pid \in [Doc -> 0..MaxLoads]
  /\ alive \in [Doc -> BOOLEAN]
  /\ files \in [Doc -> [document : Content \cup {None}, upload : Content \cup {None},
                        uploading : Content \cup {None}]]
  /\ stored \in [Doc -> Content]
  /\ saved \in [Doc -> 1..(MaxSaves + 1)] /\ handled \in [Doc -> 1..(MaxSaves + 1)]
  /\ hist \in [Doc -> Seq(1..(MaxSaves + 1))]

(* The versions that the entries of a document denote; 0 if the file is gone. *)
VersionOf(e, F) ==
  IF Path(e) \in Paths(F) THEN (CHOOSE f \in F : Path(f) = Path(e)).content.ver ELSE 0
Versions(d) == [i \in DOMAIN map[d] |-> VersionOf(map[d][i], disk[d])]

(* The entries in memory are the files in the directory, each with its size   *)
(* (the limits are applied to the entries), also after a file could not be    *)
(* written and after a restart.                                               *)
MapIsDisk ==
  \A d \in Doc :
    /\ Range(map[d]) = Found(d)
    /\ Len(map[d]) = Cardinality(disk[d])

(* What was quarantined of a document last is what is kept of it: age, number *)
(* and size, and a restart, remove older versions before newer ones           *)
(* (deleteOldQuarantineVersions, makeQuarantineSpace, initialize).            *)
NewestIsKept ==
  \A d \in Doc : IsSuffix(Versions(d), hist[d])

(* The directory outgrows its limit by no more than the sizes of its files    *)
(* differ, once for each document (what makeQuarantineSpace may miscount).    *)
SizeIsBounded ==
  LET largest == CHOOSE z \in Size : \A y \in Size : y <= z
  IN  QuarantineSize(map) <= MaxSizeBytes + Cardinality(Doc) * (largest - Original)

(* A broker that ends with a loss leaves a version in the quarantine that is  *)
(* not older than the last one whose save it handled, unless the file cannot  *)
(* be written (the end of pollThread).                                        *)
LossIsQuarantined ==
  [][\A d \in Doc :
       EndWithLoss(d) /\ (IsIdenticalToLast(d, LastCopy(d)) \/ hist' # hist) =>
         map'[d] # <<>> /\ VersionOf(Last(map'[d]), disk'[d]) >= handled[d]]_vars

(* As the log has it ("Will quarantine the last version"): it is the last     *)
(* version that was saved.                                                    *)
LastVersionIsQuarantined ==
  [][\A d \in Doc :
       EndWithLoss(d) => VersionOf(Last(map'[d]), disk'[d]) = files[d].document.ver]_vars

(* As the configuration has it ("How many versions of the same file to        *)
(* keep").                                                                    *)
VersionsAreBounded == \A d \in Doc : Len(map[d]) <= MaxVersions + 1

(* As the configuration has it ("Maximum directory size ... On exceeding the  *)
(* specified limit, older files will be deleted").                            *)
LimitIsKept == QuarantineSize(map) <= MaxSizeBytes
=============================================================================
