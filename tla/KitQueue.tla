------------------------------- MODULE KitQueue --------------------------------
(* The queues of the Kit (kit/KitQueue.cpp), as operators on their values:    *)
(* the requests for tiles and the invalidations that wait to be sent.        *)
(*                                                                            *)
(* Areas are intervals of tile positions: one row of tiles is enough for an   *)
(* area to cover, meet or miss another.                                       *)
EXTENDS Integers, Sequences, FiniteSets, SequencesExt

CONSTANT MaxJoin   \* tiles a joined invalidation may span ("reasonable size")

ASSUME MaxJoinAssumption == MaxJoin \in Nat \ {0}

Area(lo, hi) == [lo |-> lo, hi |-> hi]

Covers(a, b) == a.lo <= b.lo /\ b.hi <= a.hi

(* Rectangles that only share an edge intersect.                              *)
Intersects(a, b) == a.lo <= b.hi + 1 /\ b.lo <= a.hi + 1

Join(a, b) == Area(IF a.lo < b.lo THEN a.lo ELSE b.lo, IF a.hi > b.hi THEN a.hi ELSE b.hi)

(* One step of the loop of elideDuplicateCallback: the queued invalidation is *)
(* dropped when covered, joined when they meet and the join is small, and     *)
(* kept otherwise.                                                            *)
ElideStep(acc, queued) ==
  IF Covers(acc.msg, queued) THEN acc
  ELSE LET joined == Join(acc.msg, queued)
       IN  IF Intersects(acc.msg, queued) /\ joined.hi - joined.lo < MaxJoin
           THEN [acc EXCEPT !.msg = joined]
           ELSE [acc EXCEPT !.kept = Append(@, queued)]

(* putCallback of LOK_CALLBACK_INVALIDATE_TILES with its elision.             *)
PutInvalidation(callbacks, area) ==
  LET acc[n \in 0 .. Len(callbacks)] ==
        IF n = 0 THEN [msg |-> area, kept |-> <<>>] ELSE ElideStep(acc[n - 1], callbacks[n])
      end == acc[Len(callbacks)]
  IN  Append(end.kept, end.msg)

(* sortedInsert into the queue of the request's view: of two requests for one *)
(* tile the newer one stays.                                                  *)
PushTile(tileQueue, request) ==
  {r \in tileQueue : r.key # request.key} \cup {request}

(* popTileQueue: the tile of the highest priority with the neighbours that    *)
(* can be combined with it; which these are depends on cursors and viewports. *)
CombinedWith(tileQueue, view) ==
  {S \in SUBSET {r \in tileQueue : r.key[1] = view} : S # {}}

(* The messages of clients: [session, type, ids], ids being what was typed.   *)
(* A text item is merged into the last queued one of its session and type,    *)
(* which moves to the end, unless one of the `barriers` comes in between.     *)
MergeText(queue, item, barriers) ==
  LET stops == {i \in DOMAIN queue :
                  queue[i].session = item.session /\ queue[i].type \in barriers \cup {item.type}}
      last  == CHOOSE i \in stops : \A j \in stops : j <= i
  IN  IF stops = {} \/ queue[last].type # item.type THEN Append(queue, item)
      ELSE Append(RemoveAt(queue, last), [item EXCEPT !.ids = queue[last].ids \o @])

CombineTextInput(queue, item) ==
  MergeText(queue, item, {"key", "mouse", "windowkey", "removetextcontext"})

CombineRemoveText(queue, item) ==
  MergeText(queue, item, {"key", "mouse", "windowkey", "textinput"})

(* KitQueue::put for messages that are not about tiles.                       *)
Put(queue, item) ==
  CASE item.type = "textinput" -> CombineTextInput(queue, item)
    [] item.type = "removetextcontext" -> CombineRemoveText(queue, item)
    [] OTHER -> Append(queue, item)

(* putCallback of a state: .uno:ModifiedStatus is never elided, and the       *)
(* comparison that looks for an older state of another command never matches. *)
PutState(callbacks, callback) == Append(callbacks, callback)
=============================================================================
