------------------------------- MODULE TileCache -------------------------------
(* The broker's cache of rendered tiles and the tracker of what each client   *)
(* was sent (wsd/TileCache.hpp, wsd/TileCache.cpp), and the queue of messages *)
(* to a client (wsd/SenderQueue.hpp), as operators on their values.           *)
(*                                                                            *)
(* A rendering is a blob: a keyframe, which replaces what is there, or a      *)
(* delta from one content of the tile to another. The content of a tile is   *)
(* the number of changes made to it.                                          *)
EXTENDS Integers, Sequences, FiniteSets, SequencesExt

CONSTANTS
  NoTile,     \* a null Tile pointer
  MaxDeltas   \* non-empty deltas in a tile that is not yet too large

ASSUME MaxDeltasAssumption == MaxDeltas \in Nat

Keyframe(id, to) == [wid |-> id, key |-> TRUE, from |-> to, to |-> to]

Delta(id, from, to) == [wid |-> id, key |-> FALSE, from |-> from, to |-> to]

(* TileData::isKeyframe, and a delta of one byte, just its 'D'.              *)
IsKeyframe(blob) == blob.key

IsEmpty(blob) == ~blob.key /\ blob.from = blob.to

(* Mutant: a keyframe does not clear the chain. *)
AppendAnyBlob(tile, blob) == [tile EXCEPT !.valid = TRUE, !.blobs = Append(@, blob)]

(* TileData::appendBlob: a keyframe clears the chain; an empty delta on top   *)
(* of an empty one only bumps its wire id. Either way the tile is valid again.*)
AppendBlob(tile, blob) ==
  [tile EXCEPT
     !.valid = TRUE,
     !.blobs = IF IsKeyframe(blob) THEN <<blob>>
               ELSE IF IsEmpty(blob) /\ Len(@) > 1 /\ IsEmpty(Last(@))
               THEN [@ EXCEPT ![Len(@)].wid = blob.wid]
               ELSE Append(@, blob)]

(* The TileData made of a first blob; `first` is the wire id in the key of    *)
(* the map, which later blobs do not update.                                  *)
NewTile(blob) == [blobs |-> <<blob>>, valid |-> TRUE, first |-> blob.wid]

Invalidate(tile) == [tile EXCEPT !.valid = FALSE]

TooLarge(tile) ==
  Cardinality({i \in DOMAIN tile.blobs : ~IsKeyframe(tile.blobs[i]) /\ ~IsEmpty(tile.blobs[i])})
    > MaxDeltas

NeedsKeyframe(tile, since) == since < tile.blobs[1].wid

(* A sequence from the first of some places on.                               *)
From(seq, places) ==
  IF places = {} THEN <<>>
  ELSE SubSeq(seq, CHOOSE i \in places : \A j \in places : i <= j, Len(seq))

(* Mutant: an off-by-one. *)
LaterChanges(tile, since) ==
  From(tile.blobs, {i \in DOMAIN tile.blobs : since = 0 \/ tile.blobs[i].wid > since + 1})

(* TileData::appendChangesSince: everything when nothing was sent, else what  *)
(* came later; nothing at all when the client has the last of them.           *)
ChangesSince(tile, since) ==
  From(tile.blobs, {i \in DOMAIN tile.blobs : since = 0 \/ tile.blobs[i].wid > since})

LastWid(tile) == Last(tile.blobs).wid

(* TileCache::saveDataToCache without its ensureCacheSize: a delta that has   *)
(* lost its keyframe is dropped.                                              *)
SaveDataToCache(tile, blob) ==
  IF tile # NoTile THEN AppendBlob(tile, blob)
  ELSE IF IsKeyframe(blob) THEN NewTile(blob)
  ELSE NoTile

(* TileCache::ensureCacheSize: with two tiles or more, the tiles whose first  *)
(* wire id is at most that of the victim go, but those being rendered stay.   *)
EnsureCacheSize(cache, rendering, victim) ==
  [k \in DOMAIN cache |->
     IF cache[k] # NoTile /\ cache[k].first <= cache[victim].first /\ rendering[k] = NoTile
     THEN NoTile ELSE cache[k]]

CachedTiles(cache) == {k \in DOMAIN cache : cache[k] # NoTile}

(* The rendering of a tile that sessions wait for: hasTileBeingRendered is    *)
(* false for a stalled one, so that it is issued again.                       *)
TileBeingRendered(ver, session) == [ver |-> ver, subscribers |-> {session}, stale |-> FALSE]

HasTileBeingRendered(entry) == entry # NoTile /\ ~entry.stale

TileBeingRenderedVersion(entry) == IF entry = NoTile THEN 0 ELSE entry.ver

(* TileCache::subscribeToTileRendering: the version moves only when the       *)
(* session is a subscriber already; it keeps the subscriptions over the       *)
(* answer to the older of two racing renderings.                              *)
SubscribeToTileRendering(entry, ver, session) ==
  IF entry = NoTile THEN TileBeingRendered(ver, session)
  ELSE IF session \in entry.subscribers THEN [entry EXCEPT !.ver = ver]
  ELSE [entry EXCEPT !.subscribers = @ \cup {session}]

ForgetTileBeingRendered(entry, ver) ==
  IF entry # NoTile /\ entry.ver <= ver THEN NoTile ELSE entry

(* SenderQueue::deduplicate for tiles: the first queued "tile:" of the same   *)
(* tile goes when another is put; deltas are never removed.                   *)
Deduplicate(queue, item) ==
  IF item.type = "tile" /\ \E i \in DOMAIN queue : queue[i].type = "tile" /\ queue[i].key = item.key
  THEN LET pos == CHOOSE i \in DOMAIN queue :
                    /\ queue[i].type = "tile" /\ queue[i].key = item.key
                    /\ \A j \in 1..(i - 1) : ~(queue[j].type = "tile" /\ queue[j].key = item.key)
       IN  RemoveAt(queue, pos)
  ELSE queue

Enqueue(queue, item) == Append(Deduplicate(queue, item), item)
=============================================================================
